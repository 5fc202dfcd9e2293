--------------------------- MODULE TaskLifecycle ---------------------------
(***************************************************************************)
(* The life of one task of the plugin: the record the plugin keeps in      *)
(* .wam/tasks/<id>/state.yaml and everything that reads and rewrites it.   *)
(*                                                                         *)
(* Three kinds of caller work on the record without a lock:                *)
(*                                                                         *)
(*   - chat messages (handleMessage), which read the record, await the     *)
(*     analysis of the prompt, read it again and then decide on ASKING,    *)
(*     approval and completion;                                            *)
(*   - /wam commands (wamCli), each a read and a write, except a           *)
(*     verification, which awaits its checks between the two;              *)
(*   - tool calls, bound to a requirement before they run and settled      *)
(*     against the record after they ran.                                  *)
(*                                                                         *)
(* Node runs one callback at a time, so the code between two awaits is one *)
(* step, but not one write: a restart of the process loses what is in      *)
(* flight, may fall between two writes of a step, and may tear the file    *)
(* that was being written.                                                 *)
(***************************************************************************)
EXTENDS Naturals

CONSTANTS
  MaxReq,          \* the most requirements a contract has
  PromptQuestion,  \* questions a contract asks of its own
  Assumption,      \* the assumptions a prompt can escalate
  NoAssumption,    \* the missing assumptionId of an unknown
  NoTask,          \* there is no readable state.yaml
  Idle,            \* nothing is in flight in this place
  Prompt,          \* the prompts the user may send
  Decided,         \* the questions whose id has an entry in decisions.md
  Imported,        \* records written by hand before the plugin starts
  Session,         \* places for a message whose analysis is awaited
  Verifier,        \* places for a verification whose checks run
  Call             \* places for a tool call

Req == 1 .. MaxReq

\* A question is one of the contract's, or the one that mirrors an assumption.
Question == PromptQuestion \cup Assumption

Executing == {"IMPLEMENTING", "VERIFYING", "DONE"}
Phase == {"PROPOSED", "ASKING", "ANSWERED", "WAITING"} \cup Executing
ContractStatus == {"PROPOSED", "APPROVED", "REJECTED"}
RequirementStatus == {"absent", "pending", "done", "verified"}
UnknownStatus == {"absent", "blocking", "answered"}

\* "active" is NON_BLOCKING/active, "critical" DECISION_CRITICAL/active (as the
\* analysis classified it), "blocking" DECISION_CRITICAL/blocking (escalated).
AssumptionStatus == {"absent", "active", "critical", "blocking", "resolved"}

\* The stored record of the checks of a requirement.
CheckStatus == {"none", "notRun", "pass"}

Task ==
  [phase      : Phase,
   contract   : ContractStatus,
   strategy   : BOOLEAN,                  \* approvedStrategy is present
   req        : [Req -> RequirementStatus],
   evidence   : SUBSET Req,               \* those whose evidence is not empty
   unknown    : [Question -> UnknownStatus],
   covers     : [Question -> Assumption \cup {NoAssumption}],
   assumption : [Assumption -> AssumptionStatus],
   checks     : [Req -> CheckStatus]]

(***************************************************************************)
(* What a message says, as far as the handler tells messages apart.        *)
(*   done   claims completion           ready    claims it and confirms     *)
(*   confirm  "ok", "continuar", ...    work     asks for an implementation *)
(*   answer   anything else                                                *)
(* impact: it has a word that makes a generic assumption critical;         *)
(* uncertain: its analysis comes out ambiguous or of low confidence.       *)
(***************************************************************************)
PromptKind == {"work", "answer", "confirm", "done", "ready"}

Claim == [kind : PromptKind, impact : BOOLEAN, uncertain : BOOLEAN]

DoneClaim(p) == p.kind \in {"done", "ready"}
Confirms(p) == ~p.uncertain \/ p.kind \in {"confirm", "ready"}
BlockedWhileAsking(p) == p.kind \in {"work", "done", "ready"}

-----------------------------------------------------------------------------
(* Reading a record *)

Live(t) == {r \in Req : t.req[r] # "absent"}
Unfinished(t) == {r \in Live(t) : \/ t.req[r] = "pending"
                                  \/ t.req[r] = "done" /\ r \notin t.evidence}
Blocking(t) == {q \in Question : t.unknown[q] = "blocking"}
Critical(t) == {a \in Assumption : t.assumption[a] \in {"critical", "blocking"}}

\* Nothing waits for the user.
Clear(t) == Blocking(t) = {} /\ Critical(t) = {}

(***************************************************************************)
(* What every record on disk satisfies.  It is the invariant of the proof, *)
(* stated about a record because a verification holds a second one.        *)
(***************************************************************************)

\* A requirement counts as done or verified only with evidence.
Backed(t) == \A r \in Req : t.req[r] \in {"done", "verified"} => r \in t.evidence

\* Who is asked to answer has a question to answer, an escalated assumption has
\* a question that resolves it, and a mirror question covers its assumption.
Askable(t) ==
  /\ t.phase = "ASKING" => Blocking(t) # {}
  /\ \A a \in Assumption : t.assumption[a] = "blocking" =>
       \E q \in Question : t.covers[q] = a /\ t.unknown[q] = "blocking"
  /\ \A a \in Assumption :
       \/ t.covers[a] = a
       \/ t.covers[a] = NoAssumption /\ t.unknown[a] = "absent"

\* Work goes on, or is over, only under an approved contract whose own questions
\* are answered: one that is still open came with an assumption that a later
\* message escalated.  A task waits only for a rejected contract.
Executable(t) ==
  /\ t.phase \in Executing =>
       /\ t.contract = "APPROVED"
       /\ \A q \in Blocking(t) : t.covers[q] # NoAssumption
       /\ \A a \in Assumption : t.assumption[a] # "critical"
  /\ t.phase = "WAITING" => t.contract = "REJECTED"

WellFormed(t) == t \in Task /\ Backed(t) /\ Askable(t) /\ Executable(t)

\* What has been asked and answered is on record: a task asks about requirements
\* it has, and the answer to a mirror question resolved its assumption.
Clarified(t) ==
  /\ t.phase = "ASKING" => Live(t) # {}
  /\ \A a \in Assumption :
       t.unknown[a] = "answered" => t.assumption[a] = "resolved"

ASSUME MaxReqAssumption == MaxReq \in Nat \ {0}
ASSUME QuestionAssumption == PromptQuestion \cap Assumption = {}
ASSUME NoAssumptionAssumption == NoAssumption \notin Assumption
ASSUME DecidedAssumption == Decided \subseteq Question
ASSUME PromptAssumption == Prompt \subseteq Claim /\ Idle \notin Prompt
ASSUME ImportedAssumption == \A t \in Imported : WellFormed(t) /\ Clarified(t)
ASSUME NoTaskAssumption == NoTask \notin Task

VARIABLES
  task,       \* the content of state.yaml
  msg,        \* msg[s]: the prompt whose analysis handleMessage awaits
  verifying,  \* verifying[v]: the record markRequirement read, and which one
  call        \* call[c]: the experiment a tool call was bound to

vars == <<task, msg, verifying, call>>

Verification == [task : Task, req : Req]
\* req 0: the call is bound to no requirement.
Binding == [bound : BOOLEAN, req : Req \cup {0}]

TypeOK ==
  /\ task \in Task \cup {NoTask}
  /\ msg \in [Session -> Prompt \cup {Idle}]
  /\ verifying \in [Verifier -> Verification \cup {Idle}]
  /\ call \in [Call -> Binding \cup {Idle}]

Init ==
  /\ task \in Imported \cup {NoTask}
  /\ msg = [s \in Session |-> Idle]
  /\ verifying = [v \in Verifier |-> Idle]
  /\ call = [c \in Call |-> Idle]

-----------------------------------------------------------------------------
(* approveContract, and the other edits of a record *)

Approved(t) ==
  [t EXCEPT !.contract = "APPROVED",
            !.strategy = TRUE,
            !.phase = IF @ = "DONE" THEN "DONE" ELSE "IMPLEMENTING"]

Rejected(t) == [t EXCEPT !.contract = "REJECTED", !.phase = "WAITING"]

(***************************************************************************)
(* Every operator with a suffix (Marked_DropsEvidence) is a wrong version  *)
(* of the one without it, which no specification uses: each stands for a   *)
(* mistake that one of the properties below must notice.                   *)
(***************************************************************************)

\* The contract of n pending requirements, as projectState and editContract
\* number them.
Pending(n) == [r \in Req |-> IF r <= n THEN "pending" ELSE "absent"]

\* The question is answered and the assumption it covers resolved, for every
\* question of Q.
Answered(t, Q) ==
  [t EXCEPT !.unknown = [q \in Question |-> IF q \in Q THEN "answered" ELSE @[q]],
            !.assumption = [a \in Assumption |->
                              IF \E q \in Q : t.covers[q] = a
                                THEN "resolved" ELSE @[a]]]

\* Wrong: the evidence is kept only while the requirement is done.
Marked_DropsEvidence(t, r, status) ==
  [t EXCEPT !.req[r] = status,
            !.evidence = IF status = "done" THEN @ \cup {r} ELSE @ \ {r}]

Marked(t, r, status) ==
  [t EXCEPT !.req[r] = status,
            !.evidence = IF status = "pending" THEN @ \ {r} ELSE @ \cup {r}]

(***************************************************************************)
(* escalateAssumptions: every active assumption turns blocking.  Each in   *)
(* turn takes over a blocking question that covers none yet; when no such  *)
(* question is left, it gets a question of its own.                        *)
(***************************************************************************)
Escalating(t) == {a \in Assumption : t.assumption[a] = "active"}

\* Wrong: a question answered before is taken over too.
Uncovered_Answered(t) ==
  {q \in Question : t.unknown[q] # "absent" /\ t.covers[q] = NoAssumption}

Uncovered(t) == {q \in Blocking(t) : t.covers[q] = NoAssumption}

Links(t) ==
  {link \in [Escalating(t) -> Question] :
     /\ \A a \in Escalating(t) : link[a] \in Uncovered(t) \cup {a}
     /\ \A a, b \in Escalating(t) : link[a] = link[b] => a = b
     /\ \/ \A q \in Uncovered(t) : \E a \in Escalating(t) : link[a] = q
        \/ \A a \in Escalating(t) : link[a] \in Uncovered(t)}

EscalatedBy(t, link) ==
  LET asked == {link[a] : a \in Escalating(t)}
  IN  [t EXCEPT
        !.assumption = [a \in Assumption |->
                          IF a \in Escalating(t) THEN "blocking" ELSE @[a]],
        !.unknown = [q \in Question |-> IF q \in asked THEN "blocking" ELSE @[q]],
        !.covers = [q \in Question |->
                      IF q \in asked
                        THEN CHOOSE a \in Escalating(t) : link[a] = q
                        ELSE @[q]]]

Escalated(t, p) ==
  IF p.impact THEN {EscalatedBy(t, link) : link \in Links(t)} ELSE {t}

(***************************************************************************)
(* The completion gate, asked about a claim of completion.                 *)
(***************************************************************************)
Finished(t) == Clear(t) /\ Unfinished(t) = {} /\ t.contract = "APPROVED"

\* Wrong: a verified requirement needs no check.
evaluateCompletionGate_Unchecked(t) ==
  IF ~Finished(t) THEN "blocked"
  ELSE IF \E r \in Live(t) : t.req[r] # "verified" THEN "verifying"
  ELSE "allDone"

evaluateCompletionGate(t) ==
  IF ~Finished(t) THEN "blocked"
  ELSE IF \E r \in Live(t) : t.req[r] # "verified" THEN "verifying"
  ELSE IF \E r \in Req : t.checks[r] = "notRun" THEN "verifying"
  ELSE "allDone"

\* Wrong: the name execution-state.js has for the phase.
applyPhaseTransition_Completed(t) ==
  [t EXCEPT !.phase = CASE evaluateCompletionGate(t) = "allDone"   -> "COMPLETED"
                        [] evaluateCompletionGate(t) = "verifying" -> "VERIFYING"
                        [] evaluateCompletionGate(t) = "blocked"   -> @]

applyPhaseTransition(t) ==
  [t EXCEPT !.phase = CASE evaluateCompletionGate(t) = "allDone"   -> "DONE"
                        [] evaluateCompletionGate(t) = "verifying" -> "VERIFYING"
                        [] evaluateCompletionGate(t) = "blocked"   -> @]

-----------------------------------------------------------------------------
(* Chat messages *)

(***************************************************************************)
(* Up to the await.  While the task asks, a claim or a request to          *)
(* implement is turned away and anything else answers all the questions.   *)
(* With an approved contract a message that claims nothing is over here:   *)
(* both branches of the continuation path return.                          *)
(***************************************************************************)
FastPath(t, p) == t # NoTask /\ t.contract = "APPROVED" /\ ~DoneClaim(p)

Heard(t, p) ==
  IF t # NoTask /\ t.phase = "ASKING" /\ Blocking(t) # {}
    THEN [Answered(t, Blocking(t)) EXCEPT !.phase = "PROPOSED"]
    ELSE t

BeginMessage(s, p) ==
  /\ msg[s] = Idle
  /\ ~(task # NoTask /\ task.phase = "ASKING" /\ BlockedWhileAsking(p))
  /\ task' = Heard(task, p)
  /\ msg' = IF FastPath(task', p) THEN msg ELSE [msg EXCEPT ![s] = p]
  /\ UNCHANGED <<verifying, call>>

\* A contract as the analysis of a first message makes it: synthesizeContract
\* always finds a requirement, and its questions are blocking.
Synthesized ==
  {[phase |-> "PROPOSED", contract |-> "PROPOSED", strategy |-> FALSE,
    req |-> Pending(n), evidence |-> {}, unknown |-> u,
    covers |-> [q \in Question |-> NoAssumption], assumption |-> a,
    checks |-> [r \in Req |-> "none"]] :
     n \in 1 .. MaxReq,
     u \in {f \in [Question -> {"absent", "blocking"}] :
              \A q \in Assumption : f[q] = "absent"},
     a \in [Assumption -> {"absent", "active", "critical"}]}

\* A record that has requirements is kept, any other synthesized anew.
buildPersistedState(t) ==
  IF t # NoTask /\ Live(t) # {} THEN {t} ELSE Synthesized

\* A question that decisions.md has an entry for is not asked, and stays open.
Asks(t) == Blocking(t) \ Decided # {} /\ t.phase # "ANSWERED"

Approves(t, p) ==
  t.contract = "PROPOSED" /\ t.phase = "PROPOSED" /\ Confirms(p)

\* Wrong: the message approves without approveContract's refusals.
AfterApproval_Unguarded(t, p) == IF Approves(t, p) THEN Approved(t) ELSE t

AfterApproval(t, p) ==
  IF Approves(t, p) /\ Clear(t) THEN Approved(t) ELSE t

(***************************************************************************)
(* After the await: read the record again, escalate, and either ask or     *)
(* decide on approval and completion.  A claim writes the record the       *)
(* handler holds, whose contract and phase were refreshed after the        *)
(* approval and whose approvedStrategy was not.                            *)
(***************************************************************************)
FinishMessage(s) ==
  /\ msg[s] # Idle
  /\ \E built \in buildPersistedState(task) :
       \E mem \in Escalated(built, msg[s]) :
         LET approved == AfterApproval(mem, msg[s])
             held == [approved EXCEPT !.strategy = mem.strategy]
         IN  task' = IF Asks(mem) THEN [mem EXCEPT !.phase = "ASKING"]
                     ELSE IF DoneClaim(msg[s]) THEN applyPhaseTransition(held)
                     ELSE approved
  /\ msg' = [msg EXCEPT ![s] = Idle]
  /\ UNCHANGED <<verifying, call>>

-----------------------------------------------------------------------------
(* /wam commands *)

\* Wrong: only assumptions hold an approval back.
approveContract_Unasked ==
  /\ task # NoTask
  /\ Critical(task) = {}
  /\ task' = Approved(task)
  /\ UNCHANGED <<msg, verifying, call>>

approveContract ==
  /\ task # NoTask
  /\ Clear(task)
  /\ task' = Approved(task)
  /\ UNCHANGED <<msg, verifying, call>>

rejectContract ==
  /\ task # NoTask
  /\ task' = Rejected(task)
  /\ UNCHANGED <<msg, verifying, call>>

\* The patch may replace the requirements (by n new ones) or leave them.
editContract ==
  /\ task # NoTask
  /\ \/ task' = [task EXCEPT !.contract = "PROPOSED", !.phase = "PROPOSED"]
     \/ \E n \in 0 .. MaxReq :
          task' = [task EXCEPT !.contract = "PROPOSED", !.phase = "PROPOSED",
                               !.req = Pending(n), !.evidence = {}]
  /\ UNCHANGED <<msg, verifying, call>>

answerQuestion(q) ==
  /\ task # NoTask
  /\ task.unknown[q] # "absent"
  /\ task' = [Answered(task, {q}) EXCEPT !.phase = "PROPOSED"]
  /\ UNCHANGED <<msg, verifying, call>>

\* Wrong: the task keeps asking.
Resolved_KeepsAsking(t, a) ==
  LET asked == {q \in Blocking(t) : t.covers[q] = a}
  IN  {[t EXCEPT !.assumption[a] = "resolved",
                 !.unknown = [q \in Question |->
                                IF q \in answered THEN "answered" ELSE @[q]]] :
         answered \in IF asked = {} THEN {{}} ELSE {{q} : q \in asked}}

\* Evidence resolves an assumption, and answers the question that covers it.
Resolved(t, a) ==
  LET asked == {q \in Blocking(t) : t.covers[q] = a}
  IN  {[t EXCEPT !.assumption[a] = "resolved",
                 !.unknown = [q \in Question |->
                                IF q \in answered THEN "answered" ELSE @[q]],
                 !.phase = IF @ = "ASKING" /\ Blocking(t) \subseteq answered
                             THEN "PROPOSED" ELSE @] :
         answered \in IF asked = {} THEN {{}} ELSE {{q} : q \in asked}}

resolveAssumption(a) ==
  /\ task # NoTask
  /\ task.assumption[a] # "absent"
  /\ task' \in Resolved(task, a)
  /\ UNCHANGED <<msg, verifying, call>>

\* /wam progress <r> done|pending|verified, for what runs no check: a checked
\* requirement is not moved back from verified to done.
markRequirement(r, status) ==
  /\ task # NoTask
  /\ r \in Live(task)
  /\ status = "verified" => task.req[r] = "done" /\ task.checks[r] = "none"
  /\ status = "done" => ~(task.req[r] = "verified" /\ task.checks[r] # "none")
  /\ task' = Marked(task, r, status)
  /\ UNCHANGED <<msg, verifying, call>>

\* The verification of a checked requirement reads the record and awaits the
\* checks ...
BeginVerification(v, r) ==
  /\ verifying[v] = Idle
  /\ task # NoTask
  /\ task.req[r] = "done"
  /\ task.checks[r] # "none"
  /\ verifying' = [verifying EXCEPT ![v] = [task |-> task, req |-> r]]
  /\ UNCHANGED <<task, msg, call>>

\* Wrong: the record is read again, its evidence is not.
FinishVerification_Reread(v) ==
  /\ verifying[v] # Idle
  /\ task # NoTask
  /\ task' = [task EXCEPT !.req[verifying[v].req] = "verified"]
  /\ verifying' = [verifying EXCEPT ![v] = Idle]
  /\ UNCHANGED <<msg, call>>

\* Wrong: the record is read again, the phase is the one read before.
FinishVerification_StalePhase(v) ==
  /\ verifying[v] # Idle
  /\ task # NoTask
  /\ task' = [Marked(task, verifying[v].req, "verified")
                EXCEPT !.phase = verifying[v].task.phase]
  /\ verifying' = [verifying EXCEPT ![v] = Idle]
  /\ UNCHANGED <<msg, call>>

\* ... and writes the record it read, or gives up because a check failed.
FinishVerification(v) ==
  /\ verifying[v] # Idle
  /\ \/ task' = Marked(verifying[v].task, verifying[v].req, "verified")
     \/ task' = task
  /\ verifying' = [verifying EXCEPT ![v] = Idle]
  /\ UNCHANGED <<msg, call>>

-----------------------------------------------------------------------------
(* Tool calls *)

\* The requirement a call works on: the first unfinished one, or else the
\* first; 0 when the record has none.  Here done counts as finished.
ActiveRequirement(t) ==
  LET open == {r \in Live(t) : t.req[r] = "pending"}
      candidates == IF open # {} THEN open ELSE Live(t)
  IN  IF candidates = {} THEN 0
      ELSE CHOOSE r \in candidates : \A o \in candidates : r <= o

\* tool.execute.before returns early in every phase but ASKING, ...
BridgeReached(t) == t # NoTask /\ t.phase = "ASKING"

\* ... and bridgeExecution binds a call only under an approved contract or in a
\* phase of execution.
bridgeExecution(t) ==
  IF /\ BridgeReached(t)
     /\ t.contract = "APPROVED" \/ t.phase \in {"IMPLEMENTING", "VERIFYING"}
    THEN [bound |-> TRUE, req |-> ActiveRequirement(t)]
    ELSE [bound |-> FALSE, req |-> 0]

ToolBefore(c) ==
  /\ call[c] = Idle
  /\ call' = [call EXCEPT ![c] = bridgeExecution(task)]
  /\ UNCHANGED <<task, msg, verifying>>

\* The requirement noteSuccess settles when the call ends.
Settled(c) == IF call[c].req # 0 \/ task = NoTask
                THEN call[c].req ELSE ActiveRequirement(task)

\* The outcome matches the expected observation: the requirement is verified,
\* whatever its status and its checks.
ToolSupported(c) ==
  /\ call[c] # Idle
  /\ call[c].bound
  /\ task' = IF task # NoTask /\ Settled(c) \in Live(task)
               THEN Marked(task, Settled(c), "verified") ELSE task
  /\ call' = [call EXCEPT ![c] = Idle]
  /\ UNCHANGED <<msg, verifying>>

\* The outcome contradicts it (or carries no observation at all): the
\* requirement is pending again and keeps its evidence list.
ToolContradicted(c) ==
  /\ call[c] # Idle
  /\ call[c].bound
  /\ task' = IF task # NoTask /\ Settled(c) \in Live(task)
               THEN [task EXCEPT !.req[Settled(c)] = "pending"] ELSE task
  /\ call' = [call EXCEPT ![c] = Idle]
  /\ UNCHANGED <<msg, verifying>>

\* A failure, an inconclusive outcome, or a call that was never bound.
ToolWithoutEffect(c) ==
  /\ call[c] # Idle
  /\ call' = [call EXCEPT ![c] = Idle]
  /\ UNCHANGED <<task, msg, verifying>>

-----------------------------------------------------------------------------
(* A restart loses what is in flight *)

Restart(t) ==
  /\ task' = t
  /\ msg' = [s \in Session |-> Idle]
  /\ verifying' = [v \in Verifier |-> Idle]
  /\ call' = [c \in Call |-> Idle]

Crash == Restart(task)

\* writeFileSync was interrupted: the file no longer parses.
CrashTearsFile == task # NoTask /\ Restart(NoTask)

\* answerQuestion writes twice; only the first write happened.
CrashAmidAnswer ==
  /\ task # NoTask
  /\ \E q \in Question :
       /\ task.unknown[q] # "absent"
       /\ Restart([Answered(task, {q}) EXCEPT !.phase = "ANSWERED"])

\* FinishMessage writes up to three times before its last write: the record that
\* was built, the one with the escalated assumptions, the approved one.
CrashAmidMessage(s) ==
  /\ msg[s] # Idle
  /\ \E built \in buildPersistedState(task) :
       \E mem \in Escalated(built, msg[s]) :
         \/ Restart(built)
         \/ Restart(mem)
         \/ ~Asks(mem) /\ Restart(AfterApproval(mem, msg[s]))

-----------------------------------------------------------------------------

Message == \E s \in Session : FinishMessage(s) \/ \E p \in Prompt : BeginMessage(s, p)

Command ==
  \/ approveContract \/ rejectContract \/ editContract
  \/ \E q \in Question : answerQuestion(q)
  \/ \E a \in Assumption : resolveAssumption(a)
  \/ \E r \in Req, status \in {"done", "pending", "verified"} :
       markRequirement(r, status)

VerificationStep == \E v \in Verifier : FinishVerification(v)
                                          \/ \E r \in Req : BeginVerification(v, r)

Tool == \E c \in Call : \/ ToolBefore(c) \/ ToolWithoutEffect(c)
                        \/ ToolSupported(c) \/ ToolContradicted(c)

Failure == \/ Crash \/ CrashTearsFile \/ CrashAmidAnswer
           \/ \E s \in Session : CrashAmidMessage(s)

Next == Message \/ Command \/ VerificationStep \/ Tool \/ Failure

Spec == Init /\ [][Next]_vars

-----------------------------------------------------------------------------
(* Properties *)

(***************************************************************************)
(* The record on disk is one of the three below whenever it can be read:   *)
(* nothing counts as done or verified without evidence (markRequirement,   *)
(* markRequirementVerified), a task that asks has a question the user can  *)
(* answer and every escalated assumption has one that resolves it          *)
(* (escalateAssumptions, resolveAssumption), and a task is in a phase of   *)
(* execution only while its contract is approved and every question of the *)
(* contract itself is answered (approveContract), whatever order the       *)
(* handlers ran in and whichever of their writes a crash cut off.          *)
(***************************************************************************)
EvidenceBacked == task # NoTask => Backed(task)
AskingIsAnswerable == task # NoTask => Askable(task)
ExecutionIsApproved == task # NoTask => Executable(task)

\* A task asks only about requirements it has, and the answer to the question
\* that mirrors an assumption resolved that assumption: answerQuestion and
\* resolveAssumption change the two lists in one write, whichever of them the
\* user came through (uncertainty.js).
AnswersAreRecorded == task # NoTask => Clarified(task)

MessageEnds(s) == msg[s] # Idle /\ msg'[s] = Idle /\ task' # NoTask

\* A message whose analysis was awaited completes a task only if, when it is
\* written, every requirement is verified with evidence under an approved
\* contract, no question or assumption is open and no check is left to run:
\* what evaluateCompletionGate saw is still so (message-handler.js:460-466).
CompletionIsGated ==
  [][\A s \in Session :
       /\ MessageEnds(s)
       /\ task'.phase = "DONE"
       /\ task = NoTask \/ task.phase # "DONE"
       => /\ \A r \in Live(task') : task'.req[r] = "verified" /\ r \in task'.evidence
          /\ task'.contract = "APPROVED"
          /\ Clear(task')
          /\ \A r \in Req : task'.checks[r] # "notRun"]_vars

\* What the user answered stays answered and what was resolved stays resolved
\* while the contract lives: no later message, escalation or command asks it
\* again.  Only a verification that read the record before can undo it.
ClarificationStands ==
  [][/\ task # NoTask /\ task' # NoTask
     /\ Live(task) # {}
     /\ verifying' = verifying
     => /\ \A q \in Question : task.unknown[q] = "answered" => task'.unknown[q] = "answered"
        /\ \A a \in Assumption :
             task.assumption[a] = "resolved" => task'.assumption[a] = "resolved"]_vars

\* From ASKING no message, command or tool call reaches a phase of execution in
\* one step: the answer leads back to the contract first ("never silently
\* resuming execution", the clarification-gate specification under openspec/).
AskingNeverResumesExecution ==
  [][/\ task # NoTask /\ task' # NoTask
     /\ verifying' = verifying
     /\ task.phase = "ASKING"
     => task'.phase \notin Executing]_vars

\* A task enters the phases of execution only with nothing left to ask, whoever
\* leads it there and whatever a crash cuts off: a command, the approval in a
\* message or the completion gate (approveContract, applyPhaseTransition).  Only
\* a verification that read the record before can lead it back there.
ExecutionStartsCleared ==
  [][/\ task' # NoTask /\ task'.phase \in Executing
     /\ task = NoTask \/ task.phase \notin Executing
     /\ verifying' = verifying
     => task'.contract = "APPROVED" /\ Clear(task')]_vars

(***************************************************************************)
(* Two claims of the repository that the code does not keep.               *)
(***************************************************************************)

\* openspec/changes/decision-critical-uncertainty/specs/uncertainty-classification/
\* spec.md:31 "A DECISION_CRITICAL uncertainty must prevent implementation of the
\* affected decision until the user provides an answer": a task is in a phase of
\* execution only with nothing left to ask.
ExecutionIsCleared ==
  task # NoTask /\ task.phase \in Executing => Clear(task)

\* index.js:1603 "persist approved strategy so tool.execute.before knows which
\* actions are covered": an approved contract has its strategy.
ApprovedHasStrategy ==
  task # NoTask /\ task.contract = "APPROVED" => task.strategy

=============================================================================
