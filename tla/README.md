# A TLA+ model of wait-a-minute

wait-a-minute is a plugin of a coding agent. It keeps a *contract* for each task
(requirements, questions, assumptions), holds the agent back while a question
is open, lets tools run as experiments under hypotheses, and lets a task end
only when its requirements are verified with evidence. All of it is JavaScript
on one Node process, and the state is files.

This directory models it in TLA+, checks the models with TLC and proves
the main safety properties with TLAPS. `PROJECT.json` lists the runs, the source
lines behind every definition, the hazards, the findings and the theorems.

## 1. Inventory

### The core

**Task lifecycle** — `index.js`, `src/integration/message-handler.js`,
`src/skills/engine.js`.
*State*: one record per task in `.wam/tasks/<id>/state.yaml`: phase, contract
status, approved strategy, requirements with status and evidence, unknowns
(questions) with the assumption each covers, assumptions, checks.
*Operations*: `handleMessage` (answer, analysis, escalation of assumptions,
approval, completion gate), the `/wam` commands (`approveContract`,
`rejectContract`, `editContract`, `answerQuestion`, `resolveAssumption`,
`markRequirement`), and the hooks around a tool call (`bridgeExecution`, the
outcomes).
*Hard*: nothing locks the record. `handleMessage` awaits its analysis,
`markRequirement` awaits its checks and then writes back all it had read; a
command in between is undone. A message persists the record up to four times,
and the file is overwritten in place.
*Correct when*: a requirement counts as done only with evidence; a task that
asks has a question to answer; execution goes on only under an approved contract
with nothing left to ask; only the gate completes a task.

**Execution loop and evidence lineage** — `src/execution/execution-engine.js`,
`src/cognition/`, `src/evidence/evidence-lineage.js`.
*State*: JSONL files of hypotheses, experiments and observations whose last line
counts, one file per piece of evidence, and the requirement statuses and
citations of the task record.
*Operations*: `startExperiment`, `noteSuccess`, `noteFailure`,
`noteContradiction`, `verifyEvidence`, `supersedeEvidence`,
`invalidateEvidence`.
*Hard*: a success is six or more writes one after the other and a crash parts any
two; an outcome is noted by two hooks, which may disagree; a contradiction must
take back every requirement the evidence of its hypothesis had verified.
*Correct when*: what a requirement cites is traceable to its observation; a
verified requirement rests on evidence that is not stale; a hypothesis under test
has an experiment and does not stay under test after a failure.

**Durable state store** — `src/state/state-store.js`,
`src/persistence/transaction-log.js`, `src/state/state-schema.js`.
*State*: a sealed document per key, the journal, calls in flight.
*Operations*: `write`, `read` (which quarantines), `gc`, `recover`; `append`,
`truncate`, `replay`.
*Hard*: async functions without a lock; files removed on the strength of an
earlier look; a journal renamed under an append; torn lines.
*Correct when*: an acknowledged document stays readable unless somebody damages
or evicts it, a recovery restores what the journal holds and nothing else, and the
whole is a durable map.

The task record is where the first two meet: a tool outcome in `TaskLifecycle`
(`ToolSupported`, `ToolContradicted`) is the effect on the record of what
`ExecutionLoop` does write by write. The state store is not used by the other
two: only the tests call it.

### Around the core

| Part | State and operations | Hard | Correct when |
|---|---|---|---|
| Sessions, `index.js`, `message-handler.js`, `context.js` | per session: root, parent, bound task; per project: the active-task file, good for a minute. Messages, commands and tool calls each work out which record they mean | they interleave, and each resolves by other rules; a message about another project throws half way | the gate reads the record the session's last message was about; a private task stays private |
| Tool gate, `index.js`, `src/policy/` | the record, the process's switches. `tool.execute.before` asks strategy, risk, contract and question in turn | each has a soft mode and early returns; commands are told by a prefix | while a question is open nothing runs but what begins like a reading git command |
| Message guard, `message-handler.js`, `part-provenance.js` | the table of processed messages; marks on the plugin's own parts | two hooks deliver one message, the table evicts | handled once in a while |
| Task runs, `task-runs.js`, `task-execution.js` | a file per run, `currentRunId`, the old `executions` | several writes, torn files | the record fits the files, entries stay |
| Preflight, `engine.js`, `uncertainty.js`, `request-classifier.js` | mode, assumptions, questions, contract of a prompt | numbering and matching of questions by links | what is critical is asked |
| Verification, `verification.js` | a cached repository state, one script file for all page checks | two calls at once | a page that passes alone is its own |
| Freshness and lineage, `src/evidence/` | the environment and hashes recorded, evidence files | a refresh cut off between writes or in one, a record written back stale | valid evidence survives one environment only |
| Continuation, `context-snapshot.js` | the snapshot of the last pack | three formats of a revision | the fast path is fresh |
| Context items, graph, assembly, capsules, `src/context/` | items in layers, a graph on disk, a selection under a budget | throws half way, circles, budgets spent twice | fair eviction, closed selections, kept budgets |
| Feedback, loops, drift, contradictions, diagnosis | statistics, fingerprints, words against a goal, authority, causes | caps and windows; sorting the caller's list | what is reported was there |
| Provenance, inference, decision trail | observations, weighed criteria, ledgers, the archive | files torn or overwritten | nothing derived is surer than its source |
| Memory, `memory.js` | Markdown documents rewritten in place | a write cut short | the user's decision stands |
| Skills, `engine.js`, `skill-routing.js`, `skill-composition.js` | registry, corpus, log of uses, contracts, plans | circles, conflicts, slots | the best are taken; a plan is in order |
| Lifecycle manager, circuit breaker, limiter, rollback, canary, release gate | small machines with awaits between their steps | concurrent calls, failures half way | they end, and where they say |
| Formal execution state, task store, event sourcing, migration and retention, budgets, event bus, logging, scripts | | | not modelled, see section 7 |

How they meet: a message passes the guard, is bound to a task (sessions), is
analysed (preflight, skills, memory, context) unless the snapshot still holds
(continuation), and changes the record (lifecycle). A tool call passes the gate
for the record its session means, and its outcome goes through the execution loop
into the evidence and back to the record. Verification, freshness and lineage
judge that evidence; runs, trail and memory remember it. The rest is called by
scripts and tests.

## 2. Plan

1. `TaskLifecycle`, `StateStore` implementing `DurableMap`, `ExecutionLoop`, with
   their proofs (done).
2. The components around them, each a module of its own, checked side by side by
   `MCComponents` and `MCServices` (done).
3. Proofs for those where an invariant is not inductive as it stands: sessions,
   runs, guard, breaker, gate, continuation, verification (done).
4. Proofs for what must not stop half way: the refresh of evidence, the rollback,
   a recovery of the store, the answering of a question (done).
5. The store implements `DurableMap`, step by step; the gates of a completion
   (done).
6. The context: graph, router, budget, capsules, eviction; and what advises the
   work: contract, memory, skills, plans (done).
7. Proofs for the rest of what `components` and `services` run, and for both as a
   whole (done).
8. Left: sessions composed with the record of `TaskLifecycle` instead of its phase
   alone; the transition tables and migrations of section 7.

## 3. The modules

Each module states its abstraction at the top. An operator with a suffix, such as
`Marked_DropsEvidence`, is a wrong version of the one without: no specification
uses it; it stands for the mistake that a property is there to notice.

### `TaskLifecycle`, `MCTaskLifecycle`

| Variable | Code |
|---|---|
| `task` | the content of `state.yaml`, or `NoTask` when there is none that parses (`getTaskState` returns null for both) |
| `msg[s]` | a message between the await of its analysis and the code after it |
| `verifying[v]` | the record `markRequirement` read before it awaits `verifyRequirement` |
| `call[c]` | an entry of `sessionExecutions`: what the bridge bound a call to |

`BeginMessage` is `handleMessage` up to its await (`message-handler.js:229-373`),
`FinishMessage` the rest. Each command is one action; a verification is two.
`Synthesized` is any contract the analysis can make; prompts are abstracted to
what the handler tells apart (`Claim`). `Links` is every way
`escalateAssumptions` can pair assumptions with questions, since the order of the
arrays is not kept. Records with `checks` come only from outside
(`tests/unit/verification-completion.test.mjs:91`) and are `Imported` initial
states. `Decided` are the questions with an entry in `decisions.md`: such a question
is not asked (`Asks`, `message-handler.js:407-418`), and stays open. There are four
ways a process can stop: between two handlers (`Crash`), in a write of the file
(`CrashTearsFile`), between the two writes of an answer (`CrashAmidAnswer`), and
between the writes of a message (`CrashAmidMessage`), which has persisted the record
it built, the one with the escalated assumptions (line 396) or the approved one,
but not yet the phase ASKING (lines 416-418) or the completion.

Left out: `/wam strategy set` (the strategy is a Boolean here); the switch between
tasks, the messages about another project and the table of processed messages,
which `Sessions` and `MessageGuard` have (here any message may come at any time);
`applyCompletionGate` (never called).

### `StateStore`, `DurableMap`, `MCStateStore`

| Variable | Code |
|---|---|
| `file[k]` | `state/<type>/<id>.json`: missing, bad, or a document |
| `journal` | the lines of `journal.log`; an entry, a torn last line, a corrupt line |
| `writer[w]` | a `write`, by the await it has reached |
| `reader[r]` | a `read` that has found a bad file and not yet removed it |
| `gc` | a collection: the keys it has still to look at, the one it is about to remove |
| `recovery` | a `recover`: the replayed map, the keys left, the one found absent |

`acked` and `touched` are history: keys some `write` returned ok for, and keys
whose file was damaged from outside or evicted. Every await ends an action.
`DurableMap` says what it is all for: a map, with a remembered document per
key, where only a key that has lost its document gets one back.

Assumed: one collection at a time, and `recover` before the store is used, as the
tests do. Keys have no `:` in their id (`recover` splits at it). A crash is that
of the process; `atomicWrite` does not fsync, so a power loss is out of scope. A
cut-off append leaves a part of its line that does not parse. Left out, because
nothing reads them to decide anything: `state-index.json`, snapshots,
quarantined copies, temporary files, `seq`. A `write` the schema rejects changes
nothing and is not an action.

### `ExecutionLoop`, `MCExecutionLoop`

A *trial* is one tool call with its hypothesis and experiment. `job` is the
handler that runs and the write it has reached; only one handler runs at a time,
since all but `startExperiment`'s guard is synchronous, but each write is an action
of its own, so that `Crash` can fall between any two. `evidence[n]` is the file
of the n-th success noted, `observed` says its observation is recorded, `status`
and `cites` are the requirements. `Following` is the order of `noteSuccess`.

The rewriting of an evidence file is not atomic: a crash may leave it
`"unreadable"`. Left out: torn lines of the JSONL files (`StateStore` has that
hazard), observations of failures, outcomes that name a hypothesis without its
experiment, `handleContradiction` (never called), and the user's commands on
requirements (`TaskLifecycle` has them).

### `Sessions`, `MCSessions`, `TaskRuns`, `MessageGuard`

`Sessions` keeps the plugin's maps under their names (`sessionRoots`,
`sessionParents`, `sessionWamRoots`, `sessionTasks`), the active-task file of each
root, and of a record its phase. `heard` and `told` are history: the record the
last message read, and the tasks a user named. A message that awaits its
analysis is two actions. `Foreign` are the records of another project than the one
a message comes from. Of such a message `message-handler.js:308-320` means to
archive the task in a backlog and to go on under a new task id, but line 311 calls
`waitAMinute.addToBacklog`, which the plugin object does not have (only
`engine.js:1401` exports a function of that name, and `test/message-handler.test.mjs:64` a stub): the
call throws, the handler's own `catch` (line 585) ends the message, and neither
the record, nor the active task, nor the binding has changed (`GoesOn`). `TaskRuns` has one action per write: `StartRun` and
`EnterRun`, `CloseRun` and `LeaveRun`, and a migration execution by execution;
`job` is what is still to write, and crashes take it away or tear the file.
`MessageGuard` separates the delivery of a message from its handling, so that
another delivery comes between.

### `ToolGate`, `Verification`, `Continuation`, `Preflight`

`ToolGate` is one decision for every record, mode and call: conditions in the
order of `tool.execute.before`, each of which refuses, notes, or falls
through. `READONLY_GIT_RE` is a pattern for how a command begins (`index.js:196`), so
it is here the set of the commands that begin so: one that only reads, one that
writes, and one that reads and goes on to destroy. `Verification` takes a check in three steps (script written, script
loaded, result), because a child process loads the file some time after it is
written. `Continuation` compares a numbered world with the numbers in the snapshot;
`getGitRevision` says what a ref file, a packed ref and a worktree give.
`Preflight` takes a prompt as the words some pattern looks for.

### `ContextItems`, `ContextGraph`, `ContextAssembly`, `Capsules`, `Freshness`

Scores only order candidates, so wherever the code sorts by relevance or age
the model chooses. `ContextItems` has every operation of the manager, with the
calls that throw half way (`Evicts`). `ContextGraph` is the graph with its two
indices and the file it is kept in. Its depth-first search visits a node once and
stops at a depth, so what it finds depends on the order of the edges; `Search` is
the set of what it may find in some order. `ContextAssembly` extends it with the
router's phases as one operator per phase and with the stages of the assembly line
by line; `UpstreamDepth` is the depth at which the router's search ends, 5 in
`context-router.js:254`. `Capsules` walks `selectContext` capsule by capsule.

`Freshness` writes a refresh file by file. A crash falls between two writes
(`CrashInRefresh`) or into one, for evidence and record are overwritten in place: a
torn piece of evidence is skipped, a torn record reads as none (`engine.js:182`)
until the next message builds another, without a recorded environment
(`RebuildRecord`). `markRequirement` holds the record over the await of its checks
and writes back what it held (`ReadRecord`, `WriteBack`, `index.js:1712`). `shaken` is
history: the evidence there was when a recorded environment was lost or changed back.

### `LifecycleManager`, `CircuitBreaker`, `RollbackManager`, `Release`

Each await is a step: a hook of the manager, a call through the breaker, a
rollback's step, undo or save, a canary's health check. The clocks of limiter and
canary are ticks. `Release` evaluates the sub-gates over what each field is
given, and keeps the approvals of every change.

### `Memory`, `SkillRouting`, `SkillPlan`, `Diagnosis`, `Contradictions`, `LoopDetector`, `Retrieval`, `Drift`, `Provenance`, `Lineage`, `TaskInference`, `DecisionTrail`

What advises the work. Texts are sets of the words, rules or classes that some
pattern looks for; documents are their entries; a cut-off write leaves some first
part. Each has the operations its source exports, one action each, and one
type invariant that also says what its answers mean: that a reported loop was
repeated, that weights add up, that an ancestor's certainty bounds what
descends from it, that a packet holds nothing beside the goal.

### `MCComponents`, `MCServices`

They compose components that share no state. `focus` picks one at the start and
the others stay as they began, so the state spaces add up instead of multiplying;
every component is explored as if it were alone.

## 4. The runs

Deadlock is checked in the runs of the core. In `components`, `services`,
`sessions_adoption` and `freshness_lost` it is not: a rollback, a canary or a selection ends, and
bounded components run out of what they may still do.

| Run | Shows | Bounds |
|---|---|---|
| `lifecycle` | `TypeOK`, `EvidenceBacked`, `AskingIsAnswerable`, `ClarificationStands`, `AskingNeverResumesExecution` | 2 requirements, 1 question, 2 assumptions, one of them decided before, 1 message and 1 call in flight, 7 prompts |
| `lifecycle_races` | `ExecutionIsApproved`, `ExecutionStartsCleared`, `CompletionIsGated`, with stale write-backs | 1 requirement, 1 assumption, 2 messages and 1 verification in flight, imported records with checks |
| `store` | `TypeOK`, `AckedIsKept`, `ImplementsDurableMap`, `RecoveryIsComplete` | 2 keys, 2 documents, 2 writers, 1 reader, 2 journal lines |
| `execution` | `TypeOK`, `CitedIsTraceable`, `RestsOnSound`, `FailureEnds`, `TestedHasExperiment`, `RequirementMoves` | 2 requirements, 2 trials, 2 successes noted, any number of failures and crashes |
| `components` | `TypeOK`; of runs `RecordFitsRuns`, `EntriesStay`; of the guard `HandledOnceInAWhile`; of sessions `GateHeedsMessage`, `PrivateIsPrivate`; `AskingHolds`, `ClosedIsHealthy`, `PassedOnItsPage`, `FastPathIsFresh`; of the context `EvictionIsFair`, `CompleteIsClosed`, `BudgetIsKept`, `SelectionIsClosed` | 3 runs and 1 execution; 3 calls; 4 messages and a table of 2; 2 sessions, 2 roots, 3 messages; 3 items in 2 layers of capacity 1; a graph of 4 nodes searched 2 deep; 3 capsules that need each other in a circle; 3 verifications |
| `services` | `TypeOK`; `CriticalIsAsked`, `UserDecisionStands`, `PlanIsOrdered`, `TurnsBackWhole`, `SurvivesOneEnvironment`; under fairness `Settles` and `CanaryEnds` | 2 components, 3 calls, 1 faulty hook; 3 steps; a watch of 2 ticks; 3 skills; 1 piece of evidence about 1 file in 2 environments, 2 changes; two or three of everything else |
| `lifecycle_strategy`, `lifecycle_uncleared`, `store_torn`, `execution_rejected`, `freshness_lost`, `sessions_adoption` | the findings | small instances of the above |

Why the bounds are enough. *Core*: two assumptions and a question of the contract
give every case of a link (a question taken over, a question made, a choice
between them); two requirements give one finished and one not. A stale write-back
needs one reader and one other actor. Two writers with two documents for one key
and another key give every order of the four steps of a write; `maxJournalEntries`
is 0 so that one line already triggers a collection while the other write is in
flight. Two trials and two notes give a requirement that two hypotheses support, a
hypothesis with evidence for two requirements, and one outcome noted twice with
different verdicts. `MaxLines`, `MaxNotes` and `Curated` bound only the start of
new work, never a handler under way; `Curated = {1}` lets others verify or
withdraw one of the two pieces of evidence, which differ only in their number.
*Components*: a hazard of two actors needs two of them and one step more; a table,
layer or window is one or two long so that it is full at once. Three capsules or
skills make a circle that is not a pair. Two sessions, one of them a worker and
one below the other's directory, give each way of taking over a task. Three
verifications put two pages and a command side by side. Three calls of start and
stop let one overtake another while a third waits. A search 2 deep in a graph of 4
nodes meets a chain one longer than it goes, as the code's 5 would in one of 7; the
property distinguishes the graphs with such a chain from those without. One piece
of evidence meets every write of a refresh, and a second environment and a change
back are what it can outlive; that pieces do not disturb each other is proved.

### Fairness

The record, the store and the loop have none: messages, commands and tool calls
come from a user and an agent that may stop at any time, and no timer drives them,
so the runs of the core check safety only. `Settles` assumes weak fairness of
each call of the manager, which says only that an awaited hook returns or throws
and Node runs the continuation; no call of start or stop is assumed ever to
come. `CanaryEnds` assumes the same of the canary's loop (a health check that
answers and a `setTimeout` that fires) and the rollback of its own steps. A hook
that never returns is outside: the code has no timeout for it.

### Findings

1. A message that approves the contract and claims completion writes back its own
   copy without the approved strategy (`ApprovedHasStrategy`).
2. A message that escalates an assumption of a task in execution persists the
   blocking question before the phase ASKING. A crash between leaves the task in
   execution with the question open, and so does the filter on `decisions.md`,
   without a crash (`ExecutionIsCleared`). What does hold is that no task *enters*
   execution with anything open (`ExecutionStartsCleared`), and that a question open
   in execution is that of an escalated assumption (`ExecutionIsApproved`).
3. An append after a torn line is acknowledged and unreadable
   (`AppendedIsReadable`).
4. A failure that rejects its hypothesis leaves the evidence of an earlier success
   as it was, and its requirement verified (`RejectedIsStale`).
5. A record torn by a crash, or written back stale, forgets the environment the
   evidence was judged in, and the next refresh keeps the evidence in another
   (`DriftInvalidates`).
6. A session without a task adopts the one another session made active within the
   last minute (`OwnTaskOnly`).

What was met while reading and is modelled as it is, without a run: `tool.execute.before` returns at `index.js:901` unless the task is ASKING, so no call
is bound to an experiment while the contract is carried out, and `ExecutionLoop`
takes its outcomes from any source that names a trial; `READONLY_GIT_RE`
(`index.js:196`) asks only how a command begins, so what follows `git status &&` runs
while a question is open unless strict mode finds it destructive; the router's
search ends at depth 5 (`context-router.js:254`) and calls an answer complete whose
dependencies go further; a message about another project ends in an exception
(`message-handler.js:311`) and is not handled at all; a collection empties the
journal and nothing reads the snapshot it made (`state-store.js:262`), so what is
lost after it stays lost; `markRequirement`
has no guard on the phase, so a DONE task can have a pending requirement;
`findAffectedNodes` follows `supports` edges into a piece of evidence while
`runtime-context-graph.js:105` makes them from it, so a withdrawal marks nothing
stale; each tracer of decisions overwrites the trace file, so a decision of the gate
is lost at the next routing; a second archive of a task on one day fails and is
only logged; a page check shares its script with any other under way; `topicScope`
(`engine.js:1339`) asks whether a type is `"Set"`, which none is.

## 5. The proofs

For every value of the constants that satisfies their assumptions:

**`TaskLifecycleProofs`.** The invariant is that `task` and every record a
verification holds are `WellFormed`: of the right type, `Backed`, `Askable` and
`Executable`. The invariants the runs check speak of `task` only and are not
inductive: `FinishVerification` writes the older record back, so that one must be
well formed too; and `Askable` must also say that each escalated assumption has
a blocking question and that mirror questions cover their own assumption, or
`Resolved` could leave ASKING with nothing to answer. One lemma per operator on
records says it preserves `WellFormed`; the steps then follow by `InvStep`. On
top of that comes `Clarity`: every record, on disk or held, is `Clarified`: what
it asks about is there, and where a mirror question is answered its assumption is
resolved. The lemmas on the operators say again that each keeps this and takes
nothing back that was answered or resolved (`Follows`), except where a
verification writes back what it held; that is the exception in
`ClarificationStands` and `AskingNeverResumesExecution`. `CompletionGated` looks at
one step and needs the invariant for the record that step finds, which is not the
one the message was analysed on. Each record a message persists on its way
(`CrashAmidMessage`) keeps all of this. `StartsCleared` goes through the steps that
lead into execution: the approval, which refuses while anything is open, and the
completion, which passes the gate. Theorems: `Invariance`, `TypeCorrect`,
`AlwaysEvidenceBacked`, `AlwaysAnswerable`, `AlwaysApproved`, `StartsCleared`,
`AlwaysRecorded`, `AnswersStand`, `AskingComesFirst`, `CompletionGated`. The assumption that matters is
`ImportedAssumption`: records written by hand are well formed and clarified to
begin with.

**`StateStoreProofs`.** `AckedIsKept` is not inductive: a file is removed by a
reader or a collection that found it bad some steps before. `Removal` adds that
only a key somebody damaged has a bad file or is about to lose one as bad;
`Written`, that a write past its rename has its document in place (unless
touched); `Replaying`, that a recovery writes documents only. Lemmas on the
journal say that replay, append and tearing keep their types; the last entry of a
key exists because a nonempty set of line numbers has a largest (`LastIndex`).
`RecoveryCompletes` needs `Recovering`: while a recovery runs nothing else does, it
replays the journal as it is, and a key that has an entry and no file is still to
be looked at. `ImplementsMap` shows each step to be one of `DurableMap` or none:
what a key remembers is what the journal replays for it, or what a write past
its rename has still to append (`Promised`). An append makes its entry the last
one or, behind a torn line, is swallowed (`ReplayedAppended`), and then the map
drops that promise. `IdleAssumption` tells a writer that does nothing from one
that does. Theorems: `Invariance`, `StoreTypeCorrect`,
`AlwaysKept`, `RecoveryCompletes`, `ImplementsMap`.

**`ExecutionLoopProofs`.** `RestsOnSound` and `FailureEnds` speak of states in
which no handler runs, so a proof has to say how far a handler under way has come.
`OnItsTrial` and `Recording` say what it has written up to its next step: the
state of its experiment, its evidence file, the observation, the link, and for a
supported outcome the hypothesis. `TakingBack` says that what a contradiction has
still to stale belongs to its hypothesis and to a requirement it will reopen, and
that it reopens only requirements with such evidence. `Resting` and `Ending` are
the two properties with the handler under way taken into account. One lemma per
action; `CrashInv` is the one where the handler disappears between two writes,
and the trial it leaves is `interrupted`. Theorems: `Invariance`,
`LoopTypeCorrect`, `AlwaysTraceable`, `AlwaysRestsOnSound`, `AlwaysFailureEnds`,
`AlwaysTested`, `AlwaysValidTraceable`, and for the action property
`RequirementMovesOnEvidence`: all that the run `execution` checks, for any number
of requirements, calls, outcomes and crashes.

**`SessionsProofs`.** `GateHeedsMessage` needs `Heeds`: the binding of a session,
the root of its last message and the record that message read are the same thing,
whatever other sessions did to the active-task file. `PrivateIsPrivate` needs
`NamedWhenActive`: a private task in an active-task file was named by a user. One
lemma for each of resolving, telling, a message and a command.

**`ComponentProofs`.** The components of `MCComponents` with an invariant each. The
guard: `Recent`, the table is the end of what was handled, and `Distinct`, no
message is in it twice; so a message let through again is none of the last
`TableLimit`, which are that many different ones (`ManyOthers`). The breaker: type
and `ClosedIsHealthy` together are inductive. The limiter promises no limit per
window, and the code keeps none: around a change of window twice the limit passes.
That it is never more (`AtMostTwice`) follows from `LimiterInv`: a stretch of a
window's length meets at most two windows, and sums over it are split where they
meet (`Share`, `ShareSum`). The gate: one step decides everything, so the lemma goes
through the conditions. The continuation: `ShotIsPacked`, a snapshot is of a world
that a pack was made of. Verification: `SharedTogether` (two pages under way at once
know it) and `AloneOnItsPage` (a page alone has its script in the file until it
is loaded, and loads it). The runs: `EntriesStay` rests on `WithinCount`, numbers in use do not exceed
the count of the files, torn ones included, so that the next number is free
(`NextIsFree`, from the cardinality of an interval); `Honest` says that what a
function under way has still to write agrees with the files, and is what
`RecordFitsRuns` needs at a crash. Together
(`ComponentsTypeCorrect`): `focus` never changes, a step moves the component in
focus by one of its own actions, and that keeps its invariant (`ComponentsInv`); to
the invariants above come the revision a verification remembers (`RevisionsSeen`) and
the answer of the continuation (`AnswerTyped`).

**`ContextProofs`.** Sums of costs and levels of a search are functions on the
naturals; what is proved of them is proved by induction on a set of naturals,
which `WFMin` gives. The budget: `BudgetInv` with
`Room`, either there is room for what may still come or nothing may come and only
mandatory lines were emitted; a router that calls itself sufficient has room
(`SufficientHasRoom`). The selection: `SelectionInv`, what a taken capsule needs is
taken, unusable, too large, or still in the queue, which is empty at the end; and
what is used is the sum of what was taken. Eviction: a step leaves a layer too full
only behind an item it could not move. The graph: `GoodGraph`, every edge joins two
nodes and is found from both. `Search` says of each node how far from the
start it was expanded, and only of nodes beyond reach that it was not: a node found
and not expanded was found at the depth where the search ends, and the nodes
expanded on the way to it, one nearer each (`ChainBefore`), are a chain of different
nodes one longer than the depth (`SearchLeaves`). Without such a chain what was
found needs nothing more, and is all the task depends on; with one, what the
task depends on over two links is found in any order (`SearchNear`). This is for
any number of nodes and any depth of two or more; the exception is the code's.
`NeedsNoMore` gives the nodes a task depends on as the least
closed set and not by `TransitiveClosure`, whose functions of two arguments the
provers do not support. Assumed: nodes, items and capsules are finite, and
`NoNode` is no entry of a node.

**`WatchProofs`.** Five components. The rollback: `Tried`, the steps are kept in the order they ran and restore
has tried exactly those it has been through, whichever undo threw. The plan: as
many rounds as there are skills close the ancestors (`AncestorsClosed`: a round
that adds nothing ends it, and no round can add more than there are); without a
circle the unfinished skill with the fewest ancestors is ready (`SomeReady`), so
the order never sticks (`OneMore`); and an order that fits shows there is no
circle (`FitsNoCircle`), so none that exists is missed. The contract: `Sound`
says that an assumption keeps its number, that only one is about adding
something, which is the one an escalation can make critical, and that each
critical one has its question (`About`); an answer resolves what it covers, so it
takes no question from an open assumption (`SettledKeeps`). The memory:
`Documented` and `Once`, with a lemma on what a write cut short leaves
(`CutLeaves`). The skills: `Ranks`, each place of the order goes to one better
than all that come later (`OrderedRanks`), so the slots hold the best. Filters and
sorting are recursive functions here (`Passing`, `Others`, `Ordered`) because no
backend expands `SelectSeq` or `SortSeq`.

**`ServicesProofs`.** The rest of `MCServices`, and the whole of it. Two arguments
carry most of it. An order without ties counts what comes before: the members of a
finite set then stand at 0, 1, 2... (`Orders`, `RanksAre`). The modules take the
first few of something ranked as those with fewer than so many before them, and need
no sorting function; that as many places are filled as there are members is then
a fact about cardinalities. A sum is a recursive function (`Sums`), and what it adds up
to is shown by induction on a set of numbers (`SumExists`): flooring each share
loses less than one unit for each weight (`Flooring`), so giving one back to as many
as were lost makes the scale whole (`NormalizedAre`), and the flags of a task bring
in so much other weight that one criterion keeps less than the share that completes
(`OneIsNotEnough`).

What had to be added to the type invariants to make them inductive says what each
component relies on. `LineageInv`: evidence that reads as valid was attested when it
was written, whatever is superseded or torn later. `ReleaseInv`: the approvals of
*every* change are of the list, each once (`Tally`), or a switch of changes would
show a quorum that was never there. `ProvenanceInv`: `Derived` bounds an
observation by its parent, and by all ancestors through the descent; `TornLast`, only
the last line is torn. `LoopInv`: `Indexed`, the times of a key are as many as its
records since the reset or fewer, and none is later than now. `RetrievalInv`: the
statistics are `Measured` on the list of events, one event after the other; an item
that caused a fault stays left out. `DriftInv`: actions and observations have a time
of their own each (`Timed`), so no two entries of a packet are the same.
`PlanInv`: a plan is that of the contracts as they are (`PlanIsCurrent`).
`DecisionInv`: ids are the places in the list. `InferenceInv`: what was inferred has
no flags, so that nothing is inferred from it again, and what passed is a criterion
of a planned task. `FreshInv`: `CarriedIsKnown` (valid evidence was carried through
the recorded environment or none, unless it is `shaken`) survives `SaveRefresh`
because of `DriftIsPending`: a refresh in another environment still has all evidence
in force to invalidate, and the state is saved when it has none. A step that loses
or changes the recorded environment shakes all evidence there is, and only a
verification settles it again. `Missing \notin Environment` is needed here: a recorded
revision is never taken for none.

Assumed of the constants: numbers are naturals, the words of a goal are finite,
costs, minimums and allowances are naturals, what stands for a missing number is
none, and the lists of a release are sequences of its signers. `ServicesTypeCorrect` puts the parts together
as `ComponentsTypeCorrect` does.

Only model-checked: the liveness properties `Settles` and `CanaryEnds`, which with
`ENABLED` are beyond the prover; all other properties of the passing runs are
theorems. Induction with an operator as parameter is beyond it too: what is proved
of a recursive function is proved on a set of naturals. No module that a proof
reaches declares a recursive operator. `ValidIsTraceable`, `AnswersAreRecorded` and `SelectionIsRanked`
are only proved; the run `components` checks `AtMostTwice` within `TypeOK`.

## 6. Running

    tlc -config lifecycle.cfg MCTaskLifecycle.tla
    tlc -config store.cfg MCStateStore.tla
    tlc -config execution.cfg MCExecutionLoop.tla
    tlc -config components.cfg MCComponents.tla
    tlc -config services.cfg MCServices.tla
    tlapm TaskLifecycleProofs.tla     # and the other *Proofs modules

Each takes about two minutes or less with two workers.

## 7. Not modelled

- Transition tables off the live path (`execution-state.js`,
  `task-lifecycle.js`, `policy-state-machine.js` and their like), the second task
  store and the event log with its projections: only tests reach them, and a model
  would restate the tables.
- Migration and retention. `purgeTasks` (`retention-manager.js:15`) awaits a stat and
  then removes the directory, even of a task written in between; this is listed as a
  hazard no property covers.
- A power loss: `atomicWrite` (`state-store.js:36`) does not fsync, and what the
  file system then keeps is not in the source.
- Torn lines of the JSONL files of hypotheses and experiments; the journal's are
  modelled, and the observations' in `Provenance`.
- Patterns over text, scores, wording, layout, logging, telemetry and scripts.
