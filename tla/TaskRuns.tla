------------------------------ MODULE TaskRuns ------------------------------
(***************************************************************************)
(* The runs of one task: a file per run under runs/, the currentRunId of   *)
(* the task's record, and the migration of the executions[] that older     *)
(* versions kept inside the record.                                        *)
(*                                                                         *)
(* Every function is synchronous, so nothing interleaves with it; but it   *)
(* writes two or more files one after the other, in place, and a crash may *)
(* fall between two writes or tear the file being written.                 *)
(***************************************************************************)
EXTENDS Naturals, FiniteSets

CONSTANTS
  MaxRuns,      \* bound: runs ever numbered
  MaxEntries,   \* bound: observations, decisions, evidence, actions of a run
  Legacy,       \* ids of the executions in the record at the start
  NoRun,        \* a null currentRunId
  Absent,       \* there is no such file
  Torn,         \* the file does not parse
  Lost,         \* the task's record does not parse
  AtRest        \* no function is under way

ASSUME TaskRunsAssumption ==
  /\ MaxRuns \in Nat /\ MaxEntries \in Nat \ {0}
  /\ IsFiniteSet(Legacy) /\ Legacy \cap Nat = {}
  /\ NoRun \notin Nat \cup Legacy

RunId == (1 .. MaxRuns) \cup Legacy
\* Every way to end a run is "closed": nothing here tells them apart.
RunStatus == {"active", "closed"}
Run == [status: RunStatus, entries: 0 .. MaxEntries]

\* A file that is missing or torn is no run.
ASSUME FileAssumption == Absent \notin Run /\ Absent # Torn /\ Torn \notin Run

VARIABLES
  runFile,   \* RunId -> content
  record,    \* the task's record: currentRunId and executions left to migrate
  job        \* what the function under way still has to write

runsVars == <<runFile, record, job>>

Present == {r \in RunId : runFile[r] # Absent}

\* readRunFile, and the ids getRuns returns.
Readable == {r \in RunId : runFile[r] \notin {Absent, Torn}}

Write(r, content) == runFile' = [runFile EXCEPT ![r] = content]

-----------------------------------------------------------------------------
(* Starting and closing a run: the run's file, then the record.            *)

\* Mutant: the runs that parse are counted, not the files.
getNextRunIndex_Readable == Cardinality(Readable) + 1

getNextRunIndex == Cardinality(Present) + 1

StartRun ==
  /\ job = AtRest /\ record # Lost
  /\ getNextRunIndex \in 1 .. MaxRuns
  /\ Write(getNextRunIndex, [status |-> "active", entries |-> 0])
  /\ job' = [do |-> "enter", run |-> getNextRunIndex]
  /\ UNCHANGED record

EnterRun ==
  /\ job # AtRest /\ job.do = "enter"
  /\ record' = [record EXCEPT !.current = job.run]
  /\ job' = AtRest
  /\ UNCHANGED runFile

CloseRun(r) ==
  /\ job = AtRest /\ r \in Readable
  /\ \E s \in RunStatus : Write(r, [runFile[r] EXCEPT !.status = s])
  /\ job' = [do |-> "leave", run |-> r]
  /\ UNCHANGED record

LeaveRun ==
  /\ job # AtRest /\ job.do = "leave"
  /\ record' = IF record # Lost /\ record.current = job.run
               THEN [record EXCEPT !.current = NoRun] ELSE record
  /\ job' = AtRest
  /\ UNCHANGED runFile

-----------------------------------------------------------------------------
(* Additions to a run rewrite its file whole.                              *)

\* addObservation, addDecision, addEvidence and addAction.
AddEntry(r) ==
  /\ job = AtRest /\ r \in Readable
  /\ runFile[r].entries < MaxEntries
  /\ Write(r, [runFile[r] EXCEPT !.entries = @ + 1])
  /\ UNCHANGED <<record, job>>

UpdateRun(r) ==
  /\ job = AtRest /\ r \in Readable
  /\ \E s \in RunStatus : Write(r, [runFile[r] EXCEPT !.status = s])
  /\ UNCHANGED <<record, job>>

-----------------------------------------------------------------------------
(* Migration: a file per execution that has no readable run, then the      *)
(* record without executions.                                              *)

BeginMigration ==
  /\ job = AtRest /\ record # Lost /\ record.executions # {}
  /\ job' = [do |-> "migrate", todo |-> record.executions \ Readable]
  /\ UNCHANGED <<runFile, record>>

MigrateExecution ==
  /\ job # AtRest /\ job.do = "migrate"
  /\ \E e \in job.todo :
       /\ Write(e, [status |-> "closed", entries |-> 1])
       /\ job' = [job EXCEPT !.todo = @ \ {e}]
  /\ UNCHANGED record

\* Mutant: the record is rewritten before the files are.
FinishMigration_Early ==
  /\ job # AtRest /\ job.do = "migrate"
  /\ record' = [record EXCEPT !.executions = {}]
  /\ UNCHANGED <<runFile, job>>

FinishMigration ==
  /\ job # AtRest /\ job.do = "migrate" /\ job.todo = {}
  /\ record' = [record EXCEPT !.executions = {}]
  /\ job' = AtRest
  /\ UNCHANGED runFile

-----------------------------------------------------------------------------
(* Crashes.                                                                *)

\* The run file a function may be writing next.
BeingWritten ==
  IF job = AtRest
  THEN Readable \cup (IF record = Lost THEN {}
                      ELSE {getNextRunIndex} \cap (1 .. MaxRuns))
  ELSE IF job.do = "migrate" THEN job.todo ELSE {}

RunsCrash == job # AtRest /\ job' = AtRest /\ UNCHANGED <<runFile, record>>

CrashTearsRun ==
  /\ \E r \in BeingWritten : Write(r, Torn)
  /\ job' = AtRest
  /\ UNCHANGED record

CrashTearsRecord ==
  /\ job # AtRest /\ record # Lost
  /\ job.do = "migrate" => job.todo = {}
  /\ record' = Lost /\ job' = AtRest
  /\ UNCHANGED runFile

RunsInit ==
  /\ runFile = [r \in RunId |-> Absent]
  /\ record = [current |-> NoRun, executions |-> Legacy]
  /\ job = AtRest

RunsNext ==
  \/ StartRun \/ EnterRun \/ LeaveRun
  \/ \E r \in RunId : CloseRun(r) \/ AddEntry(r) \/ UpdateRun(r)
  \/ BeginMigration \/ MigrateExecution \/ FinishMigration
  \/ RunsCrash \/ CrashTearsRun \/ CrashTearsRecord

RunsSpec == RunsInit /\ [][RunsNext]_runsVars

-----------------------------------------------------------------------------
(* Properties.                                                             *)

Job == {AtRest}
  \cup [do: {"enter", "leave"}, run: RunId]
  \cup [do: {"migrate"}, todo: SUBSET Legacy]

\* Files, record and the function under way keep their types.
RunsTypeOK ==
  /\ runFile \in [RunId -> Run \cup {Absent, Torn}]
  /\ record \in [current: RunId \cup {NoRun}, executions: SUBSET Legacy] \cup {Lost}
  /\ job \in Job

\* Wherever a crash falls, the record names no run that was never written
\* (startRun writes the run first), and no execution is in neither place
\* (migrateLegacyExecutions removes the field last).
RecordFitsRuns ==
  record # Lost =>
    /\ record.current # NoRun => runFile[record.current] # Absent
    /\ \A e \in Legacy : e \in record.executions \/ runFile[e] # Absent

\* What was added to a run stays while its file can be read: no later run
\* takes its number and no second migration overwrites it.
EntriesStay ==
  [][\A r \in RunId :
       r \in Readable /\ r \in Readable' =>
         runFile'[r].entries >= runFile[r].entries]_runsVars
=============================================================================
