--------------------------- MODULE RollbackManager ---------------------------
(***************************************************************************)
(* One rollback: the snapshot is saved, the steps run one after the other, *)
(* and the snapshot is committed.  A malformed step, a step that throws or *)
(* a commit that throws turns back: the results that carry an undo are     *)
(* undone, in the order they were obtained, and the snapshot is saved      *)
(* again.  Undo and that last save may fail and are only logged.           *)
(*                                                                         *)
(* Beside it the canary that decides whether a release goes ahead: it asks *)
(* for the health of the cohort until a deadline, and gives up at the      *)
(* first bad answer.                                                       *)
(***************************************************************************)
EXTENDS Naturals, Sequences

CONSTANTS
  Steps,      \* how many steps the caller supplies
  Deadline    \* the canary's observation window, in ticks

ASSUME RollbackManagerAssumption == Steps \in Nat /\ Deadline \in Nat \ {0}

StepKind == {"undoable", "final", "throws", "malformed"}

VARIABLES
  at,        \* where the rollback is
  kind,      \* what each step is, unknown before it is run
  executed,  \* the steps whose results are kept, in order
  undo,      \* how many of them restore has been through
  undone,    \* steps whose undo returned
  refused,   \* steps whose undo threw
  saved,     \* "no", "saved", "committed", or "changed" since
  outcome    \* what rollback returned

rollbackVars == <<at, kind, executed, undo, undone, refused, saved, outcome>>

Undoable == {i \in 1 .. Steps : kind[i] = "undoable"}
Kept == {executed[i] : i \in 1 .. Len(executed)}

\* The caller's arguments may be invalid, and the store may refuse to save.
SaveSnapshot ==
  /\ at = "begin"
  /\ \/ at' = "run" /\ saved' = "saved" /\ UNCHANGED outcome
     \/ at' = "end" /\ outcome' = "refused" /\ UNCHANGED saved
  /\ UNCHANGED <<kind, executed, undo, undone, refused>>

NextStep == Len(executed) + 1

\* A step that throws may have changed things and left nothing to undo.
RunStep ==
  /\ at = "run" /\ NextStep <= Steps
  /\ \E k \in StepKind :
       /\ kind' = [kind EXCEPT ![NextStep] = k]
       /\ IF k \in {"undoable", "final"}
          THEN executed' = Append(executed, NextStep) /\ UNCHANGED at
          ELSE at' = "restore" /\ UNCHANGED executed
       /\ saved' = IF k = "malformed" THEN saved ELSE "changed"
  /\ UNCHANGED <<undo, undone, refused, outcome>>

Commit ==
  /\ at = "run" /\ NextStep > Steps
  /\ \/ at' = "end" /\ saved' = "committed" /\ outcome' = "succeeded"
     \/ at' = "restore" /\ UNCHANGED <<saved, outcome>>
  /\ UNCHANGED <<kind, executed, undo, undone, refused>>

\* Mutant: an undo that throws ends the restoration.
UndoNext_Stops ==
  /\ at = "restore" /\ undo < Len(executed)
  /\ IF kind[executed[undo + 1]] # "undoable"
     THEN undo' = undo + 1 /\ UNCHANGED <<undone, refused>>
     ELSE \/ undo' = undo + 1 /\ undone' = undone \cup {executed[undo + 1]} /\ UNCHANGED refused
          \/ undo' = Len(executed) /\ refused' = refused \cup {executed[undo + 1]} /\ UNCHANGED undone
  /\ UNCHANGED <<at, kind, executed, saved, outcome>>

UndoNext ==
  /\ at = "restore" /\ undo < Len(executed)
  /\ undo' = undo + 1
  /\ IF kind[executed[undo + 1]] # "undoable"
     THEN UNCHANGED <<undone, refused>>
     ELSE \/ undone' = undone \cup {executed[undo + 1]} /\ UNCHANGED refused
          \/ refused' = refused \cup {executed[undo + 1]} /\ UNCHANGED undone
  /\ UNCHANGED <<at, kind, executed, saved, outcome>>

\* The last save may fail; the caller is told rolledBack all the same.
Restore ==
  /\ at = "restore" /\ undo = Len(executed)
  /\ saved' \in {"saved", saved}
  /\ at' = "end" /\ outcome' = "restored"
  /\ UNCHANGED <<kind, executed, undo, undone, refused>>

RollbackInit ==
  /\ at = "begin" /\ kind = [i \in 1 .. Steps |-> "final"]
  /\ executed = << >> /\ undo = 0 /\ undone = {} /\ refused = {}
  /\ saved = "no" /\ outcome = "none"

RollbackNext == SaveSnapshot \/ RunStep \/ Commit \/ UndoNext \/ Restore

-----------------------------------------------------------------------------
VARIABLES
  ticks,    \* real time since the canary began
  canary,   \* "checking", "sleeping", "advanced" or "aborted"
  bad       \* history: an answer breached the thresholds, or none came

canaryVars == <<ticks, canary, bad>>

Pass == ticks' = IF ticks < Deadline THEN ticks + 1 ELSE ticks

\* Mutant: a canary at its deadline advances before it is looked at.
HealthCheck_Late ==
  /\ canary = "checking"
  /\ \E healthy \in BOOLEAN :
       /\ bad' = (bad \/ ~ healthy)
       /\ canary' = IF ticks >= Deadline THEN "advanced"
                    ELSE IF healthy THEN "sleeping" ELSE "aborted"
  /\ UNCHANGED ticks

\* One answer: not ok, a rate beyond its threshold or an exception aborts;
\* otherwise the deadline decides.
HealthCheck ==
  /\ canary = "checking"
  /\ \E healthy \in BOOLEAN :
       /\ bad' = (bad \/ ~ healthy)
       /\ canary' = IF ~ healthy THEN "aborted"
                    ELSE IF ticks >= Deadline THEN "advanced" ELSE "sleeping"
  /\ UNCHANGED ticks

Wake == canary = "sleeping" /\ canary' = "checking" /\ Pass /\ UNCHANGED bad

CanaryInit == ticks = 0 /\ canary = "checking" /\ bad = FALSE

CanaryNext == HealthCheck \/ Wake

-----------------------------------------------------------------------------
\* Promises of steps, undos and health checks settle, timers fire, and the
\* event loop runs what follows.
RollbackSpec ==
  /\ RollbackInit /\ [][RollbackNext]_rollbackVars
  /\ WF_rollbackVars(RollbackNext)

CanarySpec == CanaryInit /\ [][CanaryNext]_canaryVars /\ WF_canaryVars(CanaryNext)

-----------------------------------------------------------------------------
(* Properties.                                                             *)

RollbackTypeOK ==
  /\ at \in {"begin", "run", "restore", "end"}
  /\ kind \in [1 .. Steps -> StepKind]
  /\ executed \in Seq(1 .. Steps) /\ Len(executed) <= Steps
  /\ undo \in 0 .. Len(executed)
  /\ undone \subseteq Kept /\ refused \subseteq Kept \ undone
  /\ saved \in {"no", "saved", "changed", "committed"}
  /\ outcome \in {"none", "refused", "succeeded", "restored"}
  /\ ticks \in 0 .. Deadline
  /\ canary \in {"checking", "sleeping", "advanced", "aborted"}
  /\ bad \in BOOLEAN

\* A rollback that turned back has tried to undo every kept result that can
\* be undone, also after an undo that threw; one that reports success has
\* undone nothing, run every step and committed.
TurnsBackWhole ==
  /\ outcome = "restored" => undone \cup refused = Undoable \cap Kept
  /\ outcome = "succeeded" =>
       /\ undone = {} /\ refused = {} /\ Kept = 1 .. Steps
       /\ saved = "committed"

\* The canary comes to a decision within its window, and advances only a
\* release that no answer spoke against, the one at the deadline included.
CanaryDecides ==
  /\ <>(canary \in {"advanced", "aborted"})
  /\ [](canary = "advanced" => ~ bad)
=============================================================================
