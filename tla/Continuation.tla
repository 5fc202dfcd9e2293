----------------------------- MODULE Continuation -----------------------------
(***************************************************************************)
(* The fast path of a message about an approved task: if nothing changed   *)
(* since the last pack, only the live context is sent.                     *)
(* Code: src/src/context/context-snapshot.js and handleChatMessage of      *)
(* src/src/integration/message-handler.js.                                 *)
(*                                                                         *)
(* The task, the files looked at and the revision are numbered; two tasks  *)
(* or files of one number are alike.                                       *)
(***************************************************************************)
EXTENDS Naturals, FiniteSets

CONSTANTS MaxWorld, \* the bound on changes of each
          MaxPacks, \* the bound on different packs
          NoShot    \* no snapshot file, or one that cannot be read

ASSUME ContinuationAssumption == MaxWorld \in Nat /\ MaxPacks \in Nat

VARIABLES world,  \* what is there
          shot,   \* the snapshot file
          packed, \* what packs were made from
          answer  \* what the last message was given

continuationVars == <<world, shot, packed, answer>>

World == [commit: 0 .. MaxWorld, ref: {"loose", "packed", "none"},
          files: 0 .. MaxWorld, task: 0 .. MaxWorld]
Signals == {"no-snapshot", "git-revision", "relevant-files", "task-state"}
Answer == [status: {"none", "VALID", "STALE", "INVALID", "analysed"}, seen: World]

\* The revision as the file under .git/refs says it; of a packed branch the
\* first letters of HEAD, alike for all of them; of a worktree nothing.
getGitRevision(w) ==
  CASE w.ref = "loose" -> <<"at", w.commit>> [] w.ref = "packed" -> <<"name">> [] w.ref = "none" -> <<>>

SnapshotOf(w) == [git |-> getGitRevision(w), files |-> w.files, task |-> w.task]

\* Mutant: the files are compared only at another revision.
Signalled_Revision ==
  IF shot = NoShot THEN {"no-snapshot"}
  ELSE LET moved == getGitRevision(world) # <<>> /\ shot.git # <<>> /\ getGitRevision(world) # shot.git
       IN  {s \in {"git-revision"} : moved}
             \cup {s \in {"relevant-files"} : moved /\ world.files # shot.files}
             \cup {s \in {"task-state"} : world.task # shot.task}

\* What differs from the snapshot.
Signalled ==
  IF shot = NoShot THEN {"no-snapshot"}
  ELSE {s \in {"git-revision"} :
          /\ getGitRevision(world) # <<>> /\ shot.git # <<>>
          /\ getGitRevision(world) # shot.git}
         \cup {s \in {"relevant-files"} : world.files # shot.files}
         \cup {s \in {"task-state"} : world.task # shot.task}

checkContinuation ==
  IF Signalled = {} THEN "VALID"
  ELSE IF "task-state" \in Signalled THEN "INVALID" ELSE "STALE"

\* The levels to build again: whatever changed, two of them at least.
rebuildScope(changed) ==
  (IF changed # {} THEN {"N1", "N3"} ELSE {})
    \cup (IF changed \cap {"task-state", "no-snapshot"} # {} THEN {"N2"} ELSE {})

\* An approved task's message: in every case what is sent is the live context,
\* and the snapshot stays as it is.
Continue ==
  /\ checkContinuation = "VALID" \/ rebuildScope(Signalled) \cap {"N1", "N3"} # {}
  /\ answer' = [status |-> checkContinuation, seen |-> world]
  /\ UNCHANGED <<world, shot, packed>>

\* Any other is analysed; a pack is made and the snapshot written, unless that
\* fails or is cut short.
AnalyseMessage ==
  /\ packed' = packed \cup {world} /\ Cardinality(packed') <= MaxPacks
  /\ shot' \in {SnapshotOf(world), shot, NoShot}
  /\ answer' = [status |-> "analysed", seen |-> world] /\ UNCHANGED world

\* Around the messages: a commit (which makes the branch a file again), the
\* packing of branches, an edit of a file looked at, a step of the task.
CommitWork ==
  /\ world.commit < MaxWorld
  /\ world' = [world EXCEPT !.commit = @ + 1, !.ref = IF @ = "none" THEN @ ELSE "loose"]
PackRefs == world.ref = "loose" /\ world' = [world EXCEPT !.ref = "packed"]
EditFile == \E n \in 0 .. MaxWorld : n # world.files /\ world' = [world EXCEPT !.files = n]
TaskMoves == \E n \in 0 .. MaxWorld : n # world.task /\ world' = [world EXCEPT !.task = n]

WorldMoves ==
  /\ CommitWork \/ PackRefs \/ EditFile \/ TaskMoves
  /\ UNCHANGED <<shot, packed, answer>>

ContinuationInit ==
  /\ world \in [commit: {0}, ref: {"loose", "none"}, files: {0}, task: {0}]
  /\ shot = NoShot /\ packed = {} /\ answer = [status |-> "none", seen |-> world]

ContinuationNext == Continue \/ AnalyseMessage \/ WorldMoves
ContinuationSpec == ContinuationInit /\ [][ContinuationNext]_continuationVars

ContinuationTypeOK ==
  /\ world \in World /\ packed \subseteq World /\ answer \in Answer
  /\ shot \in {SnapshotOf(w) : w \in World} \cup {NoShot}

\* The fast path is taken only where a pack was made of the same task and files
\* and, if the branch was a file both times, of the same commit.
FastPathIsFresh ==
  answer.status = "VALID" =>
    \E w \in packed :
      /\ w.task = answer.seen.task /\ w.files = answer.seen.files
      /\ w.ref = "loose" /\ answer.seen.ref = "loose" => w.commit = answer.seen.commit
=============================================================================
