------------------------------- MODULE ToolGate -------------------------------
(***************************************************************************)
(* What tool.execute.before decides about a call: the approved strategy,   *)
(* the risk of the action, the contract and the open question, in that     *)
(* order, each in its soft or its strict mode.                             *)
(* Code: src/index.js, src/src/policy/governance-enforcement.js,           *)
(* risk-engine.js, action-capabilities.js and strategy-capabilities.js.    *)
(*                                                                         *)
(* A command is one of a few kinds, a path or file one of a few places.    *)
(* Sessions models which record the gate reads; here it is given.          *)
(***************************************************************************)
EXTENDS Naturals, FiniteSets

VARIABLES gateRecord,  \* the task's record; NoRecord
          gateSession, \* whether a worker, and the switches of the process
          gateCall,    \* the last call
          gateVerdict  \* what became of it

gateVars == <<gateRecord, gateSession, gateCall, gateVerdict>>

NoRecord == [phase |-> "none"]
NoCall == [tool |-> "none"]

\* Tools of one capability are alike, but for the gates that name them.
SAFE == {"read", "grep"}
GUARDED == {"write", "apply_patch", "bash", "task"}
BLOCKED == {"rm"}
BLOCKED_TOOLS == {"write", "bash", "task", "pty_kill"}
CONTRACT_GATED_TOOLS == {"write", "apply_patch"}
AnyTool == SAFE \cup GUARDED \cup BLOCKED \cup {"pty_kill"}

ShellCommand ==
  {"git status", "git branch -D", "git status then rm -rf", "git push",
   "git reset --hard", "openspec validate", "none"}

\* What evaluateBashCommand finds anywhere in a command.
Destructive == {"git reset --hard", "git status then rm -rf"}

\* The commands that READONLY_GIT_RE matches: it looks at how a command begins,
\* at no option and at nothing that follows.
READONLY_GIT_RE == {"git status", "git branch -D", "git status then rm -rf"}

Place == {"source", "package.json", "scratch", "/etc", "none"}

\* A call names its path by "path" or, as opencode does, by "filePath", and has
\* its arguments on the hook's input or on its output.
ToolRequest ==
  {c \in [tool: AnyTool, command: ShellCommand, place: Place,
          key: {"path", "filePath"}, on: {"input", "output"}] :
     /\ c.tool = "bash" <=> c.command # "none"
     /\ c.command # "none" => c.place = "none"
     /\ c.place = "none" => c.key = "path"}

\* open: a requirement is pending or an unknown is listed.
TaskRecord ==
  [phase: {"ASKING", "IMPLEMENTING", "DONE"}, approved: BOOLEAN, strategy: BOOLEAN,
   open: BOOLEAN, declared: {"nothing", "source", "package.json", "many"}]

Switches == [worker: BOOLEAN, strict: BOOLEAN, enforced: BOOLEAN]

-----------------------------------------------------------------------------
(* The approved strategy.                                                   *)

\* Single words of allowedActions are compared with the tool, longer ones with
\* the beginning of the command; no action is prohibited.
Covered(c) ==
  \/ c.tool \in {"read", "write", "bash", "task"}
  \/ c.command = "openspec validate"

StrategyRefuses(c) ==
  gateRecord # NoRecord /\ gateRecord.strategy /\ ~Covered(c)

-----------------------------------------------------------------------------
(* The risk of the action, judged by the arguments on the input.            *)

\* filePath is not one of the names looked for.
RiskPath(c) == IF c.on = "input" /\ c.key = "path" THEN c.place ELSE "none"
RiskCommand(c) == IF c.on = "input" THEN c.command ELSE "none"

\* A tool that no list names is treated as blocked.
evaluateAction(c) ==
  \/ c.tool \notin SAFE \cup GUARDED
  \/ RiskPath(c) \in {"/etc", "scratch"}
  \/ c.tool = "bash" /\ RiskCommand(c) \in Destructive

-----------------------------------------------------------------------------
(* The contract.                                                            *)

\* The contract's files, or that of the call.
DeclaredFiles(c) ==
  IF gateRecord.declared # "nothing" THEN gateRecord.declared
  ELSE IF c.on = "input" /\ c.place # "none" THEN c.place ELSE "nothing"

\* One or two files, none of them protected; a scratch file never is.
isTrivialChange(files) == files \notin {"nothing", "many", "package.json"}

\* Mutant: an open question is left to the contract as well.
enforceGovernance_Asking(c) ==
  /\ c.tool \in CONTRACT_GATED_TOOLS
  /\ gateSession.enforced /\ ~gateSession.worker /\ gateRecord # NoRecord
  /\ ~gateRecord.approved /\ gateRecord.phase # "DONE"
  /\ ~isTrivialChange(DeclaredFiles(c))
  /\ gateRecord.open

\* TRUE if the contract forbids the call.
enforceGovernance(c) ==
  /\ c.tool \in CONTRACT_GATED_TOOLS
  /\ gateSession.enforced /\ ~gateSession.worker /\ gateRecord # NoRecord
  /\ ~gateRecord.approved /\ gateRecord.phase \notin {"DONE", "ASKING"}
  /\ ~isTrivialChange(DeclaredFiles(c))
  /\ gateRecord.open

-----------------------------------------------------------------------------
(* The hook.                                                                *)

readonlyGit(c) == c.tool = "bash" /\ RiskCommand(c) \in READONLY_GIT_RE

Noted(c) == StrategyRefuses(c) \/ evaluateAction(c)

\* In strict mode the first objection throws.
PolicyBlock(c) ==
  /\ gateSession.strict /\ (Noted(c) \/ enforceGovernance(c))
  /\ gateVerdict' = [runs |-> FALSE, noted |-> TRUE, bound |-> FALSE]

\* In soft mode a governance objection is a note, and the hook is done.
SoftGovernanceBlock(c) ==
  /\ ~gateSession.strict /\ enforceGovernance(c)
  /\ gateVerdict' = [runs |-> TRUE, noted |-> TRUE, bound |-> FALSE]

Passed(c) == ~(gateSession.strict /\ Noted(c)) /\ ~enforceGovernance(c)

\* Outside of ASKING, and for what begins like git that only reads, the hook is
\* done as well.
NothingAsked(c) ==
  /\ Passed(c) /\ (gateRecord.phase # "ASKING" \/ readonlyGit(c))
  /\ gateVerdict' = [runs |-> TRUE, noted |-> Noted(c), bound |-> FALSE]

EnforcedBlock(c) ==
  /\ Passed(c) /\ gateRecord.phase = "ASKING" /\ ~readonlyGit(c) /\ c.tool \in BLOCKED_TOOLS
  /\ gateVerdict' = [runs |-> FALSE, noted |-> TRUE, bound |-> FALSE]

\* What is left reaches bridgeExecution.
Bridge(c) ==
  /\ Passed(c) /\ gateRecord.phase = "ASKING" /\ ~readonlyGit(c) /\ c.tool \notin BLOCKED_TOOLS
  /\ gateVerdict' = [runs |-> TRUE, noted |-> Noted(c), bound |-> TRUE]

ToolExecuteBefore(c) ==
  /\ gateCall = NoCall /\ gateCall' = c /\ UNCHANGED <<gateRecord, gateSession>>
  /\ \/ PolicyBlock(c) \/ SoftGovernanceBlock(c) \/ NothingAsked(c)
     \/ EnforcedBlock(c) \/ Bridge(c)

ToolGateInit ==
  /\ gateRecord \in TaskRecord \cup {NoRecord} /\ gateSession \in Switches
  /\ gateCall = NoCall /\ gateVerdict = [runs |-> FALSE, noted |-> FALSE, bound |-> FALSE]

ToolGateNext == \E c \in ToolRequest : ToolExecuteBefore(c)
ToolGateSpec == ToolGateInit /\ [][ToolGateNext]_gateVars

ToolGateTypeOK ==
  /\ gateRecord \in TaskRecord \cup {NoRecord} /\ gateSession \in Switches
  /\ gateCall \in ToolRequest \cup {NoCall}
  /\ gateVerdict \in [runs: BOOLEAN, noted: BOOLEAN, bound: BOOLEAN]

\* While a question is open no tool of BLOCKED_TOOLS runs but a command that
\* begins like git that only reads, whatever the softer gates before it say, in
\* either mode, for workers too (index.js: the Clarification Gate); and in strict
\* mode not even that, if the risk engine finds something destructive in it.
AskingHolds ==
  /\ gateCall # NoCall /\ gateRecord.phase = "ASKING"
  /\ gateCall.tool \in BLOCKED_TOOLS /\ gateVerdict.runs
  => /\ gateCall.command \in READONLY_GIT_RE
     /\ gateSession.strict => gateCall.command \notin Destructive
=============================================================================
