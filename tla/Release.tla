--------------------------------- MODULE Release ---------------------------------
(***************************************************************************)
(* The gate a release passes, and the quorum of its signers.               *)
(* Code: src/src/integration/release-gate.js, src/src/policy/              *)
(* multi-signer.js.                                                        *)
(*                                                                         *)
(* What a gate is given changes between two evaluations of it.  A task, an *)
(* artifact, an event, the durable state and the manifest are each what is *)
(* wrong with them.                                                        *)
(***************************************************************************)
EXTENDS Naturals, Sequences, SequencesExt, FiniteSets

CONSTANTS Signer,      \* who may try to sign
          Pools,       \* the configured lists of signers, as they are written
          ChangeSet,   \* what is signed
          Payloads,    \* what the gates may be given, by field
          NoPayload,   \* the field is missing
          NoQuorum     \* no number of signers is configured

ASSUME ReleaseAssumption == Pools \subseteq Seq(Signer)

VARIABLES payload,  \* field -> what the gate is given
          released, \* what the last evaluation said
          signers,  \* the configured list
          required, \* how many must sign
          tallies   \* change -> who approved, in order

gateVarsOfRelease == <<payload, released>>
signerVars == <<signers, required, tallies>>
releaseVars == <<payload, released, signers, required, tallies>>

-----------------------------------------------------------------------------
(* The seven gates: what blocks each.  The list of tasks serves three.      *)

Fields == {"tasks", "durableState", "context", "hardeningLog", "manifest"}
AssessmentDefects == {"no assessment", "stale", "invalid", "no objective"}
TaskDefects == AssessmentDefects \cup
  {"not a task", "no completion", "not VERIFIED", "out of scope", "violation"}
SUB_GATES == {"assessmentContract", "completionIntegrity", "executionDecoupling",
              "durableState", "contextProduction", "runtimeHardening", "observability"}

mapGateToPayload(gate) ==
  CASE gate \in {"assessmentContract", "completionIntegrity", "executionDecoupling"} -> "tasks"
    [] gate = "contextProduction" -> "context"
    [] gate = "runtimeHardening" -> "hardeningLog"
    [] gate = "observability" -> "manifest"
    [] gate = "durableState" -> "durableState"

\* An entry that is no task has no files to be out of scope.
Blockers(gate, defects) ==
  CASE gate = "assessmentContract" -> defects \cap (AssessmentDefects \cup {"not a task"})
    [] gate = "completionIntegrity" ->
         defects \cap {"not a task", "no completion", "not VERIFIED"}
    [] gate = "executionDecoupling" -> defects \cap {"out of scope", "violation"}
    [] OTHER -> defects

\* No log of the hardening is a log without open events; nothing else may be
\* missing.  No artifact is a defect, no task is none.
evaluateSubGate(gate) ==
  LET given == payload[mapGateToPayload(gate)]
  IN  IF given = NoPayload THEN gate = "runtimeHardening"
      ELSE /\ gate = "contextProduction" => given # {}
           /\ \A defects \in given : Blockers(gate, defects) = {}

evaluateRelease ==
  /\ released' = \A gate \in SUB_GATES : evaluateSubGate(gate)
  /\ UNCHANGED <<payload, signerVars>>

Prepare(field, given) ==
  /\ payload[field] # given
  /\ payload' = [payload EXCEPT ![field] = given]
  /\ UNCHANGED <<released, signerVars>>

-----------------------------------------------------------------------------
(* The signers.  A list may name one of them twice: the quorum counts both, *)
(* the approvals do not.                                                    *)

normalizeConfig(pool, mode, explicit) ==
  /\ pool # <<>> /\ (explicit = NoQuorum \/ explicit \in 1..Len(pool))
  /\ signers' = pool
  /\ required' = CASE explicit # NoQuorum -> explicit
                   [] explicit = NoQuorum /\ mode = "majority" -> Len(pool) \div 2 + 1
                   [] explicit = NoQuorum /\ mode = "any" -> 1
                   [] explicit = NoQuorum /\ mode = "strict" -> Len(pool)
  /\ tallies' = [c \in ChangeSet |-> <<>>]
  /\ UNCHANGED gateVarsOfRelease

satisfied(c) == Len(tallies[c]) >= required

\* Nobody asks who proposed the change.
approve(c, s) ==
  /\ s \in Range(signers) \ Range(tallies[c])
  /\ tallies' = [tallies EXCEPT ![c] = Append(@, s)]
  /\ UNCHANGED <<signers, required, gateVarsOfRelease>>

resetTally(cleared) ==
  /\ tallies' = [c \in ChangeSet |-> IF c \in cleared THEN <<>> ELSE tallies[c]]
  /\ UNCHANGED <<signers, required, gateVarsOfRelease>>

ReleaseInit ==
  /\ payload = [f \in Fields |-> NoPayload] /\ released = FALSE
  /\ signers = <<>> /\ required = 0 /\ tallies = [c \in ChangeSet |-> <<>>]

ReleaseGateNext ==
  \/ evaluateRelease
  \/ \E f \in Fields : \E given \in Payloads[f] : Prepare(f, given)

SignerNext ==
  \/ /\ signers = <<>>
     /\ \E pool \in Pools, mode \in {"strict", "majority", "any"},
           explicit \in {NoQuorum} \cup 1..3 : normalizeConfig(pool, mode, explicit)
  \/ \E c \in ChangeSet, s \in Signer : approve(c, s)
  \/ \E cleared \in {ChangeSet} \cup {{c} : c \in ChangeSet} : resetTally(cleared)

ReleaseNext == ReleaseGateNext \/ SignerNext
ReleaseSpec == ReleaseInit /\ [][ReleaseNext]_releaseVars

-----------------------------------------------------------------------------
\* A quorum is that many people of the list, each of whom signed that change, and
\* is never more than the list is long.
ReleaseTypeOK ==
  /\ released \in BOOLEAN /\ required \in 0..Len(signers)
  /\ \A c \in ChangeSet :
       /\ Range(tallies[c]) \subseteq Range(signers)
       /\ Cardinality(Range(tallies[c])) = Len(tallies[c])
       /\ satisfied(c) /\ signers # <<>> => Cardinality(Range(tallies[c])) >= required
=============================================================================
