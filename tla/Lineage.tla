--------------------------------- MODULE Lineage ---------------------------------
(***************************************************************************)
(* What the evidence of a task says of its requirements: which of them it  *)
(* satisfies, whether the task can complete, what of the context graph is  *)
(* still verified, and when weighed evidence closes a requirement.         *)
(* Code: src/src/evidence/evidence-lineage.js, evidence.js and             *)
(* freshness-validation.js.                                                *)
(*                                                                         *)
(* Evidence is a file, written in place; the record of the task, which     *)
(* lists the requirements, is written by others.                           *)
(***************************************************************************)
EXTENDS Naturals, Sequences, SequencesExt, FiniteSets

CONSTANTS Evidence,    \* ids of evidence files
          Required,    \* ids of requirements
          Hypothesis,  \* ids of hypotheses
          Strength,    \* strengths of claims, a subset of EVIDENCE_STRENGTH
          MaxClaims,   \* the bound on claims
          NoFile,      \* there is no such file
          Shorn        \* a file that does not parse

VARIABLES lineageDir, \* the files
          stated,     \* the requirements the record lists
          flagged,    \* the requirements verified in the graph when it was built
          claims      \* evidence in memory: requirement, strength, supports

fileVars == <<lineageDir, stated, flagged>>
lineageVars == <<lineageDir, stated, flagged, claims>>

-----------------------------------------------------------------------------
(* The files.                                                               *)

Readable == {e \in Evidence : lineageDir[e] \notin {NoFile, Shorn}}

\* What is linked lacks the experiment when the call was not bound to one.
hasCompleteLineage(ev) == ev.link = "whole"

getEvidenceForRequirement(r) == {e \in Readable : lineageDir[e].requirement = r}
getValidEvidence(r) == {e \in getEvidenceForRequirement(r) : lineageDir[e].status = "valid"}

\* Written over whatever stood there.
Rewrite(e, ev) ==
  /\ lineageDir' = [lineageDir EXCEPT ![e] = ev]
  /\ UNCHANGED <<stated, claims>>

createEvidence(e, r, h) ==
  /\ lineageDir[e] = NoFile
  /\ Rewrite(e, [requirement |-> r, hypothesis |-> h,
                 link |-> "none", status |-> "unverified", passes |-> FALSE])
  /\ UNCHANGED flagged

\* Its caller links right after the observation, once.
linkEvidenceToRequirement(e, link) ==
  /\ e \in Readable /\ lineageDir[e].link = "none" /\ lineageDir[e].status = "unverified"
  /\ Rewrite(e, [lineageDir[e] EXCEPT !.link = link])
  /\ UNCHANGED flagged

\* Whatever was said of the evidence before: a PASS revives what is stale or
\* invalidated, and a FAIL leaves valid what is.
verifyEvidence(e, result) ==
  /\ e \in Readable
  /\ Rewrite(e, [lineageDir[e] EXCEPT
       !.passes = @ \/ result = "PASS",
       !.status = CASE result = "PASS" /\ hasCompleteLineage(lineageDir[e]) -> "valid"
                    [] result = "PASS" /\ ~hasCompleteLineage(lineageDir[e]) -> "insufficient"
                    [] result = "PARTIAL" -> "insufficient"
                    [] result = "FAIL" -> @])
  /\ UNCHANGED flagged

\* By the id of its hypothesis or of its requirement, whatever its status.
invalidateDependentEvidence(id) ==
  /\ lineageDir' =
       [e \in Evidence |->
          IF e \in Readable /\ id \in {lineageDir[e].hypothesis, lineageDir[e].requirement}
          THEN [lineageDir[e] EXCEPT !.status = "stale"] ELSE lineageDir[e]]
  /\ UNCHANGED <<stated, flagged, claims>>

supersedeEvidence(e) ==
  /\ e \in Readable
  /\ Rewrite(e, [lineageDir[e] EXCEPT !.status = "superseded"])
  /\ UNCHANGED flagged

\* Edges of the graph lead from the evidence to what it supports, the task when its
\* requirement is listed no more.
supports ==
  {<<e, IF lineageDir[e].requirement \in stated THEN lineageDir[e].requirement ELSE "task">> :
     e \in Readable}

\* The nodes that support the evidence, not those it supports.
findAffectedNodes(e) == {n \in flagged : <<n, e>> \in supports}

\* With the evidence goes the mark of every node that is affected.
invalidateEvidence(e) ==
  /\ e \in Readable
  /\ Rewrite(e, [lineageDir[e] EXCEPT !.status = "invalidated"])
  /\ flagged' = flagged \ findAffectedNodes(e)

\* A write that a crash cuts short.
TearEvidence(e) ==
  /\ lineageDir[e] # Shorn
  /\ lineageDir' = [lineageDir EXCEPT ![e] = Shorn]
  /\ UNCHANGED <<stated, flagged, claims>>

\* The task's record is edited.
Restate(rs) ==
  /\ rs # stated
  /\ stated' = rs /\ UNCHANGED <<lineageDir, flagged, claims>>

-----------------------------------------------------------------------------
(* What they say.                                                           *)

getUnsatisfiedRequirements == {r \in stated : getValidEvidence(r) = {}}
detectOrphanedEvidence == {e \in Readable : lineageDir[e].requirement \notin stated}

\* Evidence of a requirement that was removed, of any status, keeps the task open.
canComplete == getUnsatisfiedRequirements = {} /\ detectOrphanedEvidence = {}

hasStaleEvidence(r) ==
  \E e \in getEvidenceForRequirement(r) : lineageDir[e].status = "stale"

\* Stale evidence beside valid evidence does not count against a node, and a
\* node without any evidence stays verified.
deriveVerification(r) ==
  LET said == {lineageDir[e].status : e \in getEvidenceForRequirement(r)}
  IN  /\ r \in flagged /\ "invalidated" \notin said
      /\ said = {} \/ "valid" \in said

-----------------------------------------------------------------------------
(* Evidence in memory: evidence.js.                                         *)

createClaim(r, strength, for) ==
  /\ Len(claims) < MaxClaims
  /\ claims' = Append(claims, [requirement |-> r, strength |-> strength, supports |-> for])
  /\ UNCHANGED fileVars

Of(r) == {c \in Range(claims) : c.requirement = r}

\* Two of them leave the requirement UNKNOWN.
detectEvidenceConflict(a, b) == a.requirement = b.requirement /\ a.supports # b.supports

findConflicts == {r \in Required : {c.supports : c \in Of(r)} = BOOLEAN}

\* Whether the requirement is critical makes no difference: without direct
\* evidence none is closed.
canCloseRequirement(r) ==
  /\ \E c \in Of(r) : c.strength \in {"L3_DIRECT", "L4_VERIFICATION"}
  /\ \A c \in Of(r) : c.supports

LineageInit ==
  /\ lineageDir = [e \in Evidence |-> NoFile] /\ stated = Required
  /\ flagged \in {{}, Required} /\ claims = <<>>

EvidenceNext ==
  \/ \E e \in Evidence :
       \/ \E r \in Required, h \in Hypothesis : createEvidence(e, r, h)
       \/ \E link \in {"whole", "part"} : linkEvidenceToRequirement(e, link)
       \/ \E result \in {"PASS", "PARTIAL", "FAIL"} : verifyEvidence(e, result)
       \/ supersedeEvidence(e) \/ invalidateEvidence(e) \/ TearEvidence(e)
  \/ \E id \in Hypothesis \cup Required : invalidateDependentEvidence(id)
  \/ \E rs \in SUBSET Required : Restate(rs)
ClaimNext == \E r \in Required, s \in Strength, for \in BOOLEAN : createClaim(r, s, for)
LineageNext == EvidenceNext \/ ClaimNext

LineageSpec == LineageInit /\ [][LineageNext]_lineageVars

-----------------------------------------------------------------------------
\* Evidence is valid only with its whole lineage and a verification that passed
\* (evidence-lineage.js:424); a task that can complete has such evidence of every
\* requirement it lists, whatever was superseded, torn or removed; what stands in
\* the graph as verified although some evidence went stale has some that is valid;
\* and a requirement is never closed while two of its claims conflict.
LineageTypeOK ==
  /\ stated \subseteq Required /\ flagged \subseteq Required
  /\ \A e \in Readable :
       lineageDir[e].status = "valid" => hasCompleteLineage(lineageDir[e]) /\ lineageDir[e].passes
  /\ canComplete =>
       \A r \in stated : \E e \in Evidence : <<e, r>> \in supports /\ lineageDir[e].passes
  /\ \A r \in Required :
       /\ hasStaleEvidence(r) /\ deriveVerification(r) => getValidEvidence(r) # {}
       /\ canCloseRequirement(r) =>
            /\ r \notin findConflicts
            /\ ~\E j, k \in DOMAIN claims : /\ claims[j].requirement = r
                                             /\ detectEvidenceConflict(claims[j], claims[k])
=============================================================================
