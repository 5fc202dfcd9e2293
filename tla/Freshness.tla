------------------------------- MODULE Freshness -------------------------------
(***************************************************************************)
(* The refresh of a task's evidence against the environment and the files  *)
(* it was made in.  The DONE gate that asks for it, isDoneAllowed, refuses *)
(* exactly when a refresh finds that something drifted.                    *)
(* Code: src/src/evidence/evidence-freshness.js, and the lineage it reads, *)
(* src/src/evidence/evidence-lineage.js.                                   *)
(*                                                                         *)
(* A refresh is one synchronous call; its writes are steps of their own,   *)
(* so that a crash falls between any two, or into one: every file is       *)
(* overwritten in place, and what a crash cut off does not parse and reads *)
(* as nothing.  Outside of a refresh the repository moves on (a checkout   *)
(* or an upgrade changes the environment, an edit a file), and             *)
(* markRequirement writes back the record it read before an await.         *)
(***************************************************************************)
EXTENDS Naturals, Sequences, FiniteSets

CONSTANTS Environment,   \* fingerprints, revision included
          SourceFile,    \* the files evidence can be about
          Content,       \* what a file may hold
          Need,          \* requirements of the task
          MaxLineage,    \* the bound on pieces of evidence
          MaxDrift,      \* the bound on changes of the repository
          Missing        \* no such file; nothing recorded

\* A revision is never taken for none.
ASSUME FreshnessAssumption == Missing \notin Environment /\ MaxLineage \in Nat

VARIABLES surroundings, \* the environment and the files as they are
          drifts,       \* how often they changed
          lineage,      \* the evidence, oldest first
          known,        \* what state.yaml records
          held,         \* what markRequirement read of it before its await
          refresh,      \* the refresh under way
          carried,      \* the recorded environments each was valid through
          shaken        \* evidence whose recorded environment was lost since

journeys == <<carried, shaken>>
freshnessVars == <<surroundings, drifts, lineage, known, held, refresh, journeys>>

\* "torn" is that of a file that does not parse.
EvidenceStatus ==
  {"valid", "superseded", "invalidated", "insufficient", "unverified", "torn"}
Fingerprints == UNION {[fs -> Content] : fs \in SUBSET SourceFile}
EvidenceFile == [need: Need, status: EvidenceStatus, linked: BOOLEAN,
                 hashes: Fingerprints]

NoHashes == [f \in {} |-> Missing]
NoRefresh == [at |-> "idle"]
\* A record that does not parse; nothing held.
NoState == [reads |-> FALSE, environment |-> Missing, files |-> Missing]

Numbered == 1..Len(lineage)
Legible == {k \in Numbered : lineage[k].status # "torn"}
InForce == {k \in Legible : lineage[k].status # "invalidated"}

-----------------------------------------------------------------------------
(* What a refresh computes from what it reads.                              *)

\* A list in the state settles it, if it is not empty.
resolveRelevantFiles ==
  IF known.files \notin {Missing, {}} THEN known.files
  ELSE UNION {DOMAIN lineage[k].hashes : k \in Numbered}

fingerprintArtifacts(files) == [f \in files |-> surroundings.files[f]]

\* getAllEvidence lists the newest first and the last to name a file wins, so
\* its previous hash is that of the oldest evidence, in force or not.
PreviousHash(f) ==
  LET naming == {k \in Numbered : f \in DOMAIN lineage[k].hashes}
  IN  IF naming = {} THEN Missing
      ELSE lineage[CHOOSE k \in naming : \A j \in naming : k <= j].hashes[f]

\* The entries that are not "unchanged": a file nobody hashed before, one that
\* is not looked at any more and one that is nowhere count as changed.
diffArtifacts(current) ==
  {f \in SourceFile :
     LET now == IF f \in DOMAIN current THEN current[f] ELSE Missing
     IN  /\ f \in DOMAIN current \/ PreviousHash(f) # Missing
         /\ now = Missing \/ now # PreviousHash(f)}

isEnvironmentDrifted(current) ==
  known.environment # Missing /\ known.environment # current

Affected(environmentDrifted, changed) ==
  {k \in InForce : environmentDrifted \/ DOMAIN lineage[k].hashes \cap changed # {}}

-----------------------------------------------------------------------------
(* The repository.                                                          *)

Drift(after) ==
  /\ drifts < MaxDrift /\ drifts' = drifts + 1
  /\ surroundings' = after /\ after # surroundings
  /\ UNCHANGED <<lineage, known, held, refresh, journeys>>

Checkout == \E e \in Environment : Drift([surroundings EXCEPT !.environment = e])
Edit ==
  \E f \in SourceFile, c \in Content \cup {Missing} :
    Drift([surroundings EXCEPT !.files[f] = c])

-----------------------------------------------------------------------------
(* The lineage.                                                             *)

Alters(after) ==
  /\ refresh = NoRefresh /\ lineage' = after
  /\ UNCHANGED <<surroundings, drifts, known, held, refresh>>

\* createEvidence, and linkEvidenceToRequirement if it has its lineage.
CreateEvidence ==
  \E n \in Need, linked \in BOOLEAN :
    /\ Len(lineage) < MaxLineage
    /\ Alters(Append(lineage, [need |-> n, status |-> "unverified",
                               linked |-> linked, hashes |-> NoHashes]))
    /\ carried' = Append(carried, {}) /\ UNCHANGED shaken

\* The hashes a producer of evidence stores with it.
StoreHashes(k) ==
  /\ k \in InForce
  /\ \E files \in SUBSET {f \in SourceFile : surroundings.files[f] # Missing} :
       Alters([lineage EXCEPT ![k].hashes = fingerprintArtifacts(files)])
  /\ UNCHANGED journeys

\* A pass counts from any status; a failure is noted and changes none.
VerifyEvidence(k) ==
  /\ k \in Legible
  /\ \/ /\ Alters([lineage EXCEPT ![k].status =
                     IF lineage[k].linked THEN "valid" ELSE "insufficient"])
        /\ carried' = [carried EXCEPT ![k] = {}] /\ shaken' = shaken \ {k}
     \/ /\ Alters([lineage EXCEPT ![k].status = "insufficient"])
        /\ UNCHANGED journeys

SupersedeEvidence(k) ==
  /\ k \in Legible /\ Alters([lineage EXCEPT ![k].status = "superseded"])
  /\ UNCHANGED journeys

-----------------------------------------------------------------------------
(* refreshEvidenceValidity, as isDoneAllowed calls it.  Of a record that    *)
(* does not parse it says "not found", and changes nothing.                 *)

\* Mutant: the environment is recorded before the evidence is judged by it.
BeginRefresh_Recorded ==
  LET current == fingerprintArtifacts(resolveRelevantFiles)
      drifted == isEnvironmentDrifted(surroundings.environment)
  IN  /\ refresh = NoRefresh /\ known.reads
      /\ refresh' = [at |-> "invalidating", environment |-> surroundings.environment,
                     artifacts |-> current,
                     affected |-> Affected(drifted, diffArtifacts(current)),
                     stamped |-> {}]
      /\ known' = [known EXCEPT !.environment = surroundings.environment]
      /\ UNCHANGED <<surroundings, drifts, lineage, held, journeys>>

BeginRefresh ==
  LET relevant == resolveRelevantFiles
      current == fingerprintArtifacts(relevant)
      changed == diffArtifacts(current)
      drifted == isEnvironmentDrifted(surroundings.environment)
  IN  /\ refresh = NoRefresh /\ known.reads
      /\ refresh' = [at |-> "invalidating", environment |-> surroundings.environment,
                     artifacts |-> current,
                     affected |-> Affected(drifted, changed), stamped |-> {}]
      /\ UNCHANGED <<surroundings, drifts, lineage, known, held, journeys>>

\* One file after the other, the newest evidence first.
InvalidateEvidence ==
  /\ refresh.at = "invalidating"
  /\ \E k \in refresh.affected :
       /\ \A j \in refresh.affected : j <= k
       /\ lineage' = [lineage EXCEPT ![k].status = "invalidated"]
       /\ refresh' = [refresh EXCEPT !.affected = @ \ {k}]
  /\ UNCHANGED <<surroundings, drifts, known, held, journeys>>

\* What is left gets the hashes of all files that are there.
StampEvidenceMetadata ==
  LET present == {f \in DOMAIN refresh.artifacts : refresh.artifacts[f] # Missing}
      left == InForce \ refresh.stamped
  IN  /\ refresh.at = "invalidating" /\ refresh.affected = {}
      /\ \E k \in left :
           /\ \A j \in left : j <= k
           /\ lineage' = [lineage EXCEPT ![k].hashes =
                            [f \in present |-> refresh.artifacts[f]]]
           /\ refresh' = [refresh EXCEPT !.stamped = @ \cup {k}]
      /\ UNCHANGED <<surroundings, drifts, known, held, journeys>>

\* The state is written last.
SaveRefresh ==
  /\ refresh.at = "invalidating" /\ refresh.affected = {}
  /\ InForce \subseteq refresh.stamped
  /\ known' = [reads |-> TRUE, environment |-> refresh.environment,
               files |-> IF known.files = Missing THEN DOMAIN refresh.artifacts
                         ELSE known.files]
  /\ carried' = [k \in Numbered |->
                   IF lineage[k].status = "valid"
                   THEN carried[k] \cup {refresh.environment} ELSE carried[k]]
  /\ refresh' = NoRefresh
  /\ UNCHANGED <<surroundings, drifts, lineage, held, shaken>>

-----------------------------------------------------------------------------
(* What the record goes through otherwise.                                  *)

\* The environment that evidence in force was judged by is not recorded any more.
Shaken(after) == IF after.environment = known.environment THEN shaken ELSE Numbered

\* markRequirement reads the record and awaits the checks; when they passed it
\* writes the record it read, whatever happened to it meanwhile.
ReadRecord ==
  /\ refresh = NoRefresh /\ known.reads /\ ~held.reads
  /\ held' = known
  /\ UNCHANGED <<surroundings, drifts, lineage, known, refresh, journeys>>

WriteBack ==
  /\ refresh = NoRefresh /\ held.reads /\ held' = NoState
  /\ \/ known' = held /\ shaken' = Shaken(held)
     \/ UNCHANGED <<known, shaken>>
  /\ UNCHANGED <<surroundings, drifts, lineage, refresh, carried>>

\* A record that does not parse is taken for none: the next message starts one,
\* in which no environment and no files are recorded.
RebuildRecord ==
  /\ refresh = NoRefresh /\ ~known.reads
  /\ known' = [known EXCEPT !.reads = TRUE]
  /\ UNCHANGED <<surroundings, drifts, lineage, held, refresh, journeys>>

-----------------------------------------------------------------------------
(* Crashes.  What markRequirement held is gone with the process.            *)

Dies ==
  /\ refresh' = NoRefresh /\ held' = NoState
  /\ UNCHANGED <<surroundings, drifts, carried>>

\* Before any of the writes of a refresh; those that were done stay.
CrashInRefresh == refresh # NoRefresh /\ Dies /\ UNCHANGED <<lineage, known, shaken>>

\* The evidence a refresh would write next; without one, any.
NextWritten ==
  CASE refresh = NoRefresh -> Legible
    [] refresh # NoRefresh /\ refresh.affected # {} -> refresh.affected
    [] OTHER -> InForce \ refresh.stamped

\* In the write of a piece of evidence.
CrashTearsEvidence ==
  /\ Dies
  /\ \E k \in NextWritten :
       /\ refresh # NoRefresh => \A j \in NextWritten : j <= k
       /\ lineage' = [lineage EXCEPT ![k].status = "torn", ![k].hashes = NoHashes]
  /\ UNCHANGED <<known, shaken>>

\* In the write of the record, by a refresh or by anything else.
CrashTearsState ==
  /\ refresh # NoRefresh => refresh.affected = {} /\ InForce \subseteq refresh.stamped
  /\ known.reads /\ Dies
  /\ known' = NoState /\ shaken' = Shaken(NoState) /\ UNCHANGED lineage

-----------------------------------------------------------------------------
FreshnessInit ==
  /\ surroundings \in [environment: Environment, files: [SourceFile -> Content]]
  /\ drifts = 0 /\ lineage = <<>> /\ carried = <<>> /\ shaken = {}
  /\ refresh = NoRefresh /\ held = NoState
  /\ known \in [reads: {TRUE}, environment: {Missing},
                files: (SUBSET SourceFile) \cup {Missing}]

FreshnessNext ==
  \/ Checkout \/ Edit \/ CreateEvidence
  \/ \E k \in 1..MaxLineage :
       StoreHashes(k) \/ VerifyEvidence(k) \/ SupersedeEvidence(k)
  \/ BeginRefresh \/ InvalidateEvidence \/ StampEvidenceMetadata \/ SaveRefresh
  \/ ReadRecord \/ WriteBack \/ RebuildRecord
  \/ CrashInRefresh \/ CrashTearsEvidence \/ CrashTearsState

FreshnessSpec == FreshnessInit /\ [][FreshnessNext]_freshnessVars

FreshnessTypeOK ==
  /\ surroundings \in [environment: Environment,
                       files: [SourceFile -> Content \cup {Missing}]]
  /\ \A k \in Numbered : lineage[k] \in EvidenceFile
  /\ Len(carried) = Len(lineage) /\ \A k \in Numbered : carried[k] \subseteq Environment
  /\ shaken \subseteq Nat
  /\ {known, held} \subseteq [reads: BOOLEAN, environment: Environment \cup {Missing},
                             files: (SUBSET SourceFile) \cup {Missing}]

\* Evidence stays valid through one environment: from its last verification on,
\* the refreshes that completed with it valid all recorded the same one, whatever
\* crashes cut off the refreshes between them (evidence-freshness.js writes the
\* new environment last, after every invalidation), unless the recorded
\* environment was lost or changed back in between: state.yaml torn by a crash
\* (evidence-freshness.js:71), or written back stale (src/index.js:1712).
SurvivesOneEnvironment ==
  \A k \in Numbered \ shaken : lineage[k].status = "valid" => Cardinality(carried[k]) <= 1

\* What evidence-freshness.js:4-8 says without that exception: "detects environment
\* and artifact drift, invalidates the affected evidence records".
DriftInvalidates ==
  \A k \in Numbered : lineage[k].status = "valid" => Cardinality(carried[k]) <= 1
=============================================================================
