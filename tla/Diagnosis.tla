------------------------------- MODULE Diagnosis -------------------------------
(***************************************************************************)
(* The diagnostic loop: a failure is classified, its candidate causes are  *)
(* ranked, the experiment for the first is run and what it shows assessed. *)
(* Code: src/src/verification/diagnostic-engine.js.                        *)
(*                                                                         *)
(* The text of a failure is the set of the rules whose patterns it matches *)
(* (any set is the text of some failure); a signal is the "key:value" the  *)
(* code compares.  Plausibilities are in tenths.                           *)
(***************************************************************************)
EXTENDS Naturals, Sequences, SequencesExt, FiniteSets, FiniteSetsExt

CONSTANTS Symptoms,   \* the sets of rules that the texts seen match
          Outcome,    \* the sets of signals that experiments show
          MaxRounds,  \* the bound on diagnoses
          NoReport    \* no diagnosis, experiment or observation

VARIABLES diagnosis, \* the latest one
          observed,  \* what its experiment showed
          verdict,   \* the assessment of its first candidate
          rounds

diagnosisVars == <<diagnosis, observed, verdict, rounds>>

ASSUME DiagnosisAssumption == MaxRounds \in Nat

\* CLASSIFICATION_RULES, in order, with the status codes each claims.
ClassificationRules ==
  <<"MISSING_EXECUTABLE", "ANTI_BOT", "RATE_LIMIT", "AUTH", "NETWORK_ERROR", "BROWSER_RUNTIME", "CONFIGURATION">>
FailureClass == {"UNKNOWN"} \cup Range(ClassificationRules)
StatusCodes(rule) ==
  CASE rule = "ANTI_BOT" -> {403, 429}
    [] rule = "RATE_LIMIT" -> {429}
    [] rule = "AUTH" -> {401, 407}
    [] OTHER -> {}
StatusCode == {NoReport} \cup UNION {StatusCodes(r) : r \in Range(ClassificationRules)} \cup {500}

Cause(id, prior) == [id |-> id, prior |-> prior]

generateCandidateCauses(class) ==
  CASE class = "MISSING_EXECUTABLE" ->
         <<Cause("MISSING_EXECUTABLE", 9), Cause("WRONG_EXECUTABLE_PATH", 2)>>
    [] class = "BROWSER_RUNTIME" ->
         <<Cause("LAUNCH_FAILED", 7), Cause("PAGE_CRASH", 3),
           Cause("NAVIGATION_TIMEOUT", 3)>>
    [] class = "ANTI_BOT" -> <<Cause("WAF_BLOCK", 7), Cause("GEO_BLOCK", 2)>>
    [] class = "NETWORK_ERROR" ->
         <<Cause("DNS_FAILURE", 4), Cause("CONNECTION_REFUSED", 4), Cause("TLS_ERROR", 2)>>
    [] class = "AUTH" -> <<Cause("INVALID_CREDENTIALS", 8), Cause("EXPIRED_TOKEN", 4)>>
    [] class = "RATE_LIMIT" -> <<Cause("REQUESTS_THROTTLED", 9)>>
    [] class = "CONFIGURATION" -> <<Cause("BAD_CONFIG", 9)>>
    [] class = "UNKNOWN" -> <<Cause("UNCLASSIFIED", 10)>>

CauseId == UNION {{generateCandidateCauses(c)[k].id :
                     k \in DOMAIN generateCandidateCauses(c)} : c \in FailureClass}

\* What the experiment is expected to show.  Finding the executable is what is
\* expected when it is missing, and the same holds of most of the others: the
\* probe succeeds.
Expected(cause) ==
  CASE cause = "MISSING_EXECUTABLE" ->
         {"errorCode:PRESENT", "message:browser executable resolvable", "statusCode:200"}
    [] cause = "WRONG_EXECUTABLE_PATH" -> {"errorCode:ENOENT", "message:No such file"}
    [] cause \in {"NAVIGATION_TIMEOUT", "WAF_BLOCK", "GEO_BLOCK", "INVALID_CREDENTIALS",
                  "EXPIRED_TOKEN", "REQUESTS_THROTTLED"} -> {"statusCode:200", "message:ok"}
    [] OTHER -> {"errorCode:OK", "message:" \o cause}

\* A code other than these has no inverse that can be observed.
inverseSignal(signal) ==
  CASE signal = "errorCode:ENOENT" -> {"errorCode:PRESENT"}
    [] signal = "errorCode:PRESENT" -> {"errorCode:ENOENT"}
    [] signal = "statusCode:200" -> {"statusCode:403"}
    [] signal \in {"statusCode:403", "statusCode:401"} -> {"statusCode:200"}
    [] OTHER -> {}

-----------------------------------------------------------------------------
(* The loop.                                                                *)

\* The first rule that claims the status code, then the first that the text
\* matches: a 429 is ANTI_BOT, which stands before RATE_LIMIT.
classifyObservation(status, text) ==
  LET claiming == {k \in DOMAIN ClassificationRules : status \in StatusCodes(ClassificationRules[k])}
      matching == {k \in DOMAIN ClassificationRules : ClassificationRules[k] \in text}
  IN  IF claiming # {} THEN ClassificationRules[Min(claiming)]
      ELSE IF matching # {} THEN ClassificationRules[Min(matching)]
      ELSE "UNKNOWN"

\* The priors of the earlier diagnosis are added, nothing of an assessment; ties
\* keep the order in which the causes were generated.
rankCandidates(candidates, previous) ==
  LET Earlier(id) ==
        IF previous = NoReport THEN {}
        ELSE {k \in DOMAIN previous.candidates : previous.candidates[k].id = id}
      weighed ==
        [k \in DOMAIN candidates |->
           [candidates[k] EXCEPT !.prior =
              @ + IF Earlier(candidates[k].id) = {} THEN 0
                  ELSE previous.candidates[CHOOSE j \in Earlier(candidates[k].id) : TRUE].prior]]
      Before(k) == {j \in DOMAIN candidates :
                      \/ weighed[j].prior > weighed[k].prior
                      \/ weighed[j].prior = weighed[k].prior /\ j < k}
  IN  [n \in DOMAIN candidates |->
         weighed[CHOOSE k \in DOMAIN candidates : Cardinality(Before(k)) = n - 1]]

assessCause(cause, shown) ==
  IF shown = NoReport THEN "INCONCLUSIVE"
  ELSE IF Expected(cause) \cap shown # {} THEN "SUPPORTED"
  ELSE IF UNION {inverseSignal(s) : s \in Expected(cause)} \cap shown # {} THEN "CONTRADICTED"
  ELSE "INCONCLUSIVE"

antiBotSupport(class) ==
  CASE class = "ANTI_BOT" -> "SUPPORTED"
    [] class \in {"BROWSER_RUNTIME", "MISSING_EXECUTABLE"} -> "NOT_SUPPORTED"
    [] OTHER -> "INCONCLUSIVE"

\* A failure is diagnosed afresh or in the light of the earlier diagnosis.
diagnose(status, text, previous) ==
  /\ rounds < MaxRounds /\ rounds' = rounds + 1
  /\ LET class == classifyObservation(status, text)
         ranked == rankCandidates(generateCandidateCauses(class), previous)
     IN  diagnosis' = [class |-> class, candidates |-> ranked,
                       experiment |-> Head(ranked).id]
  /\ observed' = NoReport /\ verdict' = NoReport

\* Whoever asked runs the experiment, or asks for a verdict without having.
Probe(shown) ==
  /\ diagnosis # NoReport /\ observed = NoReport
  /\ observed' = shown
  /\ verdict' = assessCause(diagnosis.experiment, shown)
  /\ UNCHANGED <<diagnosis, rounds>>

DiagnosisInit ==
  /\ diagnosis = NoReport /\ observed = NoReport /\ verdict = NoReport /\ rounds = 0

DiagnosisNext ==
  \/ \E status \in StatusCode, text \in Symptoms, previous \in {NoReport, diagnosis} :
       diagnose(status, text, previous)
  \/ \E shown \in Outcome \cup {NoReport} : Probe(shown)

DiagnosisSpec == DiagnosisInit /\ [][DiagnosisNext]_diagnosisVars

-----------------------------------------------------------------------------
Report ==
  [class: FailureClass, candidates: Seq([id: CauseId, prior: Nat]), experiment: CauseId]

\* The diagnosis is a class with its causes, the experiment is that of the first
\* of them, which no other outweighs, and stealth is never advised for a missing
\* executable or a crashed browser (antiBotSupport's doc), whatever was
\* diagnosed before.
DiagnosisTypeOK ==
  /\ diagnosis \in {NoReport} \cup Report
  /\ verdict \in {NoReport, "SUPPORTED", "CONTRADICTED", "INCONCLUSIVE"}
  /\ observed \in {NoReport} \cup Outcome
  /\ rounds \in 0..MaxRounds
  /\ diagnosis # NoReport =>
       /\ diagnosis.experiment = diagnosis.candidates[1].id
       /\ \A k \in DOMAIN diagnosis.candidates :
            diagnosis.candidates[k].prior <= diagnosis.candidates[1].prior
       /\ antiBotSupport(diagnosis.class) = "SUPPORTED" =>
            diagnosis.experiment \in {"WAF_BLOCK", "GEO_BLOCK"}
=============================================================================
