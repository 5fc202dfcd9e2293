------------------------------ MODULE Preflight -------------------------------
(***************************************************************************)
(* What is made of a prompt before any work: its class and mode, what it   *)
(* takes for granted, what has to be asked, the contract proposed, and the *)
(* questions as they are answered and added to.                            *)
(* Code: analyze and what it calls in src/src/skills/engine.js,            *)
(* src/src/policy/uncertainty.js, request-classifier.js and                *)
(* project-inspector.js, and the commands on questions in src/index.js.    *)
(*                                                                         *)
(* A prompt is the words in it that some pattern looks for and how many of *)
(* its clauses ask for something.                                          *)
(***************************************************************************)
EXTENDS Naturals, Sequences, SequencesExt, FiniteSets, FiniteSetsExt

CONSTANTS Word,            \* those of the patterns used below
          MaxWords,        \* the bound on them in one prompt
          MaxClauses,      \* the bound on clauses
          MaxRequirements, \* MAX_CONTRACT_REQUIREMENTS
          MaxQuestions,    \* the bound on questions of a contract
          NoContract       \* no task yet, or no requirements in it

ASSUME PreflightAssumption ==
  /\ MaxWords \in Nat /\ MaxClauses \in Nat /\ MaxQuestions \in Nat
  /\ MaxRequirements \in Nat \ {0}

VARIABLES folder,   \* what the project shows
          report,   \* the last analysis
          proposal  \* the task's contract

preflightVars == <<folder, report, proposal>>

Folder == [agents: BOOLEAN, package: BOOLEAN, nest: BOOLEAN, angular: BOOLEAN]
Statement == {"adds", "performance", "authentication", "cache", "nest-auth",
              "angular-service", "little-known", "migrate-or-delete", "how-to-delete"}
Assumed == [id: Nat, text: Statement, critical: BOOLEAN,
            status: {"active", "blocking", "resolved"}]
Asked == [id: Nat, text: Statement, status: {"blocking", "answered"}, covers: Nat]
Mode == {"FAST", "NORMAL", "STRICT"}

-----------------------------------------------------------------------------
(* The analysis. *)

\* The first class whose pattern is there, and how sure that makes.
Architectural(words) == words \cap {"architecture", "migrate-or-delete"} # {}
classifyRequest(words) ==
  IF "trivial" \in words THEN [type |-> "trivial", confidence |-> 95]
  ELSE IF Architectural(words) THEN [type |-> "architectural", confidence |-> 60]
  ELSE IF "research" \in words THEN [type |-> "research", confidence |-> 70]
  ELSE [type |-> "normal", confidence |-> 50]

\* AGENTS.md counts once, a package three times: itself, its dependencies and
\* a stack, if only "other".
inspectProject ==
  [known |-> (IF folder.agents THEN 1 ELSE 0) + (IF folder.package THEN 3 ELSE 0),
   nest |-> folder.package /\ folder.nest, angular |-> folder.package /\ folder.angular]

\* Those of a sequence that pass a test, in their order (SelectSeq, as a function
\* that a proof can unfold).
Passing(s, Test(_)) ==
  LET passed[n \in 0 .. Len(s)] ==
        IF n = 0 THEN <<>>
        ELSE IF Test(s[n]) THEN Append(passed[n - 1], s[n]) ELSE passed[n - 1]
  IN  passed[Len(s)]

\* What the words take for granted, in this order.
auditAssumptions(words) ==
  Passing(<<"adds", "performance", "authentication", "cache", "nest-auth", "angular-service">>,
    LAMBDA s : CASE s = "adds" -> "add" \in words /\ "already" \notin words
                 [] s = "nest-auth" -> inspectProject.nest /\ "auth" \in words
                 [] s = "angular-service" -> inspectProject.angular /\ "service" \in words
                 [] OTHER -> s \in words)

\* Only these touch what may not be guessed.
classifyAssumption(s) == s = "nest-auth"
classifyUncertainty(s) == s = "nest-auth"

extractPromptCriticalUncertainties(words) ==
  IF "migrate-or-delete" \in words THEN <<"migrate-or-delete">>
  ELSE IF "delete" \in words THEN <<"how-to-delete">> ELSE <<>>

\* Numbered as they come: what is assumed, what is not known, what the prompt
\* leaves open.
uncertainties(words) ==
  LET texts == auditAssumptions(words)
                 \o (IF inspectProject.known < 3 THEN <<"little-known">> ELSE <<>>)
                 \o extractPromptCriticalUncertainties(words)
  IN  [n \in DOMAIN texts |->
         [id |-> n, text |-> texts[n],
          critical |-> classifyUncertainty(texts[n])
                         \/ texts[n] \in ToSet(extractPromptCriticalUncertainties(words))]]

buildAssumptions(words) ==
  LET texts == auditAssumptions(words)
  IN  [n \in DOMAIN texts |-> [id |-> n, text |-> texts[n], status |-> "active",
                               critical |-> classifyAssumption(texts[n])]]

determineMode(words) ==
  CASE classifyRequest(words).type = "trivial" -> "FAST"
    [] classifyRequest(words).type = "architectural" -> "STRICT"
    [] OTHER -> "NORMAL"

\* The rules that go with every task, and those of a fork in the design.
evaluatePersistentPolicies(words) ==
  (IF words \cap {"new-service", "architecture"} # {} THEN {"decision-gate"} ELSE {})
    \cup (IF classifyRequest(words).type # "trivial" THEN {"scope", "verify"} ELSE {})
    \cup {"simplify"}

-----------------------------------------------------------------------------
(* The contract. *)

\* Mutant: what the framework leaves open is not put to the user.
Blocking_Uncovered(words) ==
  Passing(uncertainties(words), LAMBDA u : u.critical /\ u.text # "nest-auth")

\* What has to be asked keeps its number.
Blocking(words) == Passing(uncertainties(words), LAMBDA u : u.critical)

\* A clause each up to the limit, then what single words ask for while there
\* is room; of a long specification its words only.
requirements(words, clauses) ==
  LET asked == IF {"long", "spec"} \subseteq words THEN {"test", "auth"}
               ELSE {"test", "migrate-or-delete", "auth"}
      begun == IF {"long", "spec"} \subseteq words THEN 1
               ELSE Min({clauses, MaxRequirements})
      all == Min({begun + Cardinality(asked \cap words),
                  IF {"long", "spec"} \subseteq words THEN 3 ELSE MaxRequirements})
  IN  IF all = 0 THEN 2 ELSE all

synthesizeContract(words, clauses) ==
  [requirements |-> requirements(words, clauses),
   unknowns |-> [n \in DOMAIN Blocking(words) |->
                   [id |-> Blocking(words)[n].id, text |-> Blocking(words)[n].text,
                    status |-> "blocking", covers |-> 0]],
   assumptions |-> buildAssumptions(words)]

\* The contract is made once; a later message leaves it.
buildPersistedContract(words, clauses) ==
  IF proposal = NoContract THEN synthesizeContract(words, clauses) ELSE proposal

\* A word of consequence makes the assumption of something new critical: the
\* first open question that covers none covers it, or a question is added,
\* numbered by how many there are.
Consequence == {"delete", "auth", "architecture"}
escalateAssumptions(contract, words) ==
  LET chosen == {n \in DOMAIN contract.assumptions :
                   /\ contract.assumptions[n].text = "adds"
                   /\ contract.assumptions[n].status = "active"
                   /\ words \cap Consequence # {}}
      open == {n \in DOMAIN contract.unknowns :
                 contract.unknowns[n].status = "blocking" /\ contract.unknowns[n].covers = 0}
      escalated == [n \in DOMAIN contract.assumptions |->
                      IF n \in chosen
                      THEN [contract.assumptions[n] EXCEPT !.critical = TRUE, !.status = "blocking"]
                      ELSE contract.assumptions[n]]
      added == [id |-> Len(contract.unknowns) + 1, text |-> "adds", status |-> "blocking",
                covers |-> contract.assumptions[Min(chosen)].id]
  IN  IF chosen = {} THEN contract
      ELSE [contract EXCEPT !.assumptions = escalated,
              !.unknowns = IF open = {} THEN Append(@, added)
                           ELSE [@ EXCEPT ![Min(open)].covers = added.covers]]

Analysis(words) ==
  [mode |-> determineMode(words), sure |-> classifyRequest(words).confidence >= 60,
   policies |-> evaluatePersistentPolicies(words),
   ready |-> determineMode(words) # "STRICT"]

-----------------------------------------------------------------------------
\* A message is analysed, its contract made or kept, its assumptions looked at
\* again.
Analyze ==
  \E words \in UNION {kSubset(n, Word) : n \in 0 .. MaxWords}, clauses \in 0 .. MaxClauses :
    /\ report' = Analysis(words)
    /\ proposal' = escalateAssumptions(buildPersistedContract(words, clauses), words)
    /\ Len(proposal'.unknowns) <= MaxQuestions /\ UNCHANGED folder

\* Questions are answered and assumptions resolved, in one write.
Settled(contract, answered, resolved) ==
  [contract EXCEPT
     !.unknowns = [n \in DOMAIN @ |->
                     IF n \in answered THEN [@[n] EXCEPT !.status = "answered"] ELSE @[n]],
     !.assumptions = [m \in DOMAIN @ |->
                        IF m \in resolved
                        THEN [@[m] EXCEPT !.status = "resolved", !.critical = FALSE] ELSE @[m]]]

\* Answering some questions resolves the assumptions they cover.
AnswerTo(contract, answered) ==
  Settled(contract, answered,
          {m \in DOMAIN contract.assumptions :
             \E n \in answered : contract.unknowns[n].covers = contract.assumptions[m].id})

\* /wam answer: the first question of that number.
answerQuestion ==
  /\ proposal # NoContract
  /\ \E id \in {proposal.unknowns[n].id : n \in DOMAIN proposal.unknowns} :
       proposal' = AnswerTo(proposal, {Min({n \in DOMAIN proposal.unknowns :
                                              proposal.unknowns[n].id = id})})
  /\ UNCHANGED <<folder, report>>

\* A plain message answers whatever is open.
answerFromMessage ==
  LET open == {n \in DOMAIN proposal.unknowns : proposal.unknowns[n].status = "blocking"}
  IN  /\ proposal # NoContract /\ open # {}
      /\ proposal' = AnswerTo(proposal, open)
      /\ UNCHANGED <<folder, report>>

\* Evidence resolves an assumption, and answers the first open question that
\* covers it.
resolveAssumption ==
  /\ proposal # NoContract
  /\ \E m \in DOMAIN proposal.assumptions :
       LET covering == {n \in DOMAIN proposal.unknowns :
                          /\ proposal.unknowns[n].status = "blocking"
                          /\ proposal.unknowns[n].covers = proposal.assumptions[m].id}
       IN  proposal' = Settled(proposal, IF covering = {} THEN {} ELSE {Min(covering)}, {m})
  /\ UNCHANGED <<folder, report>>

\* The project changes, and a task begins anew.
ChangeFolder == folder' \in Folder /\ UNCHANGED <<report, proposal>>
BeginTask == proposal' = NoContract /\ UNCHANGED <<folder, report>>

PreflightInit ==
  /\ folder = [agents |-> FALSE, package |-> FALSE, nest |-> FALSE, angular |-> FALSE]
  /\ report = Analysis({}) /\ proposal = NoContract

PreflightNext ==
  Analyze \/ answerQuestion \/ answerFromMessage \/ resolveAssumption \/ ChangeFolder \/ BeginTask
PreflightSpec == PreflightInit /\ [][PreflightNext]_preflightVars

PreflightTypeOK ==
  /\ folder \in Folder /\ report.mode \in Mode
  /\ proposal # NoContract =>
       /\ proposal.requirements \in 1 .. MaxRequirements \cup {2, 3}
       /\ proposal.unknowns \in Seq(Asked) /\ proposal.assumptions \in Seq(Assumed)

\* What is critical and not resolved was put to the user: a question of the
\* contract says it, or an open one covers it.
CriticalIsAsked ==
  proposal # NoContract =>
    \A m \in DOMAIN proposal.assumptions :
      proposal.assumptions[m].critical =>
        \E n \in DOMAIN proposal.unknowns :
          \/ proposal.unknowns[n].text = proposal.assumptions[m].text
          \/ /\ proposal.unknowns[n].status = "blocking"
             /\ proposal.unknowns[n].covers = proposal.assumptions[m].id
=============================================================================
