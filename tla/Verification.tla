----------------------------- MODULE Verification -----------------------------
(***************************************************************************)
(* The checks that verify a requirement: verifyRequirement runs them one   *)
(* after the other and stops at the first that does not pass.              *)
(* Code: src/src/verification/verification.js.                             *)
(*                                                                         *)
(* Several calls may be under way at once (markRequirement awaits them).   *)
(* They share a cache of the repository's state and, if they check pages,  *)
(* one script file, which a child process loads some time after it was     *)
(* written.                                                                *)
(***************************************************************************)
EXTENDS Naturals, Sequences

CONSTANTS Verifier,    \* calls of verifyRequirement
          ChecksOf,    \* the checks of each: a sequence of [type, id]
          MaxCommits,  \* the bound on changes of the repository
          NoScript     \* no such file

ASSUME VerificationAssumption ==
  /\ \A v \in Verifier :
       ChecksOf[v] \in Seq([type: {"command", "service", "e2e", "invalid"}, id: Nat])
  /\ MaxCommits \in Nat \ {0}

VARIABLES head,     \* the revision of the repository
          cached,   \* what the cache says it is; 0 if it has expired
          script,   \* the check whose page temp-e2e-check.mjs opens
          trial,    \* where each call stands
          results   \* what the checks of each call came to

verifyVars == <<head, cached, script, trial, results>>

Outcome == {"PASS", "FAIL", "TIMEOUT", "ERROR"}
AtCheck == [at: {"idle", "running", "loading", "open", "VERIFIED", "VERIFYING"},
            seen: Nat, page: Verifier \X Nat \cup {NoScript}, shared: BOOLEAN]
NotBegun == [at |-> "idle", seen |-> 0, page |-> NoScript, shared |-> FALSE]

Number(v) == Len(results[v]) + 1
Check(v) == ChecksOf[v][Number(v)]
OnPage(v) == trial[v].at \in {"loading", "open"}

-----------------------------------------------------------------------------
(* A verification walks through its checks.                                 *)

\* All passed, and there is one result for every id.
evaluateRequirement(v, outcomes) ==
  LET ids == {ChecksOf[v][n].id : n \in 1 .. Len(ChecksOf[v])}
  IN  /\ ChecksOf[v] # <<>> /\ Len(outcomes) = Len(ChecksOf[v])
      /\ \A n, m \in 1 .. Len(outcomes) : n # m => ChecksOf[v][n].id # ChecksOf[v][m].id
      /\ \A n \in 1 .. Len(outcomes) : outcomes[n].status = "PASS"

\* Between two checks: the repository is looked at, unless that was just done.
captureRepositoryState == IF cached # 0 THEN cached ELSE head

\* Mutant: a script that is there already is left alone.
Written_Once(v) == IF Check(v).type = "e2e" /\ script = NoScript THEN <<v, Number(v)>> ELSE script

\* The script file once the check has begun.
Written(v) == IF Check(v).type = "e2e" THEN <<v, Number(v)>> ELSE script

\* executeCheck begins: an invalid check is an error at once, a page has its
\* script written, the others have their child or request started.
BeginCheck(v) ==
  /\ trial[v].at = "idle" /\ Number(v) \in 1 .. Len(ChecksOf[v])
  /\ cached' = captureRepositoryState
  /\ trial' = [w \in Verifier |->
       IF w = v
       THEN [at |-> IF Check(v).type = "e2e" THEN "loading" ELSE "running",
             seen |-> captureRepositoryState, page |-> NoScript,
             shared |-> Check(v).type = "e2e" /\ \E u \in Verifier : OnPage(u)]
       ELSE [trial[w] EXCEPT !.shared = @ \/ (OnPage(w) /\ Check(v).type = "e2e")]]
  /\ script' = Written(v) /\ UNCHANGED <<head, results>>

\* The child process loads what the file holds by then.
LoadScript(v) ==
  /\ trial[v].at = "loading"
  /\ trial' = [trial EXCEPT ![v].at = "open", ![v].page = script]
  /\ UNCHANGED <<head, cached, script, results>>

\* The result, and the verdict if it is the last one or not a pass.
Concluded(v, status) ==
  LET outcomes == Append(results[v], [status |-> status, page |-> trial[v].page,
                                      shared |-> trial[v].shared, seen |-> trial[v].seen])
  IN  /\ results' = [results EXCEPT ![v] = outcomes]
      /\ trial' = [trial EXCEPT ![v] =
           [NotBegun EXCEPT !.at =
              IF status = "PASS" /\ Len(outcomes) < Len(ChecksOf[v]) THEN "idle"
              ELSE IF evaluateRequirement(v, outcomes) THEN "VERIFIED" ELSE "VERIFYING"]]

\* A check of no known type, or without its command or address, is refused.
validateCheck(c) == c.type # "invalid"

\* A refused check is an error; a command or a request settles in any way.
CheckEnds(v) ==
  /\ trial[v].at = "running"
  /\ \E status \in (IF validateCheck(Check(v)) THEN Outcome ELSE {"ERROR"}) :
       Concluded(v, status)
  /\ UNCHANGED <<head, cached, script>>

\* The callback removes the file, whosoever it is; a child that found none
\* ended with an error.
PageEnds(v) ==
  /\ trial[v].at = "open"
  /\ \E status \in (IF trial[v].page = NoScript THEN {"FAIL"}
                    ELSE {"PASS", "FAIL", "TIMEOUT"}) : Concluded(v, status)
  /\ script' = NoScript /\ UNCHANGED <<head, cached>>

-----------------------------------------------------------------------------
(* Around it.                                                               *)

Commit ==
  /\ head < MaxCommits /\ head' = head + 1
  /\ UNCHANGED <<cached, script, trial, results>>

\* Five seconds have passed.
CacheExpires == cached # 0 /\ cached' = 0 /\ UNCHANGED <<head, script, trial, results>>

\* The user asks for the requirement once more.
AskAgain(v) ==
  /\ trial[v].at \in {"VERIFIED", "VERIFYING"}
  /\ trial' = [trial EXCEPT ![v] = NotBegun] /\ results' = [results EXCEPT ![v] = <<>>]
  /\ UNCHANGED <<head, cached, script>>

\* The plugin ends: the calls, the cache and the children are gone, the script
\* stays.
VerifierCrash ==
  /\ \E v \in Verifier : trial[v].at \in {"running", "loading", "open"}
  /\ trial' = [v \in Verifier |-> NotBegun] /\ results' = [v \in Verifier |-> <<>>]
  /\ cached' = 0 /\ UNCHANGED <<head, script>>

VerifyInit ==
  /\ head = 1 /\ cached = 0 /\ script = NoScript
  /\ trial = [v \in Verifier |-> NotBegun] /\ results = [v \in Verifier |-> <<>>]

VerifyNext ==
  \/ \E v \in Verifier : BeginCheck(v) \/ LoadScript(v) \/ CheckEnds(v) \/ PageEnds(v)
  \/ \E v \in Verifier : AskAgain(v)
  \/ Commit \/ CacheExpires \/ VerifierCrash

VerifySpec == VerifyInit /\ [][VerifyNext]_verifyVars

VerifyTypeOK ==
  /\ head \in 1 .. MaxCommits /\ cached \in 0 .. MaxCommits
  /\ script \in Verifier \X Nat \cup {NoScript} /\ trial \in [Verifier -> AtCheck]
  /\ \A v \in Verifier :
       results[v] \in Seq([status: Outcome, page: Verifier \X Nat \cup {NoScript},
                           shared: BOOLEAN, seen: Nat])

\* A page passes on its own script, not on one somebody left behind: only
\* another page under way at the same time can put its script in between
\* (verification.js: temp-e2e-check.mjs).
PassedOnItsPage ==
  \A v \in Verifier : \A n \in 1 .. Len(results[v]) :
    ChecksOf[v][n].type = "e2e" /\ results[v][n].status = "PASS" =>
      results[v][n].page = <<v, n>> \/ results[v][n].shared
=============================================================================
