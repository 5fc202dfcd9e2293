------------------------------- MODULE Provenance -------------------------------
(***************************************************************************)
(* Observations with where they come from, the levels they may be promoted *)
(* to, and the file they are kept in.                                      *)
(* Code: src/src/cognition/observation-provenance.js.                      *)
(*                                                                         *)
(* A confidence is in tenths.  The file is appended to in one write and    *)
(* rewritten in place: a crash tears either.                               *)
(***************************************************************************)
EXTENDS Integers, Sequences, SequencesExt, FiniteSets, FiniteSetsExt

CONSTANTS Confidence,  \* what callers may say, in tenths
          MaxObserved, \* the bound on observations made
          MaxCuts,    \* the bound on crashes
          Unset        \* no parent; no confidence of the caller's

ASSUME ProvenanceAssumption ==
  /\ Confidence \subseteq Int /\ Unset \notin Int
  /\ MaxObserved \in Nat /\ MaxCuts \in Nat

VARIABLES made,     \* the observations in memory, oldest first
          obsFile,  \* the lines of a file of some: their numbers, or what is torn
          cuts

provenanceVars == <<made, obsFile, cuts>>

Source == {"user_decided", "observed", "inferred"}
DEFAULT_CONFIDENCE == [user_decided |-> 10, observed |-> 8, inferred |-> 5]
Observed == 1..MaxObserved
Partial == 0

\* Confidence is not checked here: only validateObservation would refuse it.
createObservation(source, confidence, parent) ==
  /\ Len(made) < MaxObserved
  /\ made' = Append(made, [source |-> source, parent |-> parent,
                           confidence |-> IF confidence = Unset
                                          THEN DEFAULT_CONFIDENCE[source] ELSE confidence])
  /\ UNCHANGED <<obsFile, cuts>>

\* Never more certain than what it is derived from, whatever it is said to be.
deriveObservation(p, source) ==
  createObservation(source, Min({made[p].confidence, DEFAULT_CONFIDENCE[source]}), p)

validateObservation(o) == o.confidence \in 0..10

\* What was observed and not decided may be promoted to L1 too, although the
\* refusal of what is inferred says that L1 requires a decision of the user.
canPromoteObservation(o, level) ==
  /\ level = "L1" => o.source # "inferred" /\ o.confidence >= 6
  /\ \/ o.source = "user_decided"
     \/ o.source = "observed" /\ o.confidence >= 6

-----------------------------------------------------------------------------
(* The file.                                                                *)

\* A line that is torn has no end, so the next is swallowed by it.
Extended(line) ==
  IF obsFile # <<>> /\ Last(obsFile) = Partial THEN obsFile ELSE Append(obsFile, line)

appendObservation(k) ==
  /\ obsFile' = Extended(k)
  /\ UNCHANGED <<made, cuts>>

saveObservations(ks) ==
  /\ obsFile' = ks
  /\ UNCHANGED <<made, cuts>>

\* The write of the last line, or of a prefix of all of them, is cut short.
TearFile ==
  /\ cuts < MaxCuts /\ cuts' = cuts + 1
  /\ \/ obsFile' = Extended(Partial)
     \/ \E n \in {0} \cup Observed : obsFile' = Append([k \in 1..n |-> k], Partial)
  /\ UNCHANGED made

\* What does not parse is passed over.
loadObservations == {k \in DOMAIN obsFile : obsFile[k] # Partial}

ProvenanceInit == made = <<>> /\ obsFile = <<>> /\ cuts = 0

ObserveNext ==
  \/ \E s \in Source, c \in Confidence \cup {Unset} : createObservation(s, c, Unset)
  \/ \E p \in DOMAIN made, s \in Source : deriveObservation(p, s)
ObsFileNext ==
  \/ \E k \in Observed \ Range(obsFile) : appendObservation(k)
  \/ \E n \in Observed : saveObservations([k \in 1..n |-> k])
  \/ TearFile
ProvenanceNext == ObserveNext \/ ObsFileNext

ProvenanceSpec == ProvenanceInit /\ [][ProvenanceNext]_provenanceVars

-----------------------------------------------------------------------------
\* What an observation descends from: whatever holds its parent and the parents of
\* all it holds, holds them.
Descent(k) ==
  {a \in DOMAIN made :
     \A family \in SUBSET DOMAIN made :
       {made[j].parent : j \in {k} \cup family} \subseteq family \cup {Unset} => a \in family}

\* An observation is no more certain than any it descends from, so that nothing
\* derived, however it is relabelled on the way, reaches L1 from an ancestor that was
\* too uncertain for it, and what is derived is valid even where its parent is not,
\* unless something it descends from is below nothing; and a file that was torn once
\* holds what stands before the tear and nothing else, however much is appended.
ProvenanceTypeOK ==
  /\ \A k \in DOMAIN made :
       /\ made[k].source \in Source
       /\ made[k].parent \in {Unset} \cup 1..(k - 1)
       /\ made[k].parent # Unset /\ (\A a \in Descent(k) : made[a].confidence >= 0) =>
            validateObservation(made[k])
       /\ \A a \in Descent(k) :
            /\ made[k].confidence <= made[a].confidence
            /\ canPromoteObservation(made[k], "L1") => made[a].confidence >= 6
  /\ \A k \in DOMAIN obsFile :
       obsFile[k] \in Observed \cup (IF k = Len(obsFile) THEN {Partial} ELSE {})
  /\ Cardinality(loadObservations) + 1 >= Len(obsFile)
  /\ cuts \in 0..MaxCuts
=============================================================================
