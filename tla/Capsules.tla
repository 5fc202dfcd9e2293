------------------------------- MODULE Capsules -------------------------------
(***************************************************************************)
(* The capsules of one session, files under .wam/capsules, and the         *)
(* selection of those a prompt gets.                                       *)
(* Code: src/src/context/context.js.                                       *)
(*                                                                         *)
(* Utility and importance only order the candidates, so the selection      *)
(* takes them in any order; whether a capsule shares a word with the task  *)
(* is a choice.  The selection is one synchronous call and is modelled     *)
(* capsule by capsule.                                                     *)
(***************************************************************************)
EXTENDS Naturals, FiniteSetsExt

CONSTANTS Capsule,        \* ids of capsules
          Needs,          \* the dependencies each names
          Weight,         \* the tokens of each
          Gist,           \* its content; equal gists are duplicates
          Inferred,       \* those whose provenance is inferred
          CapsuleBudgets, \* the budgets of a selection
          MaxChanges,     \* the bound on changes before the selection
          NoCapsule       \* no file, or no superseding capsule

ASSUME CapsuleAssumption ==
  /\ Needs \in [Capsule -> SUBSET Capsule] /\ Weight \in [Capsule -> Nat \ {0}]
  /\ Inferred \subseteq Capsule /\ CapsuleBudgets \subseteq Nat /\ MaxChanges \in Nat
  /\ IsFiniteSet(Capsule)

VARIABLES capsules,   \* the files
          changes,    \* how many changes there were
          pass,       \* the pass the selection is in
          selected,   \* the capsules it has taken
          tokensUsed, \* their tokens
          left,       \* those it has not looked at in this pass
          queue,      \* the dependencies it has to look at
          room        \* its budget

selectionVars == <<pass, selected, tokensUsed, left, queue, room>>
capsuleVars == <<capsules, changes, selectionVars>>

LEVELS == {"L1", "L2", "L3", "L4"}
LIFECYCLE == {"candidate", "active", "superseded", "stale", "invalidated"}
Rank(level) ==
  CASE level = "L1" -> 1 [] level = "L2" -> 2 [] level = "L3" -> 3 [] level = "L4" -> 4

CapsuleFile == [level: LEVELS, lifecycle: LIFECYCLE, by: Capsule \cup {NoCapsule}]

Stored == {c \in Capsule : capsules[c] # NoCapsule}
Usable == {c \in Stored : capsules[c].lifecycle = "active" /\ capsules[c].level # "L4"}

-----------------------------------------------------------------------------
(* Changes, each a read of one file and a write of it.                      *)

Changed(files) ==
  /\ pass = "none" /\ changes < MaxChanges /\ changes' = changes + 1
  /\ capsules' = files /\ UNCHANGED selectionVars

\* The capsule that gives way to c, unless it is invalidated.
Superseded(files, old, c) ==
  [files EXCEPT ![old] =
     IF @ = NoCapsule \/ @.lifecycle = "invalidated" THEN @
     ELSE [@ EXCEPT !.lifecycle = "superseded", !.by = c]]

\* Two writes if the capsule supersedes another; a crash may fall in between.
CreateCapsule(c) ==
  \E level \in LEVELS, life \in LIFECYCLE, old \in Capsule \cup {NoCapsule} :
    LET files == [capsules EXCEPT
                    ![c] = [level |-> level, lifecycle |-> life, by |-> NoCapsule]]
    IN  \/ Changed(files)
        \/ old # NoCapsule /\ Changed(Superseded(files, old, c))

\* updateCapsule, markStale and invalidateCapsule.
UpdateCapsule(c) ==
  \E level \in LEVELS, life \in LIFECYCLE :
    c \in Stored /\ Changed([capsules EXCEPT ![c].level = level, ![c].lifecycle = life])

SupersedeCapsule(c) ==
  \E new \in Capsule :
    c \in Stored /\ Changed([capsules EXCEPT ![c].lifecycle = "superseded", ![c].by = new])

\* Nothing inferred gets to L1 without an approval.  The capsule becomes active,
\* whatever it was.
PromoteCapsule(c) ==
  \E level \in LEVELS, approved \in BOOLEAN :
    /\ c \in Stored /\ capsules[c].level # "L4"
    /\ Rank(level) < Rank(capsules[c].level)
    /\ ~(level = "L1" /\ c \in Inferred /\ ~approved)
    /\ Changed([capsules EXCEPT ![c].level = level, ![c].lifecycle = "active"])

\* A file torn by a crash, or written by hand, reads as none.
LoseCapsule(c) == c \in Stored /\ Changed([capsules EXCEPT ![c] = NoCapsule])

-----------------------------------------------------------------------------
(* selectContext.                                                           *)

BeginSelection ==
  /\ pass = "none"
  /\ room' \in CapsuleBudgets
  /\ pass' = "base" /\ left' = {c \in Usable : capsules[c].level = "L1"}
  /\ UNCHANGED <<capsules, changes, selected, tokensUsed, queue>>

Fits(c) == tokensUsed + Weight[c] <= room

Take(c) ==
  /\ selected' = selected \cup {c} /\ tokensUsed' = tokensUsed + Weight[c]

\* The base, as much of it as fits.
SelectBase(c) ==
  /\ pass = "base" /\ c \in left /\ left' = left \ {c}
  /\ IF Fits(c) THEN Take(c) ELSE UNCHANGED <<selected, tokensUsed>>
  /\ UNCHANGED <<capsules, changes, pass, queue, room>>

EndBase ==
  /\ pass = "base" /\ left = {}
  /\ left' \in SUBSET {c \in Usable : capsules[c].level \in {"L2", "L3"}}
  /\ pass' = "utility"
  /\ UNCHANGED <<capsules, changes, selected, tokensUsed, queue, room>>

\* The gists taken in this pass; the base does not count.
GistsTaken == {Gist[c] : c \in {d \in selected : capsules[d].level # "L1"}}

\* The relevant rest, without what is superseded or says the same again.
SelectByUtility(c) ==
  /\ pass = "utility" /\ c \in left /\ left' = left \ {c}
  /\ IF capsules[c].by = NoCapsule /\ Gist[c] \notin GistsTaken /\ Fits(c)
     THEN Take(c) ELSE UNCHANGED <<selected, tokensUsed>>
  /\ UNCHANGED <<capsules, changes, pass, queue, room>>

EndUtility ==
  /\ pass = "utility" /\ left = {}
  /\ pass' = "dependencies" /\ queue' = UNION {Needs[c] : c \in selected}
  /\ UNCHANGED <<capsules, changes, selected, tokensUsed, left, room>>

\* Mutant: the dependencies of dependencies are not followed.
FollowDependency_Direct(c) ==
  /\ pass = "dependencies" /\ c \in queue
  /\ IF c \in Usable \ selected /\ Fits(c)
     THEN Take(c) ELSE UNCHANGED <<selected, tokensUsed>>
  /\ queue' = queue \ {c}
  /\ UNCHANGED <<capsules, changes, pass, left, room>>

\* What the selected ones depend on, as far as it fits, superseded or not.
FollowDependency(c) ==
  /\ pass = "dependencies" /\ c \in queue
  /\ IF c \in Usable \ selected /\ Fits(c)
     THEN Take(c) /\ queue' = (queue \ {c}) \cup Needs[c]
     ELSE queue' = queue \ {c} /\ UNCHANGED <<selected, tokensUsed>>
  /\ UNCHANGED <<capsules, changes, pass, left, room>>

EndSelection ==
  /\ pass = "dependencies" /\ queue = {} /\ pass' = "done"
  /\ UNCHANGED <<capsules, changes, selected, tokensUsed, left, queue, room>>

-----------------------------------------------------------------------------
\* What an earlier session left: any capsules, active and with the level of a
\* foundation or the level createCapsule defaults to.
CapsuleInit ==
  /\ capsules \in [Capsule -> {NoCapsule} \cup
                     [level: {"L1", "L3"}, lifecycle: {"active"}, by: {NoCapsule}]]
  /\ changes = 0 /\ pass = "none"
  /\ selected = {} /\ tokensUsed = 0 /\ left = {} /\ queue = {} /\ room = 0

CapsuleNext ==
  \/ \E c \in Capsule :
       \/ CreateCapsule(c) \/ UpdateCapsule(c) \/ SupersedeCapsule(c)
       \/ PromoteCapsule(c) \/ LoseCapsule(c)
       \/ SelectBase(c) \/ SelectByUtility(c) \/ FollowDependency(c)
  \/ BeginSelection \/ EndBase \/ EndUtility \/ EndSelection

CapsuleSpec == CapsuleInit /\ [][CapsuleNext]_capsuleVars

-----------------------------------------------------------------------------
\* The capsules and the selection keep their types.
CapsuleTypeOK ==
  /\ capsules \in [Capsule -> CapsuleFile \cup {NoCapsule}]
  /\ selected \cup left \cup queue \subseteq Capsule
  /\ pass \in {"none", "base", "utility", "dependencies", "done"}
  /\ {tokensUsed, room, changes} \subseteq Nat

\* Whatever became of the capsules before, a finished selection fits its budget,
\* has nothing inactive or disposable in it, and has for each of its capsules
\* everything that one depends on, to any depth, except what cannot be used or
\* does not fit beside the rest (selectContext, steps 1 to 3).
SelectionIsClosed ==
  pass = "done" =>
    /\ MapThenSumSet(LAMBDA c : Weight[c], selected) = tokensUsed /\ tokensUsed <= room
    /\ selected \subseteq Usable
    /\ \A c \in selected : \A d \in Needs[c] :
         d \in selected \/ d \notin Usable \/ ~Fits(d)
=============================================================================
