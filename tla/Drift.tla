---------------------------------- MODULE Drift ----------------------------------
(***************************************************************************)
(* An agent's actions are held against its goal; when they drift, a packet *)
(* of the context that should bring it back is put together.               *)
(* Code: src/src/context/context-drift-detection.js and                    *)
(* src/src/context/context-recovery.js.                                    *)
(*                                                                         *)
(* A text is the set of its words; scores are in hundredths.  Words inside *)
(* words, stop words and the accomplished items, which are sorted and cut  *)
(* like the observations, are left out.                                    *)
(***************************************************************************)
EXTENDS Integers, Sequences, SequencesExt, FiniteSets, FiniteSetsExt

CONSTANTS GoalWords,   \* the words of the goal
          Deed,        \* what agents do: words, kind, echoes, lost
          Sight,       \* the words of what may be observed
          Hours,       \* ages of a context, even
          MaxPacket,   \* observations in a packet (5)
          MaxSeen      \* the bound on actions and on observations

VARIABLES acted,   \* the actions in the caller's list: deed, at
          sighted, \* the observations: words, at
          packet,  \* the observations of the last recovery
          adrift   \* why it was asked for: the drift last found

driftVars == <<acted, sighted, packet, adrift>>

ASSUME DriftAssumption ==
  /\ GoalWords # {} /\ IsFiniteSet(GoalWords)
  /\ \A d \in Deed : IsFiniteSet(d.words)
  /\ MaxPacket \in Nat \ {0} /\ MaxSeen \in Nat

-----------------------------------------------------------------------------
(* detectContextDrift: .4 of the overlap, .3 of the type, .3 of the age.    *)

\* By the type: one known as safe, one known to drift, one in neither list and
\* with no word of the goal, and none.
typeScore(type) ==
  CASE type = "safe" -> 27 [] type = "drift" -> 3 [] type = "other" -> 15
    [] type = "none" -> 12

\* Half of its weight when the time of the context is not known.
NoTime == 15
recencyScore(hours) == Max({3, 30 - 3 * (hours \div 2)})

detectContextDrift(deed, recency) ==
  LET union == Cardinality(GoalWords \cup deed.words)
      shared == Cardinality(GoalWords \cap deed.words)
  IN  40 * shared + union * (typeScore(deed.kind) + recency) < 40 * union

\* The times are never given here, so an action of a safe type never counts.
trackDriftPattern ==
  LET drifting == {k \in DOMAIN acted : detectContextDrift(acted[k].deed, NoTime)}
  IN  2 * Cardinality(drifting) >= Len(acted) /\ Len(acted) >= 3

\* detectActionDrift: text in text first, a third of the goal's words, words of
\* somebody lost, hardly a word of the goal.  No text at all is in every text.
detectActionDrift(deed) ==
  LET shared == Cardinality(GoalWords \cap deed.words)
      words == Cardinality(GoalWords)
  IN  /\ ~deed.echoes /\ deed.words # {}
      /\ 10 * shared < 3 * words
      /\ deed.lost \/ 10 * shared < words

-----------------------------------------------------------------------------
(* reconstructMinimumCorrectiveContext.                                     *)

\* Those at some places of a sequence, the latest first; those of a time keep
\* their order.
LatestFirst(s, places) ==
  LET Before(k) == {j \in places : \/ s[j].at > s[k].at
                                   \/ s[j].at = s[k].at /\ j < k}
  IN  [n \in 1..Cardinality(places) |->
         s[CHOOSE k \in places : Cardinality(Before(k)) = n - 1]]

FirstOf(s, n) == SubSeq(s, 1, Min({n, Len(s)}))

relatesToGoal(words) ==
  words # {} /\ 2 * Cardinality(GoalWords \cap words) >= Cardinality(GoalWords)

\* One of each in turn, until both are used up.
Blended(s, t) ==
  LET both == Min({Len(s), Len(t)})
      Pair(n) == (n + 1) \div 2
  IN  [n \in 1..(Len(s) + Len(t)) |->
         IF n > 2 * both THEN IF Len(s) > both THEN s[n - both] ELSE t[n - both]
         ELSE IF n = 2 * Pair(n) THEN t[Pair(n)] ELSE s[Pair(n)]]

\* With fewer than two observations about the goal the latest actions fill in;
\* they are sorted where they are, in the caller's list.
reconstruct ==
  LET about == {k \in DOMAIN sighted : relatesToGoal(sighted[k].words)}
      relevant == FirstOf(LatestFirst(sighted, about), MaxPacket)
      sorted == LatestFirst(acted, DOMAIN acted)
      recent == FirstOf(sorted, Max({1, MaxPacket - Len(relevant)}))
  IN  IF Len(relevant) < 2 /\ acted # <<>>
      THEN /\ packet' = FirstOf(Blended(relevant, recent), MaxPacket)
           /\ acted' = sorted
      ELSE packet' = relevant /\ UNCHANGED acted

-----------------------------------------------------------------------------
(* The agent, and whoever watches it.                                       *)

Seen == Len(acted) + Len(sighted)

Perform(deed) ==
  /\ Seen < MaxSeen
  /\ acted' = Append(acted, [deed |-> deed, at |-> Seen])
  /\ UNCHANGED <<sighted, packet, adrift>>

Sees(words) ==
  /\ Seen < MaxSeen
  /\ sighted' = Append(sighted, [words |-> words, at |-> Seen])
  /\ UNCHANGED <<acted, packet, adrift>>

\* By whichever of the three the caller asks.
Watch ==
  /\ acted # <<>>
  /\ adrift' \in {trackDriftPattern, detectActionDrift(Last(acted).deed)}
       \cup {detectContextDrift(Last(acted).deed, recencyScore(h)) : h \in Hours}
  /\ UNCHANGED <<acted, sighted, packet>>

\* A packet wants a reason.
Recover == adrift /\ reconstruct /\ UNCHANGED <<sighted, adrift>>

DriftInit == acted = <<>> /\ sighted = <<>> /\ packet = <<>> /\ adrift = FALSE

DriftNext ==
  \/ \E d \in Deed : Perform(d)
  \/ \E w \in Sight : Sees(w)
  \/ Watch \/ Recover

DriftSpec == DriftInit /\ [][DriftNext]_driftVars

-----------------------------------------------------------------------------
\* A packet is within its size, of things that were seen and none of them twice,
\* with no observation that has nothing to do with the goal; sorting loses none
\* of the caller's actions; and an action of a safe type never makes a pattern.
DriftTypeOK ==
  /\ Len(packet) <= MaxPacket /\ adrift \in BOOLEAN /\ Seen <= MaxSeen
  /\ Range(packet) \subseteq Range(acted) \cup
       {o \in Range(sighted) : relatesToGoal(o.words)}
  /\ Cardinality(Range(packet)) = Len(packet)
  /\ Cardinality({e.at : e \in Range(acted) \cup Range(sighted)}) = Seen
  /\ (\A a \in Range(acted) : a.deed.kind = "safe") => ~trackDriftPattern
=============================================================================
