------------------------------ MODULE LoopDetector ------------------------------
(***************************************************************************)
(* The detector of an agent that asks, decides or approves the same thing  *)
(* over and over.                                                          *)
(* Code: src/src/context/context-loop-prevention.js and the identity of a  *)
(* strategy, src/src/execution/strategy-identity.js.                       *)
(*                                                                         *)
(* A fingerprint is a kind and a thing; two things with the same hash are  *)
(* not told apart by the code and are not modelled.  The clock never goes  *)
(* back.                                                                   *)
(***************************************************************************)
EXTENDS Naturals, Sequences, SequencesExt, FiniteSets, FiniteSetsExt

CONSTANTS Thing,          \* what is asked or decided
          Strategy,       \* the strategies approved: steps, stamp
          minOccurrences, \* repetitions that make a loop (3)
          windowMs,       \* how long they count
          maxUniqueItems, \* fingerprints kept
          maxEvents,      \* events kept
          MaxRecords,     \* the bound on records
          MaxNow,         \* the bound on the clock
          NoLoop          \* nothing detected

VARIABLES now,
          recorded,   \* the fingerprints recorded, the latest last
          occurrence, \* the index, in the order its keys entered
          approved,   \* the strategies approved, oldest first
          detection,  \* what the last call returned
          records,    \* how many calls recorded
          repeats     \* how often each was recorded since the last reset

loopVars == <<now, recorded, occurrence, approved, detection, records, repeats>>

Kind == {"query", "dec"}
Fingerprint == (Kind \cup {"seq"}) \X Thing

ASSUME LoopAssumption ==
  /\ minOccurrences \in Nat \ {0} /\ maxUniqueItems \in Nat \ {0, 1} /\ maxEvents \in Nat \ {0}
  /\ MaxRecords \in Nat

-----------------------------------------------------------------------------
Times(index, fp) ==
  LET places == {k \in DOMAIN index : index[k].fp = fp}
  IN  IF places = {} THEN <<>> ELSE index[Min(places)].times

\* Keys are in the order of their first occurrence, which is that of the sort:
\* the older half goes, however often its keys come back.
Entered(fp) ==
  LET grown == IF \E k \in DOMAIN occurrence : occurrence[k].fp = fp
               THEN [k \in DOMAIN occurrence |->
                       IF occurrence[k].fp = fp
                       THEN [occurrence[k] EXCEPT !.times = Append(@, now)]
                       ELSE occurrence[k]]
               ELSE Append(occurrence, [fp |-> fp, times |-> <<now>>])
  IN  IF Len(grown) > maxUniqueItems
      THEN SubSeq(grown, maxUniqueItems \div 2 + 1, Len(grown))
      ELSE grown

record(fp) ==
  /\ records < MaxRecords /\ records' = records + 1
  /\ LET longer == Append(recorded, fp)
     IN  recorded' = SubSeq(longer, IF Len(longer) > maxEvents THEN 2 ELSE 1, Len(longer))
  /\ occurrence' = Entered(fp)
  /\ repeats' = [repeats EXCEPT ![fp] = @ + 1]

\* What check finds in an index: NoLoop, or how often within the window.
check(index, fp) ==
  LET times == Times(index, fp)
      recent == Cardinality({k \in DOMAIN times : times[k] + windowMs >= now})
  IN  IF recent < minOccurrences THEN NoLoop ELSE recent

recordQuery(q) ==
  /\ record(<<"query", q>>)
  /\ detection' = check(occurrence', <<"query", q>>)
  /\ UNCHANGED <<now, approved>>

\* It is recorded as a decision and looked up as a sequence.
recordDecisionSequence(d) ==
  /\ record(<<"dec", d>>)
  /\ detection' = check(occurrence', <<"seq", d>>)
  /\ UNCHANGED <<now, approved>>

\* The fingerprints that check reports, by how often (the maximum is kept).
checkAll ==
  /\ LET loops == {k \in DOMAIN occurrence : check(occurrence, occurrence[k].fp) # NoLoop}
     IN  detection' = IF loops = {} THEN NoLoop
                      ELSE Max({check(occurrence, occurrence[k].fp) : k \in loops})
  /\ UNCHANGED <<now, recorded, occurrence, approved, records, repeats>>

reset ==
  /\ recorded' = <<>> /\ occurrence' = <<>> /\ repeats' = [fp \in Fingerprint |-> 0] /\ detection' = NoLoop
  /\ UNCHANGED <<now, approved, records>>

\* The times of a strategy count for nothing, and neither does the order of its
\* steps: canonicalizeValue sorts every array.  What is not an object has no hash.
hashStrategy(strategy) == IF strategy.steps = <<>> THEN NoLoop ELSE Range(strategy.steps)

detectStrategyRepetition(strategies) ==
  LET Count(h) == Cardinality({k \in DOMAIN strategies : hashStrategy(strategies[k]) = h})
      hashes == {hashStrategy(p) : p \in Range(strategies)} \ {NoLoop}
      most == IF hashes = {} THEN 0 ELSE Max({Count(h) : h \in hashes})
  IN  IF most >= minOccurrences THEN most ELSE NoLoop

Approve(strategy) ==
  /\ records < MaxRecords /\ records' = records + 1
  /\ approved' = Append(approved, strategy)
  /\ detection' = detectStrategyRepetition(approved')
  /\ UNCHANGED <<now, recorded, occurrence, repeats>>

Tick ==
  /\ now < MaxNow /\ now' = now + 1
  /\ UNCHANGED <<recorded, occurrence, approved, detection, records, repeats>>

LoopInit ==
  /\ now = 0 /\ recorded = <<>> /\ occurrence = <<>> /\ approved = <<>>
  /\ detection = NoLoop /\ records = 0 /\ repeats = [fp \in Fingerprint |-> 0]

LoopNext ==
  \/ \E t \in Thing : recordQuery(t) \/ recordDecisionSequence(t)
  \/ checkAll \/ reset \/ Tick
  \/ \E p \in Strategy : Approve(p)

LoopSpec == LoopInit /\ [][LoopNext]_loopVars

-----------------------------------------------------------------------------
\* The index never holds more than its limit and never the same key twice, its
\* times are those of records made since the last reset, and in their order:
\* whatever is reported was repeated.
LoopTypeOK ==
  /\ Len(recorded) <= maxEvents /\ Len(occurrence) <= maxUniqueItems
  /\ \A j, k \in DOMAIN occurrence : occurrence[j].fp = occurrence[k].fp => j = k
  /\ \A k \in DOMAIN occurrence :
       /\ occurrence[k].fp \in Fingerprint
       /\ Len(occurrence[k].times) <= repeats[occurrence[k].fp]
       /\ \A i, j \in DOMAIN occurrence[k].times :
            i < j => occurrence[k].times[i] <= occurrence[k].times[j]
  /\ detection \in {NoLoop} \cup minOccurrences..MaxRecords
=============================================================================
