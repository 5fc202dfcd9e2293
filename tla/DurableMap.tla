---------------------------- MODULE DurableMap ----------------------------
(***************************************************************************)
(* What the durable store promises: a map from keys to documents, with one *)
(* remembered document per key.  A put is in the map at once and may be    *)
(* remembered after that; a key can lose its document; and only a key that *)
(* has lost it gets one back, the one that is remembered.                  *)
(***************************************************************************)
CONSTANTS Key, Doc, Absent

VARIABLES
  map,      \* what a reader gets
  memo,     \* what a recovery would give back
  pending   \* puts that may still be remembered

vars == <<map, memo, pending>>

Content == [Key -> Doc \cup {Absent}]

Init == map \in Content /\ memo \in Content /\ pending = {}

Put(k, d) ==
  /\ map' = [map EXCEPT ![k] = d]
  /\ pending' = pending \cup {<<k, d>>}
  /\ UNCHANGED memo

Remember(k, d) ==
  /\ <<k, d>> \in pending
  /\ memo' = [memo EXCEPT ![k] = d]
  /\ pending' \in {pending, pending \ {<<k, d>>}}
  /\ UNCHANGED map

\* The promise to remember is dropped: the writer failed, or its entry was lost.
GiveUp == pending' \in SUBSET pending /\ UNCHANGED <<map, memo>>

Lose(k) == map' = [map EXCEPT ![k] = Absent] /\ UNCHANGED <<memo, pending>>

\* All memos go at once, and perhaps some that were to come.
Forget ==
  /\ memo' = [k \in Key |-> Absent]
  /\ pending' \in SUBSET pending
  /\ UNCHANGED map

Restore(k) ==
  /\ map[k] = Absent
  /\ memo[k] # Absent
  /\ map' = [map EXCEPT ![k] = memo[k]]
  /\ UNCHANGED <<memo, pending>>

Next ==
  \/ \E k \in Key : Lose(k) \/ Restore(k) \/ \E d \in Doc : Put(k, d) \/ Remember(k, d)
  \/ GiveUp \/ Forget

Spec == Init /\ [][Next]_vars
=============================================================================
