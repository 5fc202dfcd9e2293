-------------------------- MODULE StateStoreProofs --------------------------
(***************************************************************************)
(* The durable store keeps its types and what it acknowledged, completes   *)
(* its recovery and implements the durable map, for any number of keys,    *)
(* documents, writers and readers, whatever is retained, compacted or      *)
(* torn.                                                                   *)
(*                                                                         *)
(* AckedIsKept is not inductive: an acknowledged file is removed by a      *)
(* reader, or by a collection, that has found it bad before.  Removal adds *)
(* that only a key somebody damaged has a bad file or is about to be       *)
(* quarantined, and that a write has put its document until it returns.    *)
(***************************************************************************)
EXTENDS StateStore, TLAPS, WellFoundedInduction, SequenceTheorems

Past == {"open", "append", "appendRenamed", "return"}

\* Only what was damaged is bad, or about to be removed as bad.
Removal ==
  /\ \A k \in Key : file[k] = Bad => k \in touched
  /\ \A r \in Reader : reader[r] # NoKey => reader[r] \in touched
  /\ gc # Idle /\ gc.pc = "snapshot" /\ gc.victim # NoKey => gc.victim \in touched

\* A write that has renamed its file has put a document of its key.
Written ==
  \A w \in Writer :
    writer[w] # Idle /\ writer[w].pc \in Past /\ writer[w].key \notin touched
      => file[writer[w].key] \in Doc

\* A recovery restores documents.
Replaying ==
  recovery # Idle =>
    /\ \A k \in recovery.todo : recovery.final[k] \in Doc
    /\ recovery.absent # NoKey => recovery.absent \in recovery.todo

Inv == TypeOK /\ AckedIsKept /\ Removal /\ Written /\ Replaying

-----------------------------------------------------------------------------
(* The journal *)

\* A set of line numbers that is not empty has a last one.
LEMMA LastIndex ==
  ASSUME NEW n \in Nat, NEW S \in SUBSET (1 .. n), S # {}
  PROVE  \E i \in S : \A j \in S : j <= i
<1> DEFINE T == {n - i : i \in S}
<1>1. T \subseteq Nat /\ T # {}
  <2>1. PICK i \in S : TRUE
    OBVIOUS
  <2>2. n - i \in T
    BY <2>1
  <2>3. \A j \in S : j \in Nat /\ j <= n
    OBVIOUS
  <2>4. \A j \in S : n - j \in Nat
    BY <2>3
  <2>5. T \subseteq Nat
    BY <2>4
  <2> QED
    BY <2>2, <2>5
<1> HIDE DEF T
<1>2. PICK m \in T : \A o \in T : ~ (<<o, m>> \in OpToRel(<, Nat))
  BY <1>1, WFMin, NatLessThanWellFounded
<1>3. PICK i \in S : m = n - i
  BY <1>2 DEF T
<1>4. ASSUME NEW j \in S PROVE j <= i
  <2>1. n - j \in T
    BY DEF T
  <2>2. ~ (n - j < m)
    BY <2>1, <1>1, <1>2 DEF OpToRel
  <2> QED
    BY <2>2, <1>3
<1> QED
  BY <1>4

\* A replay gives every key a document of the journal, or none.
LEMMA ReplayedType ==
  ASSUME NEW lines \in Seq(Line)
  PROVE  Replayed(lines) \in [Key -> Doc \cup {Missing}]
<1> SUFFICES ASSUME NEW k \in Key, EntriesOf(lines, k) # {}
             PROVE  lines[CHOOSE i \in EntriesOf(lines, k) :
                            \A j \in EntriesOf(lines, k) : j <= i].doc \in Doc
  BY DEF Replayed
<1> DEFINE mine == EntriesOf(lines, k)
           last == CHOOSE i \in mine : \A j \in mine : j <= i
<1>1. mine \in SUBSET (1 .. Len(lines)) /\ \A i \in mine : lines[i] \in Entry
  BY DEF EntriesOf, Good
<1>2. Len(lines) \in Nat
  OBVIOUS
<1> HIDE DEF mine
<1>3. last \in mine
  BY <1>1, <1>2, LastIndex DEF mine
<1> QED
  BY <1>1, <1>3 DEF Entry, mine

\* Appends, whole or torn, make journals.
LEMMA AppendedType ==
  ASSUME NEW lines \in Seq(Line), NEW entry \in Entry
  PROVE  Appended(lines, entry) \in Seq(Line)
<1>1. CASE EndsTorn(lines)
  <2>1. Len(lines) \in 1 .. Len(lines)
    BY <1>1, EmptySeq DEF EndsTorn
  <2> QED
    BY <1>1, <2>1, ExceptSeq DEF Appended, Line
<1>2. CASE ~EndsTorn(lines)
  BY <1>2 DEF Appended, Line
<1> QED
  BY <1>1, <1>2

LEMMA TearedType ==
  ASSUME NEW lines \in Seq(Line)
  PROVE  Teared(lines) \in Seq(Line)
BY DEF Teared, Line

-----------------------------------------------------------------------------
(* The invariant *)

LEMMA InvInit == Init => Inv
<1> SUFFICES ASSUME Init PROVE Inv
  OBVIOUS
<1>1. TypeOK
  BY EmptySeq DEF Init, TypeOK
<1>2. AckedIsKept /\ Written /\ Replaying
  BY DEF Init, AckedIsKept, Written, Replaying
<1>3. Removal
  BY ValuesAssumption DEF Init, Removal
<1> QED
  BY <1>1, <1>2, <1>3 DEF Inv

\* A write that moves on after its rename leaves its document where it is.
LEMMA WrittenAdvances ==
  ASSUME TypeOK, Written, NEW w \in Writer, writer[w] \in WriteCall, writer[w] # Idle,
         writer[w].pc \in Past, NEW pc, writer' = [writer EXCEPT ![w].pc = pc],
         file' = file, touched' = touched
  PROVE  Written'
<1> SUFFICES ASSUME NEW v \in Writer, writer'[v] # Idle, writer'[v].pc \in Past,
                    writer'[v].key \notin touched'
             PROVE  file'[writer'[v].key] \in Doc
  BY DEF Written
<1>1. CASE v = w
  <2>1. writer'[v].key = writer[w].key
    BY <1>1 DEF TypeOK, WriteCall
  <2> QED
    BY <2>1 DEF Written
<1>2. CASE v # w
  BY <1>2 DEF TypeOK, Written
<1> QED
  BY <1>1, <1>2

LEMMA WriteInv ==
  ASSUME Inv, Write
  PROVE  Inv'
<1> USE DEF Inv
<1>1. PICK w \in Writer :
        \/ \E k \in Key, d \in Doc : BeginWrite(w, k, d)
        \/ PutState(w) \/ OpenJournal(w) \/ AppendLine(w) \/ ReturnOk(w) \/ WriteFails(w)
  BY DEF Write
<1>2. ASSUME NEW k \in Key, NEW d \in Doc, BeginWrite(w, k, d) PROVE Inv'
  <2>1. TypeOK'
    BY <1>2 DEF BeginWrite, TypeOK, WriteCall
  <2>2. Written'
    <3> SUFFICES ASSUME NEW v \in Writer, writer'[v] # Idle, writer'[v].pc \in Past,
                        writer'[v].key \notin touched'
                 PROVE  file'[writer'[v].key] \in Doc
      BY DEF Written
    <3>1. v # w
      BY <1>2 DEF BeginWrite, TypeOK, Past
    <3> QED
      BY <1>2, <3>1 DEF BeginWrite, TypeOK, Written
  <2>3. AckedIsKept' /\ Removal' /\ Replaying'
    BY <1>2 DEF BeginWrite, AckedIsKept, Removal, Replaying
  <2> QED
    BY <2>1, <2>2, <2>3
<1>3. CASE PutState(w)
  <2>1. writer[w] \in WriteCall
    BY <1>3 DEF PutState, At, TypeOK
  <2>2. TypeOK'
    BY <1>3, <2>1 DEF PutState, TypeOK, WriteCall
  <2>3. \A k \in Key : file'[k] = file[k] \/ file'[k] \in Doc
    BY <1>3, <2>1 DEF PutState, TypeOK, WriteCall
  <2>4. file'[writer[w].key] \in Doc
    BY <1>3, <2>1 DEF PutState, TypeOK, WriteCall
  <2>5. Written'
    <3> SUFFICES ASSUME NEW v \in Writer, writer'[v] # Idle, writer'[v].pc \in Past,
                        writer'[v].key \notin touched'
                 PROVE  file'[writer'[v].key] \in Doc
      BY DEF Written
    <3>1. CASE v = w
      BY <1>3, <2>1, <2>4, <3>1 DEF PutState, TypeOK, WriteCall
    <3>2. CASE v # w
      <4>1. writer'[v] = writer[v] /\ touched' = touched
        BY <1>3, <3>2 DEF PutState, TypeOK
      <4>2. writer[v].key \in Key
        BY <4>1 DEF TypeOK, WriteCall
      <4> QED
        BY <4>1, <4>2, <2>3 DEF Written
    <3> QED
      BY <3>1, <3>2
  <2>6. AckedIsKept'
    BY <1>3, <2>3 DEF PutState, AckedIsKept, TypeOK
  <2>7. Removal'
    BY <1>3, <2>3, ValuesAssumption DEF PutState, Removal, TypeOK
  <2>8. Replaying'
    BY <1>3 DEF PutState, Replaying
  <2> QED
    BY <2>2, <2>5, <2>6, <2>7, <2>8
<1>4. CASE OpenJournal(w)
  <2>1. writer[w] \in WriteCall /\ writer[w].pc = "open"
    BY <1>4 DEF OpenJournal, At, TypeOK
  <2>2. TypeOK'
    BY <1>4, <2>1 DEF OpenJournal, TypeOK, WriteCall
  <2>3. Written'
    BY <1>4, <2>1, WrittenAdvances DEF OpenJournal, At, Past
  <2>4. AckedIsKept' /\ Removal' /\ Replaying'
    BY <1>4 DEF OpenJournal, AckedIsKept, Removal, Replaying
  <2> QED
    BY <2>2, <2>3, <2>4
<1>5. CASE AppendLine(w)
  <2>1. writer[w] \in WriteCall /\ writer[w].pc \in Past
    BY <1>5 DEF AppendLine, At, TypeOK, Past
  <2>2. journal' \in Seq(Line)
    <3>1. [key |-> writer[w].key, doc |-> writer[w].doc] \in Entry
      BY <2>1 DEF WriteCall, Entry
    <3> QED
      BY <1>5, <3>1, AppendedType DEF AppendLine, TypeOK
  <2>3. TypeOK'
    BY <1>5, <2>1, <2>2 DEF AppendLine, TypeOK, WriteCall
  <2>4. Written'
    BY <1>5, <2>1, WrittenAdvances DEF AppendLine, At
  <2>5. AckedIsKept' /\ Removal' /\ Replaying'
    BY <1>5 DEF AppendLine, AckedIsKept, Removal, Replaying
  <2> QED
    BY <2>3, <2>4, <2>5
<1>6. CASE ReturnOk(w)
  <2>1. writer[w] \in WriteCall /\ writer[w].pc \in Past
    BY <1>6 DEF ReturnOk, At, TypeOK, Past
  <2>2. TypeOK'
    BY <1>6, <2>1 DEF ReturnOk, TypeOK, WriteCall
  <2>3. AckedIsKept'
    BY <1>6, <2>1 DEF ReturnOk, At, AckedIsKept, Written, WriteCall
  <2>4. Written'
    BY <1>6 DEF ReturnOk, TypeOK, Written
  <2>5. Removal' /\ Replaying'
    BY <1>6 DEF ReturnOk, Removal, Replaying
  <2> QED
    BY <2>2, <2>3, <2>4, <2>5
<1>7. CASE WriteFails(w)
  <2>1. TypeOK'
    BY <1>7, TearedType DEF WriteFails, TypeOK
  <2>2. Written'
    BY <1>7 DEF WriteFails, TypeOK, Written
  <2>3. AckedIsKept' /\ Removal' /\ Replaying'
    BY <1>7 DEF WriteFails, AckedIsKept, Removal, Replaying
  <2> QED
    BY <2>1, <2>2, <2>3
<1> QED
  BY <1>1, <1>2, <1>3, <1>4, <1>5, <1>6, <1>7

\* Removing a file of a damaged key, or damaging one, costs no other key.
LEMMA RemovalInv ==
  ASSUME Inv, NEW k \in Key, k \in touched', NEW f \in {Missing, Bad},
         file' = [file EXCEPT ![k] = f],
         touched' = touched \cup {k}, acked' = acked, writer' = writer
  PROVE  AckedIsKept' /\ Written' /\ \A j \in Key : file'[j] = Bad => j \in touched'
<1> USE DEF Inv
<1>1. \A j \in Key : j # k => file'[j] = file[j]
  BY DEF TypeOK
<1>2. AckedIsKept'
  BY <1>1 DEF AckedIsKept, TypeOK
<1>3. Written'
  <2> SUFFICES ASSUME NEW v \in Writer, writer[v] # Idle, writer[v].pc \in Past,
                      writer[v].key \notin touched'
               PROVE  file'[writer[v].key] \in Doc
    BY DEF Written
  <2>1. writer[v].key \in Key \ {k}
    BY DEF TypeOK, WriteCall
  <2> QED
    BY <2>1, <1>1 DEF Written
<1>4. \A j \in Key : file'[j] = Bad => j \in touched'
  BY <1>1 DEF Removal
<1> QED
  BY <1>2, <1>3, <1>4

LEMMA ReadInv ==
  ASSUME Inv, Read
  PROVE  Inv'
<1> USE DEF Inv
<1>1. PICK r \in Reader : Quarantine(r) \/ \E k \in Key : ReadBad(r, k)
  BY DEF Read
<1>2. CASE Quarantine(r)
  <2>1. reader[r] \in Key /\ reader[r] \in touched
    BY <1>2 DEF Quarantine, TypeOK, Removal
  <2>2. TypeOK'
    BY <1>2, <2>1 DEF Quarantine, TypeOK
  <2>3. touched' = touched \cup {reader[r]}
    BY <1>2, <2>1 DEF Quarantine
  <2>4. AckedIsKept' /\ Written' /\ \A j \in Key : file'[j] = Bad => j \in touched'
    BY <1>2, <2>1, <2>3, RemovalInv DEF Quarantine
  <2>5. Removal'
    BY <1>2, <2>4 DEF Quarantine, Removal, TypeOK
  <2>6. Replaying'
    BY <1>2 DEF Quarantine, Replaying
  <2> QED
    BY <2>2, <2>4, <2>5, <2>6
<1>3. ASSUME NEW k \in Key, ReadBad(r, k) PROVE Inv'
  <2>1. TypeOK'
    BY <1>3 DEF ReadBad, TypeOK
  <2>2. Removal'
    BY <1>3 DEF ReadBad, Removal, TypeOK
  <2>3. AckedIsKept' /\ Written' /\ Replaying'
    BY <1>3 DEF ReadBad, AckedIsKept, Written, Replaying
  <2> QED
    BY <2>1, <2>2, <2>3
<1> QED
  BY <1>1, <1>2, <1>3

LEMMA EvictingType == Evicting \in Collection \cup {Idle}
BY DEF Evicting, Collection

LEMMA CollectInv ==
  ASSUME Inv, Collect
  PROVE  Inv'
<1> USE DEF Inv
<1>1. CASE BeginGc
  <2>1. gc' \in Collection \cup {Idle}
    BY <1>1, EvictingType DEF BeginGc, Collection
  <2>2. TypeOK'
    BY <1>1, <2>1 DEF BeginGc, TypeOK
  <2>3. Removal'
    BY <1>1 DEF BeginGc, Evicting, Removal
  <2>4. AckedIsKept' /\ Written' /\ Replaying'
    BY <1>1 DEF BeginGc, AckedIsKept, Written, Replaying
  <2> QED
    BY <2>2, <2>3, <2>4
<1>2. ASSUME NEW k \in Key, GcKeeps(k) PROVE Inv'
  <2>1. gc \in Collection
    BY <1>2 DEF GcKeeps, TypeOK
  <2>2. TypeOK'
    BY <1>2, <2>1 DEF GcKeeps, TypeOK, Collection
  <2>3. Removal'
    BY <1>2, <2>1 DEF GcKeeps, Removal, Collection
  <2>4. AckedIsKept' /\ Written' /\ Replaying'
    BY <1>2 DEF GcKeeps, AckedIsKept, Written, Replaying
  <2> QED
    BY <2>2, <2>3, <2>4
<1>3. ASSUME NEW k \in Key, GcCondemns(k) PROVE Inv'
  <2>1. gc \in Collection
    BY <1>3 DEF GcCondemns, TypeOK
  <2>2. TypeOK'
    BY <1>3, <2>1 DEF GcCondemns, TypeOK, Collection
  <2>3. Removal'
    BY <1>3, <2>1 DEF GcCondemns, ToRemove, Removal, Collection
  <2>4. AckedIsKept' /\ Written' /\ Replaying'
    BY <1>3 DEF GcCondemns, AckedIsKept, Written, Replaying
  <2> QED
    BY <2>2, <2>3, <2>4
<1>4. CASE GcRemoves
  <2>1. gc \in Collection /\ gc.victim \in Key
    BY <1>4 DEF GcRemoves, TypeOK, Collection
  <2>2. TypeOK'
    BY <1>4, <2>1 DEF GcRemoves, TypeOK, Collection
  <2>3. touched' = touched \cup {gc.victim}
    BY <1>4, <2>1 DEF GcRemoves, Removal, Collection
  <2>4. AckedIsKept' /\ Written' /\ \A j \in Key : file'[j] = Bad => j \in touched'
    BY <1>4, <2>1, <2>3, RemovalInv DEF GcRemoves
  <2>5. Removal'
    BY <1>4, <2>1, <2>3, <2>4 DEF GcRemoves, Removal, Collection
  <2>6. Replaying'
    BY <1>4 DEF GcRemoves, Replaying
  <2> QED
    BY <2>2, <2>4, <2>5, <2>6
<1>5. CASE Truncate
  <2>1. \A v \in Writer :
          \/ writer'[v] = writer[v]
          \/ /\ At(v, "append")
             /\ writer'[v] = [writer[v] EXCEPT !.pc = "appendRenamed"]
    BY <1>5 DEF Truncate
  <2>2. \A v \in Writer : At(v, "append") => writer[v] \in WriteCall
    BY DEF At, TypeOK
  <2>3. writer' \in [Writer -> WriteCall \cup {Idle}]
    <3>1. ASSUME NEW v \in Writer PROVE writer'[v] \in WriteCall \cup {Idle}
      <4>1. writer[v] \in WriteCall \cup {Idle}
        BY DEF TypeOK
      <4>2. CASE At(v, "append") /\ writer'[v] = [writer[v] EXCEPT !.pc = "appendRenamed"]
        BY <2>2, <4>2 DEF WriteCall
      <4> QED
        BY <2>1, <4>1, <4>2
    <3> QED
      BY <1>5, <3>1 DEF Truncate
  <2>4. TypeOK'
    BY <1>5, <2>3, EvictingType, EmptySeq DEF Truncate, TypeOK
  <2>5. Written'
    BY <1>5, <2>1, <2>2 DEF Truncate, Written, At, Past, WriteCall
  <2>6. Removal'
    BY <1>5 DEF Truncate, Evicting, Removal
  <2>7. AckedIsKept' /\ Replaying'
    BY <1>5 DEF Truncate, AckedIsKept, Replaying
  <2> QED
    BY <2>4, <2>5, <2>6, <2>7
<1>6. CASE EndGc
  BY <1>6 DEF EndGc, TypeOK, AckedIsKept, Removal, Written, Replaying
<1> QED
  BY <1>1, <1>2, <1>3, <1>4, <1>5, <1>6 DEF Collect

LEMMA RecoverInv ==
  ASSUME Inv, Recover
  PROVE  Inv'
<1> USE DEF Inv
<1>1. CASE BeginRecover
  <2> DEFINE final == Replayed(journal)
             todo == {k \in Key : final[k] # Missing}
  <2>1. final \in [Key -> Doc \cup {Missing}]
    BY ReplayedType DEF TypeOK
  <2>2. recovery' = [final |-> final, absent |-> NoKey, todo |-> todo]
    BY <1>1 DEF BeginRecover
  <2> HIDE DEF final
  <2>3. TypeOK'
    BY <1>1, <2>1, <2>2 DEF BeginRecover, TypeOK, Recovery
  <2>4. Replaying'
    BY <2>1, <2>2 DEF Replaying
  <2>5. AckedIsKept' /\ Removal' /\ Written'
    BY <1>1 DEF BeginRecover, AckedIsKept, Removal, Written
  <2> QED
    BY <2>3, <2>4, <2>5
<1>2. ASSUME NEW k \in Key, StatFile(k) PROVE Inv'
  <2>1. recovery \in Recovery
    BY <1>2 DEF StatFile, TypeOK
  <2>2. TypeOK'
    BY <1>2, <2>1 DEF StatFile, TypeOK, Recovery
  <2>3. Replaying'
    BY <1>2, <2>1 DEF StatFile, Replaying, Recovery
  <2>4. AckedIsKept' /\ Removal' /\ Written'
    BY <1>2 DEF StatFile, AckedIsKept, Removal, Written
  <2> QED
    BY <2>2, <2>3, <2>4
<1>3. CASE RestoreFile
  <2>1. /\ recovery \in Recovery /\ recovery.absent \in Key
        /\ recovery.final[recovery.absent] \in Doc
    BY <1>3 DEF RestoreFile, TypeOK, Recovery, Replaying
  <2>2. TypeOK'
    BY <1>3, <2>1 DEF RestoreFile, TypeOK, Recovery
  <2>3. \A k \in Key : file'[k] = file[k] \/ file'[k] \in Doc
    BY <1>3, <2>1 DEF RestoreFile, TypeOK
  <2>4. AckedIsKept'
    BY <1>3, <2>3 DEF RestoreFile, AckedIsKept, TypeOK
  <2>5. Removal'
    BY <1>3, <2>3, ValuesAssumption DEF RestoreFile, Removal
  <2>6. Written'
    <3>1. \A v \in Writer : writer[v] # Idle => writer[v].key \in Key
      BY DEF TypeOK, WriteCall
    <3> QED
      BY <1>3, <2>3, <3>1 DEF RestoreFile, Written
  <2>7. Replaying'
    BY <1>3, <2>1 DEF RestoreFile, Replaying, Recovery
  <2> QED
    BY <2>2, <2>4, <2>5, <2>6, <2>7
<1>4. CASE EndRecover
  BY <1>4 DEF EndRecover, TypeOK, AckedIsKept, Removal, Written, Replaying
<1> QED
  BY <1>1, <1>2, <1>3, <1>4 DEF Recover

LEMMA CrashInv ==
  ASSUME Inv, Crash
  PROVE  Inv'
<1> USE DEF Inv
<1>1. TypeOK'
  BY TearedType DEF Crash, TypeOK
<1>2. AckedIsKept'
  BY DEF Crash, AckedIsKept
<1>3. Removal'
  BY DEF Crash, Removal
<1>4. Written' /\ Replaying'
  BY DEF Crash, Written, Replaying
<1> QED
  BY <1>1, <1>2, <1>3, <1>4

LEMMA DamageInv ==
  ASSUME Inv, NEW k \in Key, Damage(k)
  PROVE  Inv'
<1> USE DEF Inv
<1>1. PICK f \in {Missing, Bad} : file' = [file EXCEPT ![k] = f]
  BY DEF Damage
<1>2. TypeOK'
  BY <1>1 DEF Damage, TypeOK
<1>3. AckedIsKept' /\ Written' /\ \A j \in Key : file'[j] = Bad => j \in touched'
  BY <1>1, RemovalInv DEF Damage
<1>4. Removal'
  BY <1>3 DEF Damage, Removal
<1>5. Replaying'
  BY DEF Damage, Replaying
<1> QED
  BY <1>2, <1>3, <1>4, <1>5

LEMMA InvNext == Inv /\ [Next]_vars => Inv'
<1> SUFFICES ASSUME Inv, [Next]_vars PROVE Inv'
  OBVIOUS
<1>1. CASE UNCHANGED vars
  BY <1>1 DEF vars, Inv, TypeOK, AckedIsKept, Removal, Written, Replaying
<1> QED
  BY <1>1, WriteInv, ReadInv, CollectInv, RecoverInv, CrashInv, DamageInv DEF Next

\* The invariant holds in every reachable state.
THEOREM Invariance == Spec => []Inv
BY InvInit, InvNext, PTL DEF Spec

\* Every variable keeps its type.
THEOREM StoreTypeCorrect == Spec => []TypeOK
<1>1. Inv => TypeOK
  BY DEF Inv
<1> QED
  BY <1>1, Invariance, PTL

\* What a write acknowledged stays readable, whatever fails, crashes, is
\* collected or recovered, unless its key was damaged or evicted.
THEOREM AlwaysKept == Spec => []AckedIsKept
<1>1. Inv => AckedIsKept
  BY DEF Inv
<1> QED
  BY <1>1, Invariance, PTL

-----------------------------------------------------------------------------
(* What a replay reads of a journal that grew                              *)

\* Lines that are no entries do not matter to a replay.
LEMMA ReplayedSame ==
  ASSUME NEW lines \in Seq(Line), NEW more \in Seq(Line), Good(more) = Good(lines),
         \A i \in Good(lines) : more[i] = lines[i]
  PROVE  Replayed(more) = Replayed(lines)
<1>1. \A k \in Key : EntriesOf(more, k) = EntriesOf(lines, k)
  BY DEF EntriesOf
<1>2. ASSUME NEW k \in Key PROVE Replayed(more)[k] = Replayed(lines)[k]
  <2> DEFINE mine == EntriesOf(lines, k)
             last == CHOOSE i \in mine : \A j \in mine : j <= i
  <2>1. CASE mine = {}
    BY <1>1, <2>1 DEF Replayed
  <2>2. CASE mine # {}
    <3>1. mine \in SUBSET (1 .. Len(lines)) /\ Len(lines) \in Nat
      BY DEF EntriesOf, Good
    <3>2. \E i \in mine : \A j \in mine : j <= i
      BY <2>2, <3>1, LastIndex
    <3>3. last \in mine
      BY <3>2
    <3>4. last \in Good(lines)
      BY <3>3 DEF EntriesOf
    <3>5. Replayed(lines)[k] = lines[last].doc /\ Replayed(more)[k] = more[last].doc
      BY <1>1, <2>2 DEF Replayed
    <3> QED
      BY <3>4, <3>5
  <2> QED
    BY <2>1, <2>2
<1> QED
  BY <1>2 DEF Replayed

LEMMA ReplayedTeared ==
  ASSUME NEW lines \in Seq(Line)
  PROVE  Replayed(Teared(lines)) = Replayed(lines)
<1>1. CASE EndsTorn(lines)
  BY <1>1 DEF Teared
<1>2. CASE ~EndsTorn(lines)
  <2> DEFINE more == Append(lines, Torn)
  <2>1. /\ more \in Seq(Line) /\ Len(more) = Len(lines) + 1 /\ Len(lines) \in Nat
        /\ more[Len(more)] = Torn
        /\ \A i \in 1 .. Len(lines) : more[i] = lines[i]
    BY DEF Line
  <2> HIDE DEF more
  <2>2. Good(more) = Good(lines) /\ \A i \in Good(lines) : more[i] = lines[i]
    BY <2>1, ValuesAssumption DEF Good
  <2>3. Teared(lines) = more
    BY <1>2 DEF Teared, more
  <2> QED
    BY <2>1, <2>2, <2>3, ReplayedSame
<1> QED
  BY <1>1, <1>2

\* An append to a torn journal is lost with the partial line; any other is the
\* last entry of its key.
LEMMA ReplayedAppended ==
  ASSUME NEW lines \in Seq(Line), NEW entry \in Entry
  PROVE  \/ Replayed(Appended(lines, entry)) = Replayed(lines)
         \/ Replayed(Appended(lines, entry)) = [Replayed(lines) EXCEPT ![entry.key] = entry.doc]
<1>1. CASE EndsTorn(lines)
  <2> DEFINE more == [lines EXCEPT ![Len(lines)] = Corrupt]
  <2>1. Len(lines) \in 1 .. Len(lines) /\ lines[Len(lines)] = Torn
    BY <1>1, EmptySeq DEF EndsTorn
  <2>2. /\ more \in Seq(Line) /\ Len(more) = Len(lines) /\ more[Len(lines)] = Corrupt
        /\ \A i \in 1 .. Len(lines) : i # Len(lines) => more[i] = lines[i]
    BY <2>1, ExceptSeq DEF Line
  <2> HIDE DEF more
  <2>3. Good(more) = Good(lines) /\ \A i \in Good(lines) : more[i] = lines[i]
    BY <2>1, <2>2, ValuesAssumption DEF Good
  <2>4. Appended(lines, entry) = more
    BY <1>1 DEF Appended, more
  <2> QED
    BY <2>2, <2>3, <2>4, ReplayedSame
<1>2. CASE ~EndsTorn(lines)
  <2> DEFINE more == Append(lines, entry)
             n == Len(lines) + 1
             after == [Replayed(lines) EXCEPT ![entry.key] = entry.doc]
  <2>1. /\ more \in Seq(Line) /\ Len(more) = n /\ Len(lines) \in Nat /\ more[n] = entry
        /\ \A i \in 1 .. Len(lines) : more[i] = lines[i]
    BY DEF Line
  <2>2. entry.key \in Key
    BY DEF Entry
  <2> HIDE DEF more
  <2>3. Good(more) = Good(lines) \cup {n}
    BY <2>1 DEF Good
  <2>4. ASSUME NEW k \in Key, k # entry.key PROVE Replayed(more)[k] = Replayed(lines)[k]
    <3> DEFINE mine == EntriesOf(lines, k)
               last == CHOOSE i \in mine : \A j \in mine : j <= i
    <3>1. EntriesOf(more, k) = mine
      BY <2>1, <2>3, <2>4 DEF EntriesOf, Good
    <3>2. CASE mine = {}
      BY <3>1, <3>2 DEF Replayed
    <3>3. CASE mine # {}
      <4>1. mine \in SUBSET (1 .. Len(lines)) /\ Len(lines) \in Nat
        BY DEF EntriesOf, Good
      <4>2. \E i \in mine : \A j \in mine : j <= i
        BY <3>3, <4>1, LastIndex
      <4>3. last \in 1 .. Len(lines)
        BY <4>1, <4>2
      <4>4. Replayed(lines)[k] = lines[last].doc /\ Replayed(more)[k] = more[last].doc
        BY <3>1, <3>3 DEF Replayed
      <4> QED
        BY <2>1, <4>3, <4>4
    <3> QED
      BY <3>2, <3>3
  <2>5. Replayed(more)[entry.key] = entry.doc
    <3> DEFINE mine == EntriesOf(more, entry.key)
               last == CHOOSE i \in mine : \A j \in mine : j <= i
    <3>1. n \in mine /\ mine \subseteq 1 .. n
      BY <2>1, <2>3 DEF EntriesOf, Good
    <3>2. \A j \in mine : j <= n
      BY <2>1, <3>1
    <3>3. last \in mine /\ \A j \in mine : j <= last
      BY <3>1, <3>2
    <3>4. last = n
      BY <2>1, <3>1, <3>2, <3>3
    <3>5. Replayed(more)[entry.key] = more[last].doc
      BY <2>2, <3>1 DEF Replayed
    <3> QED
      BY <2>1, <3>4, <3>5
  <2>6. Replayed(more) = after
    <3>1. DOMAIN Replayed(more) = Key /\ DOMAIN Replayed(lines) = Key
      BY DEF Replayed
    <3>2. Replayed(more) = [k \in Key |-> Replayed(more)[k]]
      BY DEF Replayed
    <3>3. after = [k \in Key |-> after[k]]
      BY <3>1
    <3>4. \A k \in Key : after[k] = IF k = entry.key THEN entry.doc ELSE Replayed(lines)[k]
      BY <3>1
    <3> HIDE DEF after
    <3> QED
      BY <2>4, <2>5, <3>2, <3>3, <3>4
  <2> QED
    BY <1>2, <2>6 DEF Appended, more
<1> QED
  BY <1>1, <1>2

-----------------------------------------------------------------------------
(* The recovery                                                            *)

\* While a recovery runs nothing else does; it replays the journal as it is, and
\* has dealt with every key it has not still to look at.
Recovering ==
  recovery # Idle =>
    /\ Quiet
    /\ recovery.final = Replayed(journal)
    /\ \A k \in Key : Replayed(journal)[k] # Missing /\ file[k] = Missing
                        => k \in recovery.todo
    /\ recovery.absent # NoKey => file[recovery.absent] = Missing

LEMMA RecoveringNext == Inv /\ Recovering /\ [Next]_vars => Recovering'
<1> SUFFICES ASSUME Inv, Recovering, [Next]_vars, recovery' # Idle PROVE Recovering'
  BY DEF Recovering
<1> USE DEF Inv
<1>1. CASE recovery = Idle
  <2>1. BeginRecover
    BY <1>1 DEF Next, Write, Read, Collect, Recover, Crash, Damage, vars, BeginWrite,
       PutState, OpenJournal, AppendLine, ReturnOk, WriteFails, Quarantine, ReadBad,
       BeginGc, GcRemoves, Truncate, EndGc, GcKeeps, GcCondemns, StatFile, RestoreFile,
       EndRecover
  <2> DEFINE final == Replayed(journal)
             todo == {k \in Key : final[k] # Missing}
  <2>2. recovery' = [final |-> final, absent |-> NoKey, todo |-> todo]
    BY <2>1 DEF BeginRecover
  <2>3. Quiet' /\ UNCHANGED <<file, journal>>
    BY <2>1 DEF BeginRecover, Quiet
  <2> HIDE DEF final
  <2>4. Replayed(journal)' = final
    BY <2>3 DEF final
  <2> QED
    BY <2>2, <2>3, <2>4 DEF Recovering
<1>2. CASE recovery # Idle
  <2>1. /\ recovery \in Recovery /\ Quiet
        /\ recovery.final = Replayed(journal)
        /\ Replayed(journal) \in [Key -> Doc \cup {Missing}]
    BY <1>2, ReplayedType DEF Recovering, TypeOK
  <2>2. \/ RestoreFile \/ EndRecover \/ (\E k \in Key : StatFile(k)) \/ UNCHANGED vars
    BY <1>2, <2>1 DEF Quiet, At, Next, Write, Read, Collect, Recover, Crash, Damage,
       BeginWrite, PutState, OpenJournal, AppendLine, ReturnOk, WriteFails, Quarantine,
       ReadBad, BeginGc, GcRemoves, Truncate, EndGc, GcKeeps, GcCondemns, BeginRecover
  <2>3. CASE RestoreFile
    <3>1. /\ recovery.absent \in Key
          /\ recovery'.todo = recovery.todo \ {recovery.absent} /\ recovery'.absent = NoKey
          /\ recovery'.final = recovery.final
      BY <2>1, <2>3 DEF RestoreFile, Recovery
    <3>2. /\ Quiet' /\ journal' = journal
          /\ file' = [file EXCEPT ![recovery.absent] = recovery.final[recovery.absent]]
      BY <2>1, <2>3 DEF RestoreFile, Quiet
    <3>3. recovery.final[recovery.absent] \in Doc
      BY <1>2, <2>3 DEF RestoreFile, Replaying
    <3>4. \A k \in Key : file'[k] = Missing => file[k] = Missing /\ k # recovery.absent
      BY <3>1, <3>2, <3>3, ValuesAssumption DEF TypeOK
    <3> QED
      BY <1>2, <2>1, <3>1, <3>2, <3>4 DEF Recovering
  <2>4. CASE EndRecover
    BY <2>4 DEF EndRecover
  <2>5. ASSUME NEW k \in Key, StatFile(k) PROVE Recovering'
    <3>1. /\ Quiet' /\ UNCHANGED <<file, journal>>
          /\ recovery.absent = NoKey
          /\ recovery' = IF file[k] = Missing THEN [recovery EXCEPT !.absent = k]
                         ELSE [recovery EXCEPT !.todo = @ \ {k}]
      BY <2>1, <2>5 DEF StatFile, Quiet
    <3>2. recovery'.final = recovery.final
      BY <2>1, <3>1 DEF Recovery
    <3>3. \A j \in recovery.todo : j \in recovery'.todo \/ (j = k /\ file[j] # Missing)
      BY <2>1, <3>1 DEF Recovery
    <3>4. recovery'.absent # NoKey => file[recovery'.absent] = Missing
      BY <2>1, <3>1 DEF Recovery
    <3> QED
      BY <1>2, <2>1, <3>1, <3>2, <3>3, <3>4 DEF Recovering
  <2>6. CASE UNCHANGED vars
    BY <1>2, <2>6 DEF vars, Recovering, Quiet
  <2> QED
    BY <2>2, <2>3, <2>4, <2>5, <2>6
<1> QED
  BY <1>1, <1>2

\* How far a recovery has come, in every reachable state.
LEMMA AlwaysRecovering == Spec => []Recovering
<1>1. Init => Recovering
  BY DEF Init, Recovering
<1> QED
  BY <1>1, RecoveringNext, Invariance, PTL DEF Spec

\* When recover is through, every key with a readable journal entry has a file,
\* for any journal and wherever earlier recoveries were cut off
\* (StateStore.recover, state-store.js).
THEOREM RecoveryCompletes == Spec => RecoveryIsComplete
<1>1. TypeOK /\ Recovering /\ recovery # Idle /\ recovery.todo = {} =>
        \A k \in Key : EntriesOf(journal, k) # {} => file[k] # Missing
  <2> SUFFICES ASSUME TypeOK, Recovering, recovery # Idle, recovery.todo = {},
                      NEW k \in Key, EntriesOf(journal, k) # {}
               PROVE  file[k] # Missing
    OBVIOUS
  <2> DEFINE mine == EntriesOf(journal, k)
             last == CHOOSE i \in mine : \A j \in mine : j <= i
  <2>1. mine \in SUBSET (1 .. Len(journal)) /\ Len(journal) \in Nat
    BY DEF EntriesOf, Good, TypeOK
  <2>2. \E i \in mine : \A j \in mine : j <= i
    BY <2>1, LastIndex
  <2>3. last \in mine
    BY <2>2
  <2>4. journal[last] \in Entry
    BY <2>3 DEF EntriesOf, Good
  <2>5. Replayed(journal)[k] = journal[last].doc
    BY DEF Replayed
  <2>6. Replayed(journal)[k] # Missing
    BY <2>4, <2>5, ValuesAssumption DEF Entry
  <2> QED
    BY <2>6 DEF Recovering
<1> QED
  BY <1>1, StoreTypeCorrect, AlwaysRecovering, PTL DEF RecoveryIsComplete

-----------------------------------------------------------------------------
(* The refinement: every step is one of the durable map, or none            *)

Shown == [k \in Key |-> IF file[k] \in Doc THEN file[k] ELSE Missing]
Promised == {<<writer[w].key, writer[w].doc>> :
               w \in {v \in Writer : At(v, "open") \/ At(v, "append")}}

\* The actions of the durable map, in the terms of the mapping.
LEMMA DurableActions ==
  ASSUME NEW k \in Key, NEW d \in Doc
  PROVE  /\ /\ Shown' = [Shown EXCEPT ![k] = d]
            /\ Promised' = Promised \cup {<<k, d>>} /\ journal' = journal
            => Durable!Put(k, d)
         /\ /\ <<k, d>> \in Promised
            /\ Replayed(journal') = [Replayed(journal) EXCEPT ![k] = d]
            /\ Promised' \in {Promised, Promised \ {<<k, d>>}} /\ Shown' = Shown
            => Durable!Remember(k, d)
         /\ /\ Shown' = [Shown EXCEPT ![k] = Missing]
            /\ journal' = journal /\ Promised' = Promised
            => Durable!Lose(k)
         /\ /\ Shown[k] = Missing /\ Replayed(journal)[k] # Missing
            /\ Shown' = [Shown EXCEPT ![k] = Replayed(journal)[k]]
            /\ journal' = journal /\ Promised' = Promised
            => Durable!Restore(k)
         /\ /\ Promised' \subseteq Promised /\ Shown' = Shown
            /\ Replayed(journal') = Replayed(journal)
            => Durable!GiveUp
         /\ /\ Replayed(journal') = [j \in Key |-> Missing]
            /\ Promised' \subseteq Promised /\ Shown' = Shown
            => Durable!Forget
<1>1. journal' = journal => Replayed(journal)' = Replayed(journal)
  OBVIOUS
<1> QED
  BY <1>1 DEF Durable!Put, Durable!Remember, Durable!Lose, Durable!Restore,
              Durable!GiveUp, Durable!Forget, Shown, Promised

\* What a write promises to remember, from its rename to its line.
LEMMA PromisedIs ==
  ASSUME NEW p
  PROVE  /\ p \in Promised <=>
              \E v \in Writer : /\ writer[v] # Idle /\ writer[v].pc \in {"open", "append"}
                                /\ p = <<writer[v].key, writer[v].doc>>
         /\ p \in Promised' <=>
              \E v \in Writer : /\ writer'[v] # Idle /\ writer'[v].pc \in {"open", "append"}
                                /\ p = <<writer'[v].key, writer'[v].doc>>
  BY DEF Promised, At

\* The promises of other writes stay when one moves on; what it does to its own:
LEMMA PromisedMoves ==
  ASSUME NEW w \in Writer, \A v \in Writer \ {w} : writer'[v] = writer[v],
         NEW pair, pair = <<writer[w].key, writer[w].doc>>
  PROVE  /\ ~ (writer'[w] # Idle /\ writer'[w].pc \in {"open", "append"})
              => Promised' \in {Promised, Promised \ {pair}}
         /\ (/\ writer'[w] # Idle /\ writer'[w].pc \in {"open", "append"}
             /\ writer'[w].key = writer[w].key /\ writer'[w].doc = writer[w].doc)
              => Promised' = Promised \cup {pair}
         /\ writer[w] # Idle /\ writer[w].pc \in {"open", "append"} => pair \in Promised
         /\ ~ (writer[w] # Idle /\ writer[w].pc \in {"open", "append"})
              => /\ Promised \subseteq Promised'
                 /\ ~ (writer'[w] # Idle /\ writer'[w].pc \in {"open", "append"})
                      => Promised' = Promised
<1> DEFINE others == {<<writer[v].key, writer[v].doc>> :
                        v \in {u \in Writer \ {w} : At(u, "open") \/ At(u, "append")}}
<1>1. \A p : p \in others <=>
               \E v \in Writer \ {w} : /\ writer[v] # Idle /\ writer[v].pc \in {"open", "append"}
                                       /\ p = <<writer[v].key, writer[v].doc>>
  BY DEF At
<1> HIDE DEF others
<1>2. \A p : p \in Promised <=>
        p \in others \/ (/\ writer[w] # Idle /\ writer[w].pc \in {"open", "append"}
                         /\ p = pair)
  BY <1>1, PromisedIs
<1>3. \A p : p \in Promised' <=>
        p \in others \/ (/\ writer'[w] # Idle /\ writer'[w].pc \in {"open", "append"}
                         /\ p = <<writer'[w].key, writer'[w].doc>>)
  BY <1>1, PromisedIs
<1> HIDE DEF others
<1>4. ASSUME ~ (writer'[w] # Idle /\ writer'[w].pc \in {"open", "append"})
      PROVE  Promised' \in {Promised, Promised \ {pair}}
  <2>1. \A p : p \in Promised' <=> p \in others
    BY <1>3, <1>4
  <2>2. CASE pair \in others \/ ~ (writer[w] # Idle /\ writer[w].pc \in {"open", "append"})
    BY <1>2, <2>1, <2>2
  <2>3. CASE pair \notin others
    BY <1>2, <2>1, <2>3
  <2> QED
    BY <2>2, <2>3
<1>5. ASSUME writer'[w] # Idle, writer'[w].pc \in {"open", "append"},
             writer'[w].key = writer[w].key, writer'[w].doc = writer[w].doc
      PROVE  Promised' = Promised \cup {pair}
  BY <1>2, <1>3, <1>5
<1>6. ASSUME ~ (writer[w] # Idle /\ writer[w].pc \in {"open", "append"})
      PROVE  /\ Promised \subseteq Promised'
             /\ ~ (writer'[w] # Idle /\ writer'[w].pc \in {"open", "append"})
                  => Promised' = Promised
  BY <1>2, <1>3, <1>6
<1> QED
  BY <1>2, <1>4, <1>5, <1>6

LEMMA Unseen ==
  ASSUME Shown' = Shown, Promised' = Promised, journal' = journal
  PROVE  UNCHANGED Durable!vars
<1>1. Replayed(journal)' = Replayed(journal)
  OBVIOUS
<1> QED
  BY <1>1 DEF Durable!vars, Shown, Promised

\* A file goes, whoever removes or damages it.
LEMMA LoseFile ==
  ASSUME TypeOK, NEW k \in Key, NEW f \in {Missing, Bad}, file' = [file EXCEPT ![k] = f],
         journal' = journal, writer' = writer
  PROVE  Durable!Lose(k)
<1>1. Shown' = [Shown EXCEPT ![k] = Missing]
  BY ValuesAssumption DEF Shown, TypeOK
<1>2. Promised' = Promised
  BY DEF Promised, At
<1> QED
  BY <1>1, <1>2 DEF Durable!Lose, Shown, Promised

LEMMA WriteMapped == ASSUME TypeOK, Write PROVE [Durable!Next]_(Durable!vars)
<1>1. PICK w \in Writer :
        \/ \E k \in Key, d \in Doc : BeginWrite(w, k, d)
        \/ PutState(w) \/ OpenJournal(w) \/ AppendLine(w) \/ ReturnOk(w) \/ WriteFails(w)
  BY DEF Write
<1>0. PICK key, doc : key = writer[w].key /\ doc = writer[w].doc
  OBVIOUS
<1> DEFINE pair == <<key, doc>>
<1>2. \A v \in Writer \ {w} : writer'[v] = writer[v]
  BY <1>1 DEF BeginWrite, PutState, OpenJournal, AppendLine, ReturnOk, WriteFails, TypeOK
<1>3. file' = file => Shown' = Shown
  BY DEF Shown
<1>4. CASE \E k \in Key, d \in Doc : BeginWrite(w, k, d)
  <2>1. UNCHANGED <<file, journal>> /\ writer[w] = Idle /\ writer'[w].pc = "put"
    BY <1>4 DEF BeginWrite, TypeOK
  <2>2. Promised' = Promised
    BY <1>0, <1>2, <2>1, PromisedMoves
  <2> QED
    BY <1>3, <2>1, <2>2, Unseen
<1>5. CASE PutState(w)
  <2>1. /\ writer[w] \in WriteCall /\ writer[w].pc = "put" /\ journal' = journal
        /\ writer'[w] = [writer[w] EXCEPT !.pc = "open"]
        /\ file' = [file EXCEPT ![writer[w].key] = writer[w].doc]
    BY <1>5 DEF PutState, At, TypeOK
  <2>2. key \in Key /\ doc \in Doc
    BY <1>0, <2>1 DEF WriteCall
  <2>3. Shown' = [Shown EXCEPT ![key] = doc]
    BY <1>0, <2>1, <2>2 DEF Shown, TypeOK
  <2>4. /\ writer'[w] # Idle /\ writer'[w].pc = "open"
        /\ writer'[w].key = writer[w].key /\ writer'[w].doc = writer[w].doc
    BY <2>1, IdleAssumption DEF WriteCall
  <2>5. Promised' = Promised \cup {pair}
    BY <1>0, <1>2, <2>4, PromisedMoves
  <2>6. Durable!Put(key, doc)
    BY <2>1, <2>2, <2>3, <2>5, DurableActions
  <2> QED
    BY <2>2, <2>6 DEF Durable!Next
<1>6. CASE OpenJournal(w)
  <2>1. /\ writer[w] \in WriteCall /\ writer[w].pc = "open" /\ UNCHANGED <<file, journal>>
        /\ writer'[w] = [writer[w] EXCEPT !.pc = "append"]
    BY <1>6 DEF OpenJournal, At, TypeOK
  <2>2. /\ writer[w] # Idle /\ writer'[w] # Idle /\ writer'[w].pc = "append"
        /\ writer'[w].key = writer[w].key /\ writer'[w].doc = writer[w].doc
    BY <2>1, IdleAssumption DEF WriteCall
  <2>3. Promised' = Promised
    <3>1. pair \in Promised
      BY <1>0, <1>2, <2>1, <2>2, PromisedMoves
    <3>2. Promised' = Promised \cup {pair}
      BY <1>0, <1>2, <2>2, PromisedMoves
    <3> QED
      BY <3>1, <3>2
  <2> QED
    BY <1>3, <2>1, <2>3, Unseen
<1>7. CASE AppendLine(w)
  <2>1. /\ writer[w] \in WriteCall /\ writer[w] # Idle /\ file' = file
        /\ writer'[w] = [writer[w] EXCEPT !.pc = "return"]
    BY <1>7 DEF AppendLine, At, TypeOK
  <2>2. writer'[w].pc = "return"
    BY <2>1 DEF WriteCall
  <2>3. key \in Key /\ doc \in Doc
    BY <1>0, <2>1 DEF WriteCall
  <2>4. CASE writer[w].pc = "append"
    <3> DEFINE entry == [key |-> key, doc |-> doc]
    <3>1. entry \in Entry /\ entry.key = key /\ entry.doc = doc
      BY <2>3 DEF Entry
    <3>2. journal' = Appended(journal, entry) /\ journal \in Seq(Line)
      BY <1>0, <1>7, <2>4 DEF AppendLine, At, TypeOK
    <3> HIDE DEF entry
    <3>3. pair \in Promised /\ Promised' \in {Promised, Promised \ {pair}}
      BY <1>0, <1>2, <2>1, <2>2, <2>4, PromisedMoves
    <3>4. \/ Replayed(journal') = Replayed(journal)
          \/ Replayed(journal') = [Replayed(journal) EXCEPT ![key] = doc]
      BY <3>1, <3>2, ReplayedAppended
    <3>5. CASE Replayed(journal') = Replayed(journal)
      BY <1>3, <2>1, <2>3, <3>3, <3>5, DurableActions DEF Durable!Next
    <3>6. CASE Replayed(journal') = [Replayed(journal) EXCEPT ![key] = doc]
      BY <1>3, <2>1, <2>3, <3>3, <3>6, DurableActions DEF Durable!Next
    <3> QED
      BY <3>4, <3>5, <3>6
  <2>5. CASE writer[w].pc # "append"
    <3>1. writer[w].pc = "appendRenamed" /\ journal' = journal
      BY <1>7, <2>5 DEF AppendLine, At
    <3>2. Promised' = Promised
      BY <1>0, <1>2, <2>2, <3>1, PromisedMoves
    <3> QED
      BY <1>3, <2>1, <3>1, <3>2, Unseen
  <2> QED
    BY <2>4, <2>5
<1>8. CASE ReturnOk(w)
  <2>1. UNCHANGED <<file, journal>> /\ writer[w].pc = "return" /\ writer'[w] = Idle
    BY <1>8 DEF ReturnOk, At, TypeOK
  <2>2. Promised' = Promised
    BY <1>0, <1>2, <2>1, PromisedMoves
  <2> QED
    BY <1>3, <2>1, <2>2, Unseen
<1>9. CASE WriteFails(w)
  <2>1. file' = file /\ writer'[w] = Idle /\ (journal' = journal \/ journal' = Teared(journal))
    BY <1>9 DEF WriteFails, TypeOK
  <2>2. Replayed(journal') = Replayed(journal)
    BY <2>1, ReplayedTeared DEF TypeOK
  <2>3. Promised' \subseteq Promised
    BY <1>0, <1>2, <2>1, PromisedMoves
  <2>4. writer[w] \in WriteCall
    BY <1>9 DEF WriteFails, TypeOK
  <2>5. key \in Key /\ doc \in Doc
    BY <1>0, <2>4 DEF WriteCall
  <2> QED
    BY <1>3, <2>1, <2>2, <2>3, <2>5, DurableActions DEF Durable!Next
<1> QED
  BY <1>1, <1>4, <1>5, <1>6, <1>7, <1>8, <1>9

LEMMA ReadMapped == ASSUME TypeOK, Read PROVE [Durable!Next]_(Durable!vars)
<1>1. PICK r \in Reader : Quarantine(r) \/ \E k \in Key : ReadBad(r, k)
  BY DEF Read
<1>2. CASE Quarantine(r)
  <2>1. reader[r] \in Key /\ file' = [file EXCEPT ![reader[r]] = Missing]
        /\ UNCHANGED <<journal, writer>>
    BY <1>2 DEF Quarantine, TypeOK
  <2> QED
    BY <2>1, LoseFile DEF Durable!Next
<1>3. CASE \E k \in Key : ReadBad(r, k)
  <2>1. UNCHANGED <<file, journal, writer>>
    BY <1>3 DEF ReadBad
  <2>2. Shown' = Shown /\ Promised' = Promised
    BY <2>1 DEF Shown, Promised, At
  <2> QED
    BY <2>1, <2>2, Unseen
<1> QED
  BY <1>1, <1>2, <1>3

LEMMA CollectMapped == ASSUME TypeOK, Collect PROVE [Durable!Next]_(Durable!vars)
<1>1. CASE GcRemoves
  <2>1. gc.victim \in Key /\ file' = [file EXCEPT ![gc.victim] = Missing]
        /\ UNCHANGED <<journal, writer>>
    BY <1>1 DEF GcRemoves, TypeOK, Collection
  <2> QED
    BY <2>1, LoseFile DEF Durable!Next
<1>2. CASE Truncate
  <2>1. journal' = << >> /\ file' = file
    BY <1>2 DEF Truncate
  <2>2. Good(<< >>) = {}
    BY DEF Good
  <2>3. Replayed(journal') = [j \in Key |-> Missing]
    BY <2>1, <2>2 DEF Replayed, EntriesOf
  <2>4. ASSUME NEW v \in Writer, writer'[v] # Idle, writer'[v].pc \in {"open", "append"}
        PROVE  writer'[v] = writer[v]
    BY <1>2, <2>4 DEF Truncate, At, TypeOK, WriteCall
  <2>5. Promised' \subseteq Promised
    BY <2>4, PromisedIs
  <2>6. Shown' = Shown
    BY <2>1 DEF Shown
  <2>7. Durable!Forget
    BY <2>3, <2>5, <2>6 DEF Durable!Forget, Shown, Promised
  <2> QED
    BY <2>7 DEF Durable!Next
<1>3. CASE BeginGc \/ EndGc \/ \E k \in Key : GcKeeps(k) \/ GcCondemns(k)
  <2>1. UNCHANGED <<file, journal, writer>>
    BY <1>3 DEF BeginGc, EndGc, GcKeeps, GcCondemns
  <2>2. Shown' = Shown /\ Promised' = Promised
    BY <2>1 DEF Shown, Promised, At
  <2> QED
    BY <2>1, <2>2, Unseen
<1> QED
  BY <1>1, <1>2, <1>3 DEF Collect

\* A restored key had lost its file before: nothing else ran meanwhile.
LEMMA RecoverMapped ==
  ASSUME Inv, Recovering, Recover
  PROVE  [Durable!Next]_(Durable!vars)
<1> USE DEF Inv
<1>1. CASE RestoreFile
  <2>0. PICK k \in Key : recovery.absent = k
    BY <1>1 DEF RestoreFile, TypeOK, Recovery
  <2> DEFINE d == Replayed(journal)[k]
  <2>1. /\ recovery # Idle /\ recovery \in Recovery /\ UNCHANGED <<journal, writer>>
        /\ file' = [file EXCEPT ![k] = recovery.final[k]]
    BY <1>1, <2>0 DEF RestoreFile, TypeOK
  <2>2. file[k] = Missing /\ recovery.final = Replayed(journal) /\ recovery.final[k] \in Doc
    BY <1>1, <2>0, <2>1 DEF RestoreFile, Recovering, Replaying
  <2>3. d \in Doc /\ d # Missing /\ file' = [file EXCEPT ![k] = d]
    BY <2>1, <2>2, ValuesAssumption
  <2> HIDE DEF d
  <2>4. Shown[k] = Missing /\ Shown' = [Shown EXCEPT ![k] = d]
    BY <2>1, <2>2, <2>3, ValuesAssumption DEF Shown, TypeOK
  <2>5. Promised' = Promised
    BY <2>1 DEF Promised, At
  <2>6. Durable!Restore(k)
    BY <2>1, <2>3, <2>4, <2>5, DurableActions DEF d
  <2> QED
    BY <2>6 DEF Durable!Next
<1>2. CASE BeginRecover \/ EndRecover \/ \E k \in Key : StatFile(k)
  <2>1. UNCHANGED <<file, journal, writer>>
    BY <1>2 DEF BeginRecover, EndRecover, StatFile
  <2>2. Shown' = Shown /\ Promised' = Promised
    BY <2>1 DEF Shown, Promised, At
  <2> QED
    BY <2>1, <2>2, Unseen
<1> QED
  BY <1>1, <1>2 DEF Recover

LEMMA CrashMapped == ASSUME TypeOK, Crash PROVE [Durable!Next]_(Durable!vars)
<1>1. Replayed(journal') = Replayed(journal)
  BY ReplayedTeared DEF Crash, TypeOK
<1>2. Promised' \subseteq Promised
  BY PromisedIs DEF Crash
<1>3. Shown' = Shown
  BY DEF Crash, Shown
<1>4. Durable!GiveUp
  BY <1>1, <1>2, <1>3 DEF Durable!GiveUp, Shown, Promised
<1> QED
  BY <1>4 DEF Durable!Next

\* StateStore is a durable map, for any number of keys, documents, writers and
\* readers: each of its steps is a put, a loss, a memory kept or dropped, or the
\* recovery of a lost key's document, and nothing else changes what is read.
THEOREM ImplementsMap == Spec => ImplementsDurableMap
<1>1. Init => Durable!Init
  <2> SUFFICES ASSUME Init PROVE Durable!Init
    OBVIOUS
  <2>1. Good(<< >>) = {}
    BY DEF Good
  <2>2. Replayed(journal) = [k \in Key |-> Missing]
    BY <2>1 DEF Init, Replayed, EntriesOf
  <2>3. Shown = [k \in Key |-> Missing]
    BY ValuesAssumption DEF Init, Shown
  <2>4. Promised = {}
    BY PromisedIs DEF Init
  <2> QED
    BY <2>2, <2>3, <2>4 DEF Durable!Init, Durable!Content, Shown, Promised
<1>2. Inv /\ Recovering /\ [Next]_vars => [Durable!Next]_(Durable!vars)
  <2> SUFFICES ASSUME Inv, Recovering, [Next]_vars PROVE [Durable!Next]_(Durable!vars)
    OBVIOUS
  <2>1. TypeOK
    BY DEF Inv
  <2>2. ASSUME NEW k \in Key, Damage(k) PROVE [Durable!Next]_(Durable!vars)
    <3>1. PICK f \in {Missing, Bad} : file' = [file EXCEPT ![k] = f]
      BY <2>2 DEF Damage
    <3> QED
      BY <2>1, <2>2, <3>1, LoseFile DEF Damage, Durable!Next
  <2>3. CASE UNCHANGED vars
    <3>1. UNCHANGED <<file, journal, writer>>
      BY <2>3 DEF vars
    <3>2. Shown' = Shown /\ Promised' = Promised
      BY <3>1 DEF Shown, Promised, At
    <3> QED
      BY <3>1, <3>2, Unseen
  <2> QED
    BY <2>1, <2>2, <2>3, WriteMapped, ReadMapped, CollectMapped, RecoverMapped, CrashMapped
       DEF Next
<1> QED
  BY <1>1, <1>2, Invariance, AlwaysRecovering, PTL DEF Spec, ImplementsDurableMap, Durable!Spec
=============================================================================
