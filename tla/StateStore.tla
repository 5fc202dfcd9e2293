---------------------------- MODULE StateStore ----------------------------
(***************************************************************************)
(* The durable store of sealed state documents and its transaction log.    *)
(*                                                                         *)
(* A write renames a complete file over state/<type>/<id>.json and then    *)
(* appends a line to journal.log; a read quarantines a file that fails its *)
(* validation; gc truncates a long journal and evicts old documents;       *)
(* recover replays the journal and writes back the files that are missing. *)
(* All of them are async functions without a lock, so each await below is  *)
(* the end of an action.                                                   *)
(*                                                                         *)
(* A key is a pair <type>:<id>; a document stands for a sealed payload     *)
(* that its schema accepts (write changes nothing for any other).  What no *)
(* code reads back to decide anything is left out: state-index.json, the   *)
(* snapshots, the quarantined copies, temporary files, and seq.            *)
(***************************************************************************)
EXTENDS Naturals, Sequences, FiniteSets

CONSTANTS
  Key, Doc,
  Missing,            \* there is no file
  Bad,                \* a file that fails JSON.parse, its schema or its hash
  Torn,               \* the partial last line of an interrupted append
  Corrupt,            \* a complete line that does not parse
  Idle, NoKey,
  Writer, Reader,     \* places for calls in flight
  MaxEntries,         \* maxJournalEntries
  Retention,          \* retentionMs is set
  PartialAppends,     \* an append that does not end may leave a part of its line
  MaxLines            \* bound: no write begins beyond it

Entry == [key : Key, doc : Doc]
Line == Entry \cup {Torn, Corrupt}

ASSUME ValuesAssumption ==
  /\ Missing \notin Doc /\ Bad \notin Doc /\ Missing # Bad
  /\ Torn \notin Entry /\ Corrupt \notin Entry /\ Torn # Corrupt
  /\ NoKey \notin Key
ASSUME BoundsAssumption == MaxEntries \in Nat /\ MaxLines \in Nat
ASSUME OptionsAssumption == Retention \in BOOLEAN /\ PartialAppends \in BOOLEAN

VARIABLES
  file,      \* the state files
  journal,   \* the lines of journal.log
  writer,    \* the writes in flight
  reader,    \* reader[r]: the key whose file is about to be quarantined
  gc,        \* the collection under way
  recovery,  \* the recovery under way
  acked,     \* history: keys of writes that returned ok
  touched    \* history: keys damaged from outside, or evicted

vars == <<file, journal, writer, reader, gc, recovery, acked, touched>>

-----------------------------------------------------------------------------
(* Reading the journal *)

Good(lines) == {i \in 1 .. Len(lines) : lines[i] \in Entry}

EntriesOf(lines, k) == {i \in Good(lines) : lines[i].key = k}

\* Wrong: the replay stops at the first corrupt line.
Replayed_StopsAtCorruption(lines) ==
  LET sound == {i \in 1 .. Len(lines) : 1 .. i \subseteq Good(lines)}
  IN  [k \in Key |->
         LET mine == {i \in sound : lines[i].key = k}
         IN  IF mine = {} THEN Missing
             ELSE lines[CHOOSE i \in mine : \A j \in mine : j <= i].doc]

\* Wrong: the whole entry is kept, not its document.
Replayed_Entry(lines) ==
  [k \in Key |->
     LET mine == EntriesOf(lines, k)
     IN  IF mine = {} THEN Missing
         ELSE lines[CHOOSE i \in mine : \A j \in mine : j <= i]]

\* The last entry of a key wins; corrupt lines are skipped.
Replayed(lines) ==
  [k \in Key |->
     LET mine == EntriesOf(lines, k)
     IN  IF mine = {} THEN Missing
         ELSE lines[CHOOSE i \in mine : \A j \in mine : j <= i].doc]

EndsTorn(lines) == lines # <<>> /\ lines[Len(lines)] = Torn

\* An append to a torn journal continues the partial line.
Appended(lines, entry) ==
  IF EndsTorn(lines) THEN [lines EXCEPT ![Len(lines)] = Corrupt]
                     ELSE Append(lines, entry)

Teared(lines) == IF EndsTorn(lines) THEN lines ELSE Append(lines, Torn)

-----------------------------------------------------------------------------

WriteCall == [pc : {"put", "open", "append", "appendRenamed", "return"},
              key : Key, doc : Doc]

Collection == [pc : {"snapshot", "evict"}, todo : SUBSET Key, victim : Key \cup {NoKey}]

Recovery == [final : [Key -> Doc \cup {Missing}], todo : SUBSET Key,
             absent : Key \cup {NoKey}]

ASSUME IdleAssumption == Idle \notin WriteCall

TypeOK ==
  /\ file \in [Key -> Doc \cup {Missing, Bad}]
  /\ journal \in Seq(Line)
  /\ writer \in [Writer -> WriteCall \cup {Idle}]
  /\ reader \in [Reader -> Key \cup {NoKey}]
  /\ gc \in Collection \cup {Idle}
  /\ recovery \in Recovery \cup {Idle}
  /\ acked \subseteq Key
  /\ touched \subseteq Key

Init ==
  /\ file = [k \in Key |-> Missing]
  /\ journal = <<>>
  /\ writer = [w \in Writer |-> Idle]
  /\ reader = [r \in Reader |-> NoKey]
  /\ gc = Idle
  /\ recovery = Idle
  /\ acked = {}
  /\ touched = {}

\* Callers recover a store before they use it, as the tests do.
Quiet ==
  /\ \A w \in Writer : writer[w] = Idle
  /\ \A r \in Reader : reader[r] = NoKey
  /\ gc = Idle

-----------------------------------------------------------------------------
(* write *)

BeginWrite(w, k, d) ==
  /\ recovery = Idle
  /\ writer[w] = Idle
  /\ Len(journal) + Cardinality({v \in Writer : writer[v] # Idle}) < MaxLines
  /\ writer' = [writer EXCEPT ![w] = [pc |-> "put", key |-> k, doc |-> d]]
  /\ UNCHANGED <<file, journal, reader, gc, recovery, acked, touched>>

At(w, pc) == writer[w] # Idle /\ writer[w].pc = pc

\* atomicWrite: the rename.
PutState(w) ==
  /\ At(w, "put")
  /\ file' = [file EXCEPT ![writer[w].key] = writer[w].doc]
  /\ writer' = [writer EXCEPT ![w].pc = "open"]
  /\ UNCHANGED <<journal, reader, gc, recovery, acked, touched>>

OpenJournal(w) ==
  /\ At(w, "open")
  /\ writer' = [writer EXCEPT ![w].pc = "append"]
  /\ UNCHANGED <<file, journal, reader, gc, recovery, acked, touched>>

\* A journal that was truncated since it was opened has another name now.
AppendLine(w) ==
  /\ \/ /\ At(w, "append")
        /\ journal' = Appended(journal, [key |-> writer[w].key, doc |-> writer[w].doc])
     \/ /\ At(w, "appendRenamed")
        /\ UNCHANGED journal
  /\ writer' = [writer EXCEPT ![w].pc = "return"]
  /\ UNCHANGED <<file, reader, gc, recovery, acked, touched>>

ReturnOk(w) ==
  /\ At(w, "return")
  /\ acked' = acked \cup {writer[w].key}
  /\ writer' = [writer EXCEPT ![w] = Idle]
  /\ UNCHANGED <<file, journal, reader, gc, recovery, touched>>

\* An I/O error rejects the call; the append may have written a part.
WriteFails(w) ==
  /\ writer[w] # Idle
  /\ \/ UNCHANGED journal
     \/ PartialAppends /\ At(w, "append") /\ journal' = Teared(journal)
  /\ writer' = [writer EXCEPT ![w] = Idle]
  /\ UNCHANGED <<file, reader, gc, recovery, acked, touched>>

-----------------------------------------------------------------------------
(* read: only the one that quarantines changes anything *)

ReadBad(r, k) ==
  /\ recovery = Idle
  /\ reader[r] = NoKey
  /\ file[k] = Bad
  /\ reader' = [reader EXCEPT ![r] = k]
  /\ UNCHANGED <<file, journal, writer, gc, recovery, acked, touched>>

\* _quarantine removes whatever file is there by now.
Quarantine(r) ==
  /\ reader[r] # NoKey
  /\ file' = [file EXCEPT ![reader[r]] = Missing]
  /\ reader' = [reader EXCEPT ![r] = NoKey]
  /\ UNCHANGED <<journal, writer, gc, recovery, acked, touched>>

-----------------------------------------------------------------------------
(* gc: called by every fiftieth write, or directly *)

Evicting == IF Retention THEN [pc |-> "evict", todo |-> Key, victim |-> NoKey] ELSE Idle

BeginGc ==
  /\ recovery = Idle
  /\ gc = Idle
  /\ gc' = IF Cardinality(Good(journal)) > MaxEntries
             THEN [pc |-> "snapshot", todo |-> Key, victim |-> NoKey]
             ELSE Evicting
  /\ gc' # Idle
  /\ UNCHANGED <<file, journal, writer, reader, recovery, acked, touched>>

\* Wrong: the snapshot removes whatever it has read.
ToRemove_Any(k) == file[k] # Missing

\* The snapshot quarantines the files it cannot read; an eviction may find
\* any file expired.
ToRemove(k) == IF gc.pc = "snapshot" THEN file[k] = Bad ELSE file[k] # Missing

GcKeeps(k) ==
  /\ gc # Idle
  /\ k \in gc.todo /\ gc.victim = NoKey
  /\ gc.pc = "snapshot" => ~ToRemove(k)
  /\ gc' = [gc EXCEPT !.todo = @ \ {k}]
  /\ UNCHANGED <<file, journal, writer, reader, recovery, acked, touched>>

GcCondemns(k) ==
  /\ gc # Idle
  /\ k \in gc.todo /\ gc.victim = NoKey
  /\ ToRemove(k)
  /\ gc' = [gc EXCEPT !.victim = k]
  /\ UNCHANGED <<file, journal, writer, reader, recovery, acked, touched>>

GcRemoves ==
  /\ gc # Idle
  /\ gc.victim # NoKey
  /\ file' = [file EXCEPT ![gc.victim] = Missing]
  /\ touched' = IF gc.pc = "evict" THEN touched \cup {gc.victim} ELSE touched
  /\ gc' = [gc EXCEPT !.todo = @ \ {gc.victim}, !.victim = NoKey]
  /\ UNCHANGED <<journal, writer, reader, recovery, acked>>

\* TransactionLog.truncate renames the file under the appends that opened it.
Truncate ==
  /\ gc # Idle
  /\ gc.pc = "snapshot" /\ gc.todo = {}
  /\ journal' = <<>>
  /\ writer' = [w \in Writer |-> IF At(w, "append")
                                   THEN [writer[w] EXCEPT !.pc = "appendRenamed"]
                                   ELSE writer[w]]
  /\ gc' = Evicting
  /\ UNCHANGED <<file, reader, recovery, acked, touched>>

EndGc ==
  /\ gc # Idle
  /\ gc.pc = "evict" /\ gc.todo = {}
  /\ gc' = Idle
  /\ UNCHANGED <<file, journal, writer, reader, recovery, acked, touched>>

-----------------------------------------------------------------------------
(* recover *)

BeginRecover ==
  /\ Quiet
  /\ recovery = Idle
  /\ LET final == Replayed(journal)
     IN  recovery' = [final |-> final, absent |-> NoKey,
                      todo |-> {k \in Key : final[k] # Missing}]
  /\ UNCHANGED <<file, journal, writer, reader, gc, acked, touched>>

\* Wrong: a file that is there is written as well.
StatFile_Ignored(k) ==
  /\ recovery # Idle
  /\ recovery.absent = NoKey
  /\ k \in recovery.todo
  /\ recovery' = [recovery EXCEPT !.absent = k]
  /\ UNCHANGED <<file, journal, writer, reader, gc, acked, touched>>

StatFile(k) ==
  /\ recovery # Idle
  /\ recovery.absent = NoKey
  /\ k \in recovery.todo
  /\ recovery' = IF file[k] = Missing THEN [recovery EXCEPT !.absent = k]
                                      ELSE [recovery EXCEPT !.todo = @ \ {k}]
  /\ UNCHANGED <<file, journal, writer, reader, gc, acked, touched>>

RestoreFile ==
  /\ recovery # Idle
  /\ recovery.absent # NoKey
  /\ file' = [file EXCEPT ![recovery.absent] = recovery.final[recovery.absent]]
  /\ recovery' = [recovery EXCEPT !.todo = @ \ {recovery.absent}, !.absent = NoKey]
  /\ UNCHANGED <<journal, writer, reader, gc, acked, touched>>

EndRecover ==
  /\ recovery # Idle
  /\ recovery.todo = {}
  /\ recovery' = Idle
  /\ UNCHANGED <<file, journal, writer, reader, gc, acked, touched>>

-----------------------------------------------------------------------------
(* Failures *)

\* The process stops and a new StateStore is made; an append in flight may have
\* written a part of its line.
Crash ==
  /\ \/ UNCHANGED journal
     \/ /\ PartialAppends
        /\ \E w \in Writer : At(w, "append")
        /\ journal' = Teared(journal)
  /\ writer' = [w \in Writer |-> Idle]
  /\ reader' = [r \in Reader |-> NoKey]
  /\ gc' = Idle
  /\ recovery' = Idle
  /\ UNCHANGED <<file, acked, touched>>

\* A file is deleted or altered from outside, while nothing is recovered.
Damage(k) ==
  /\ recovery = Idle
  /\ file[k] \in Doc
  /\ \E f \in {Missing, Bad} : file' = [file EXCEPT ![k] = f]
  /\ touched' = touched \cup {k}
  /\ UNCHANGED <<journal, writer, reader, gc, recovery, acked>>

-----------------------------------------------------------------------------

Write == \E w \in Writer :
  \/ \E k \in Key, d \in Doc : BeginWrite(w, k, d)
  \/ PutState(w) \/ OpenJournal(w) \/ AppendLine(w) \/ ReturnOk(w) \/ WriteFails(w)

Read == \E r \in Reader : Quarantine(r) \/ \E k \in Key : ReadBad(r, k)

Collect == \/ BeginGc \/ GcRemoves \/ Truncate \/ EndGc
           \/ \E k \in Key : GcKeeps(k) \/ GcCondemns(k)

Recover == BeginRecover \/ RestoreFile \/ EndRecover \/ \E k \in Key : StatFile(k)

Next == Write \/ Read \/ Collect \/ Recover \/ Crash \/ \E k \in Key : Damage(k)

Spec == Init /\ [][Next]_vars

-----------------------------------------------------------------------------
(* Properties *)

(***************************************************************************)
(* The store is a durable map: what a key reads as changes by a put, by a  *)
(* loss, or by a recovery that gives a lost key back the document its last *)
(* readable journal entry holds; never by a crash, a failed write or a     *)
(* truncation of the journal (StateStore.write, read, gc, recover).        *)
(***************************************************************************)
Durable == INSTANCE DurableMap WITH
  Absent <- Missing,
  map <- [k \in Key |-> IF file[k] \in Doc THEN file[k] ELSE Missing],
  memo <- Replayed(journal),
  pending <- {<<writer[w].key, writer[w].doc>> :
                w \in {v \in Writer : At(v, "open") \/ At(v, "append")}}

ImplementsDurableMap == Durable!Spec

\* A write that returned ok is readable for good, through crashes, failed
\* writes, collections and recoveries, unless somebody damaged or evicted a
\* document of that key: then, and only then, can a read quarantine a newer one.
AckedIsKept == \A k \in acked \ touched : file[k] \in Doc

\* Once recover is through, every key that has a readable journal entry has its
\* file again, whatever corrupt lines the journal has ("any journal entries
\* that lack a corresponding state file are re-applied", state-store.js:208).
RecoveryIsComplete ==
  [][recovery # Idle /\ recovery.todo = {} /\ recovery' = Idle
     => \A k \in Key : EntriesOf(journal, k) # {} => file[k] # Missing]_vars

(***************************************************************************)
(* A claim that the code does not keep.                                    *)
(***************************************************************************)

\* transaction-log.js:75 "Skips lines that fail to parse (corruption
\* isolation)": a corrupt line costs no entry but its own, so what append
\* returned for is the last readable entry.
AppendedIsReadable ==
  [][\A w \in Writer :
       At(w, "append") /\ writer'[w] # Idle /\ writer'[w].pc = "return"
       => Good(journal') # {} /\ journal'[Len(journal')] \in Entry]_vars
=============================================================================
