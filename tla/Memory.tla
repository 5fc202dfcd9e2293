-------------------------------- MODULE Memory --------------------------------
(***************************************************************************)
(* The operational memory under .wam/context: Markdown documents that are  *)
(* read, changed and written back in place.                                *)
(* Code: src/src/persistence/memory.js.                                    *)
(*                                                                         *)
(* A document is its status line and its entries; their wording is left    *)
(* out, and so is what a secret is replaced by.  Each operation is one     *)
(* step (reading and writing are synchronous), but the process may end     *)
(* while it writes: the file is then a beginning of what was written.      *)
(***************************************************************************)
EXTENDS Naturals, Sequences, SequencesExt

CONSTANTS Topic,        \* what a decision or a constraint is about
          Day,          \* days of the changelog
          Memo,         \* what the analysis of a project says
          MaxNotes, \* the bound on all entries but the project's
          MaxTears      \* the bound on writes cut short

ASSUME MemoryAssumption == MaxNotes \in Nat /\ MaxTears \in Nat

VARIABLES pages, \* the documents
          tears  \* how many writes were cut short

memoryVars == <<pages, tears>>

Sources == {"observed", "inferred", "user-decided"}
DocName == {"decisions", "constraints", "recentChanges", "project"}

\* "none": no such file; "unknown": its first lines are cut, and with them
\* everything else.
DocStatus == {"none", "current", "stale", "unknown"}

\* A heading of the changelog is a day and perhaps a task.
Heading == [day: Day, scope: Topic \cup {"none"}]
Note(doc) ==
  [key: CASE doc \in {"decisions", "constraints"} -> Topic
          [] doc = "recentChanges" -> Heading [] doc = "project" -> Memo,
   source: Sources]
Entries(doc) == pages[doc].entries
Room ==
  Len(Entries("decisions")) + Len(Entries("constraints")) + Len(Entries("recentChanges")) < MaxNotes

\* What is left of a write that is cut short: some first entries, the last of
\* them perhaps without its source line, and then taken for an inference.
Cut(status, entries) ==
  {[status |-> "unknown", entries |-> <<>>]}
    \cup {[status |-> status, entries |-> SubSeq(entries, 1, n)] : n \in 0 .. Len(entries)}
    \cup {[status |-> status, entries |-> [SubSeq(entries, 1, n) EXCEPT ![n].source = "inferred"]] :
            n \in 1 .. Len(entries)}

\* A document is written, to its end or not.
WriteDoc(doc, status, entries) ==
  \/ pages' = [pages EXCEPT ![doc] = [status |-> status, entries |-> entries]] /\ UNCHANGED tears
  \/ /\ tears < MaxTears /\ tears' = tears + 1
     /\ \E left \in Cut(status, entries) : pages' = [pages EXCEPT ![doc] = left]

updateContext(doc, entries) == WriteDoc(doc, "current", entries)

\* The places of the decisions on a topic, and the decisions on others in their
\* order.
Prior(topic) == {n \in DOMAIN Entries("decisions") : Entries("decisions")[n].key = topic}
Others(topic) ==
  LET entries == Entries("decisions")
      others[n \in 0 .. Len(entries)] ==
        IF n = 0 THEN <<>>
        ELSE IF entries[n].key # topic THEN Append(others[n - 1], entries[n]) ELSE others[n - 1]
  IN  others[Len(entries)]

\* Mutant: only an observation gives way to the user.
Outranked_Observed(topic, source) ==
  /\ source = "observed" /\ Prior(topic) # {}
  /\ Entries("decisions")[Min(Prior(topic))].source = "user-decided"

\* The user has decided this, and now somebody else does.
Outranked(topic, source) ==
  /\ source # "user-decided" /\ Prior(topic) # {}
  /\ Entries("decisions")[Min(Prior(topic))].source = "user-decided"

\* The earlier entry goes, the new one is the last.
recordDecision(topic, source) ==
  /\ ~Outranked(topic, source) /\ (Prior(topic) = {} => Room)
  /\ updateContext("decisions", Append(Others(topic), [key |-> topic, source |-> source]))

\* Only blank lines go.
compactDecisions ==
  Entries("decisions") # <<>> /\ updateContext("decisions", Entries("decisions"))

\* A constraint is kept as it was first said: a user's decision on one that is
\* there adds nothing.
addConstraint(text, source) ==
  /\ \A n \in DOMAIN Entries("constraints") : Entries("constraints")[n].key # text
  /\ Room
  /\ updateContext("constraints", Append(Entries("constraints"), [key |-> text, source |-> source]))

\* A heading is looked for anywhere in the text, and one without a task is the
\* beginning of all of its day.
Announced(day, scope) ==
  \E n \in DOMAIN Entries("recentChanges") :
    LET key == Entries("recentChanges")[n].key
    IN  key.day = day /\ (scope = "none" \/ key.scope = scope)

\* The newest first.
addRecentChange(day, scope) ==
  /\ ~Announced(day, scope) /\ Room
  /\ updateContext("recentChanges",
       <<[key |-> [day |-> day, scope |-> scope], source |-> "observed"]>> \o Entries("recentChanges"))

\* Written only if it says something new.
updateProjectMemo(memo) ==
  LET written == <<[key |-> memo, source |-> "observed"]>>
  IN  Entries("project") # written /\ updateContext("project", written)

\* The document is written back with another status; one without its first
\* lines gets some.
markStale(doc) ==
  /\ pages[doc].status \notin {"none", "stale"}
  /\ WriteDoc(doc, "stale", Entries(doc))

MemoryInit ==
  /\ pages = [doc \in DocName |-> [status |-> "none", entries |-> <<>>]]
  /\ tears = 0

MemoryNext ==
  \/ \E topic \in Topic, source \in Sources :
       recordDecision(topic, source) \/ addConstraint(topic, source)
  \/ \E day \in Day, scope \in Topic \cup {"none"} : addRecentChange(day, scope)
  \/ \E memo \in Memo : updateProjectMemo(memo)
  \/ \E doc \in DocName : markStale(doc)
  \/ compactDecisions

MemorySpec == MemoryInit /\ [][MemoryNext]_memoryVars

MemoryTypeOK ==
  /\ \A doc \in DocName : pages[doc].status \in DocStatus /\ Entries(doc) \in Seq(Note(doc))
  /\ tears \in 0 .. MaxTears

-----------------------------------------------------------------------------
UserDecided(notes) == {n.key : n \in {e \in ToSet(notes) : e.source = "user-decided"}}

\* What the user decided stays the user's decision, and is stated once, as long
\* as no write is cut short (memory.js: "preserva user-decided ante inferencias
\* de menor autoridad").
UserDecisionStands ==
  [][/\ tears' = tears => UserDecided(Entries("decisions")) \subseteq UserDecided(pages'["decisions"].entries)
     /\ \A n, m \in DOMAIN pages'["decisions"].entries :
          pages'["decisions"].entries[n].key = pages'["decisions"].entries[m].key => n = m]_memoryVars
=============================================================================
