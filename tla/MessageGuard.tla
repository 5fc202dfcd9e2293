---------------------------- MODULE MessageGuard ----------------------------
(***************************************************************************)
(* The guard of the chat.message hook against handling a message twice.    *)
(*                                                                         *)
(* The host may deliver a message again, at any time and while the first   *)
(* delivery is awaited.  The guard keeps the ids of the messages it has    *)
(* let through, the oldest leaving when the table is full, and knows its   *)
(* own synthetic parts in a message that comes back with them.             *)
(***************************************************************************)
EXTENDS Naturals, Sequences, SequencesExt

CONSTANTS
  MessageId,     \* ids of messages
  TableLimit,    \* PROCESSED_MESSAGE_LIMIT
  MaxHandled     \* bound: messages let through in one behaviour

ASSUME MessageGuardAssumption == TableLimit \in Nat /\ MaxHandled \in Nat

VARIABLES
  table,     \* processedMessages, in the order of insertion
  marked,    \* messages whose parts carry a part of ours
  pending,   \* deliveries let through whose handling is awaited
  handled    \* history: the messages let through, in order

guardVars == <<table, marked, pending, handled>>

\* Mutant: the newest entry leaves a full table.
markProcessed_Newest(m) ==
  table' = IF Len(table) < TableLimit THEN Append(table, m) ELSE table

markProcessed(m) ==
  LET grown == Append(table, m)
  IN  table' = IF Len(grown) > TableLimit THEN Tail(grown) ELSE grown

\* The parts of a redelivery may be the ones we wrote into or fresh ones.
isMessageAlreadyProcessed(m, sameParts) ==
  Contains(table, m) \/ (sameParts /\ m \in marked)

\* Check and mark, with no await between them.
Deliver(m) ==
  /\ Len(handled) < MaxHandled
  /\ \E sameParts \in BOOLEAN : ~ isMessageAlreadyProcessed(m, sameParts)
  /\ markProcessed(m)
  /\ handled' = Append(handled, m)
  /\ pending' = pending \cup {m}
  /\ UNCHANGED marked

\* The handling ends, perhaps with a part put into the message.
Handled(m) ==
  /\ m \in pending
  /\ pending' = pending \ {m}
  /\ marked' \in {marked, marked \cup {m}}
  /\ UNCHANGED <<table, handled>>

GuardInit == table = << >> /\ marked = {} /\ pending = {} /\ handled = << >>

GuardNext == \E m \in MessageId : Deliver(m) \/ Handled(m)

GuardSpec == GuardInit /\ [][GuardNext]_guardVars

-----------------------------------------------------------------------------
(* Properties.                                                             *)

GuardTypeOK ==
  /\ table \in Seq(MessageId) /\ Len(table) <= TableLimit
  /\ marked \subseteq MessageId /\ pending \subseteq MessageId
  /\ handled \in Seq(MessageId) /\ Len(handled) <= MaxHandled

\* A message is handled again only after as many others as the table holds:
\* a duplicate that comes earlier is dropped, awaited or not.
HandledOnceInAWhile ==
  \A i, j \in 1 .. Len(handled) :
    i < j /\ handled[i] = handled[j] =>
      Cardinality({handled[k] : k \in (i + 1) .. (j - 1)}) >= TableLimit
=============================================================================
