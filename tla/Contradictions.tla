----------------------------- MODULE Contradictions -----------------------------
(***************************************************************************)
(* Conflicts between nodes of the context, resolved by the authority of    *)
(* their words.                                                            *)
(* Code: src/src/verification/contradiction-resolution.js.                 *)
(*                                                                         *)
(* A node is its type and the classes whose words its content has.  It may *)
(* be reworded or leave the graph while a conflict about it is open.       *)
(***************************************************************************)
EXTENDS Naturals, Sequences, FiniteSetsExt

CONSTANTS Claim,       \* ids of nodes
          ContextNode, \* what nodes are: a type, the classes their words are of
          Gone         \* no such node; no winner

VARIABLES graphNodes, \* id -> [type, words], or Gone
          conflict    \* the conflict raised, or Gone

contradictionVars == <<graphNodes, conflict>>

\* AUTHORITY_PRECEDENCE, the highest first.
Precedence == <<"user_decided", "constraint", "evidence", "decision", "inferred", "unknown">>
Standing(authority) == CHOOSE k \in DOMAIN Precedence : Precedence[k] = authority

\* A type is looked at class by class, like the words: a decision whose text says
\* "must" is a constraint, and no type is a user's decision.
getAuthorityType(node) ==
  Precedence[Min({k \in DOMAIN Precedence :
                    Precedence[k] \in node.words \cup {node.type, "unknown"}})]

\* The first wins a tie.
compareAuthority(a, b) == IF Standing(b) < Standing(a) THEN b ELSE a

createConflict(a, b) ==
  /\ conflict = Gone /\ a # b
  /\ Gone \notin {graphNodes[a], graphNodes[b]}
  /\ conflict' = [nodeA |-> a, nodeB |-> b, status |-> "UNRESOLVED", winner |-> Gone,
                  authorityA |-> getAuthorityType(graphNodes[a]),
                  authorityB |-> getAuthorityType(graphNodes[b])]
  /\ UNCHANGED graphNodes

\* What it was resolved to before stays in it when a node is gone.
resolveConflict ==
  /\ conflict # Gone
  /\ LET a == graphNodes[conflict.nodeA]
         b == graphNodes[conflict.nodeB]
     IN  conflict' =
           IF Gone \in {a, b} THEN [conflict EXCEPT !.status = "UNRESOLVED"]
           ELSE LET first == getAuthorityType(a)
                    second == getAuthorityType(b)
                IN  [conflict EXCEPT
                       !.authorityA = first, !.authorityB = second,
                       !.winner = IF compareAuthority(first, second) = first
                                  THEN conflict.nodeA ELSE conflict.nodeB,
                       !.status = "RESOLVED"]
  /\ UNCHANGED graphNodes

\* BLOCKING_TYPES are looked for in the task's content only.
shouldBlock(critical) == conflict.status = "UNRESOLVED" \/ critical

Reword(n, node) ==
  /\ graphNodes[n] # node
  /\ graphNodes' = [graphNodes EXCEPT ![n] = node]
  /\ UNCHANGED conflict

ContradictionsInit ==
  /\ graphNodes = [n \in Claim |-> Gone] /\ conflict = Gone

ContradictionsNext ==
  \/ \E a, b \in Claim : createConflict(a, b)
  \/ resolveConflict
  \/ \E n \in Claim, node \in ContextNode \cup {Gone} : Reword(n, node)

ContradictionsSpec == ContradictionsInit /\ [][ContradictionsNext]_contradictionVars

-----------------------------------------------------------------------------
\* A resolved conflict was won by a node no weaker than the other and stops
\* nobody on its own; an open one always stops the work.
ContradictionsTypeOK ==
  /\ graphNodes \in [Claim -> ContextNode \cup {Gone}]
  /\ conflict # Gone =>
       /\ conflict.nodeA \in Claim /\ conflict.nodeB \in Claim \ {conflict.nodeA}
       /\ conflict.status \in {"UNRESOLVED", "RESOLVED"}
       /\ conflict.status = "RESOLVED" =>
            LET a == Standing(conflict.authorityA)
                b == Standing(conflict.authorityB)
            IN  conflict.winner = IF b < a THEN conflict.nodeB ELSE conflict.nodeA
       /\ shouldBlock(FALSE) <=> conflict.status = "UNRESOLVED"
=============================================================================
