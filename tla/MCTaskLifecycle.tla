--------------------------- MODULE MCTaskLifecycle --------------------------
(***************************************************************************)
(* Small instances of TaskLifecycle.                                       *)
(***************************************************************************)
EXTENDS TaskLifecycle

CONSTANTS q1, a1, a2

\* One prompt for each way through the handlers.
MCPrompt ==
  {[kind |-> "work",    impact |-> TRUE,  uncertain |-> TRUE],
   [kind |-> "work",    impact |-> FALSE, uncertain |-> FALSE],
   [kind |-> "answer",  impact |-> FALSE, uncertain |-> TRUE],
   [kind |-> "confirm", impact |-> FALSE, uncertain |-> TRUE],
   [kind |-> "done",    impact |-> TRUE,  uncertain |-> TRUE],
   [kind |-> "done",    impact |-> FALSE, uncertain |-> FALSE],
   [kind |-> "ready",   impact |-> FALSE, uncertain |-> TRUE]}

MCPromptQuestion == {q1}
OneAssumption == {a1}
TwoAssumptions == {a1, a2}

\* decisions.md knows nothing, or the question of the second assumption.
NothingDecided == {}
OneDecided == {a2}

\* Enough to ask, to answer, to approve and to claim completion.
FewPrompts == {p \in MCPrompt : p.kind \in {"answer", "done"}}

\* A hand-written record: an approved contract whose requirements are done, the
\* first with a check that was not run, the second with one that passed.
MCImported ==
  {[phase |-> "IMPLEMENTING", contract |-> "APPROVED", strategy |-> TRUE,
    req |-> [r \in Req |-> "done"], evidence |-> Req,
    unknown |-> [q \in Question |-> "absent"],
    covers |-> [q \in Question |-> NoAssumption],
    assumption |-> [a \in Assumption |-> "active"],
    checks |-> [r \in Req |-> IF r = 1 THEN c ELSE "none"]] :
     c \in {"notRun", "pass"}}

=============================================================================
