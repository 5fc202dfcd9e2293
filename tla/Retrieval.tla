-------------------------------- MODULE Retrieval --------------------------------
(***************************************************************************)
(* What is measured of retrieved context: which items and sources proved   *)
(* useful, what had been left out and had to be fetched after all, and     *)
(* what each layer's budget holds.                                         *)
(* Code: src/src/context/context-feedback-loop.js,                         *)
(* src/src/context/page-fault-tracker.js,                                  *)
(* src/src/context/context-budget-manager.js.                              *)
(***************************************************************************)
EXTENDS Naturals, Sequences, SequencesExt, FiniteSets, FiniteSetsExt

CONSTANTS Piece,       \* items of context
          Origin,      \* the sources they come from
          BudgetLayer,       \* layers with a budget
          Minimum,     \* layer -> the budget it cannot go below
          Price,       \* the tokens an item may cost
          Allowance,   \* the budgets that are set
          MaxFeedback, \* the bound on feedback and on fetches
          Absent       \* not tracked, not seen

VARIABLES feedback,  \* the events of the loop, oldest first
          itemStats, \* item -> [total, useful, lastUsed], or Absent
          sourceStats,
          omissions, \* item -> the tokens it was left out with, or Absent
          faults,    \* the fetches of what was left out
          budgets,   \* layer -> tokens
          tracked    \* the items in their layers, in the order they came

feedbackVars == <<feedback, itemStats, sourceStats>>
faultVars == <<omissions, faults>>
budgetVars == <<budgets, tracked>>
retrievalVars == <<feedback, itemStats, sourceStats, omissions, faults, budgets, tracked>>

ASSUME RetrievalAssumption ==
  /\ Minimum \in [BudgetLayer -> Nat] /\ Price \subseteq Nat /\ Allowance \subseteq Nat
  /\ Absent \notin Nat /\ Absent \notin [total: Nat, useful: Nat, lastUsed: Nat]

-----------------------------------------------------------------------------
(* Feedback: a score is useful out of total.                                *)

Counted(stats, useful, n) ==
  LET was == IF stats = Absent THEN [total |-> 0, useful |-> 0, lastUsed |-> 0] ELSE stats
  IN  [total |-> was.total + 1,
       useful |-> was.useful + IF useful THEN 1 ELSE 0,
       lastUsed |-> n]

\* The event that gives neither useful nor useless throws before this.
Feed(p, o, useful) ==
  /\ Len(feedback) < MaxFeedback
  /\ LET n == Len(feedback) + 1
     IN  /\ feedback' = Append(feedback, [item |-> p, origin |-> o, useful |-> useful])
         /\ itemStats' = [itemStats EXCEPT ![p] = Counted(@, useful, n)]
         /\ sourceStats' = [sourceStats EXCEPT ![o] = Counted(@, useful, n)]
  /\ UNCHANGED <<faultVars, budgetVars>>

getUselessItems(minUseless) ==
  {p \in Piece : itemStats[p] # Absent
                   /\ itemStats[p].total - itemStats[p].useful >= minUseless}

\* A score below a fifth, of two events or more.
getLowPerformSources ==
  {o \in Origin : sourceStats[o] # Absent
                    /\ sourceStats[o].total >= 2
                    /\ 5 * sourceStats[o].useful < sourceStats[o].total}

\* Only what was never useless, the latest used first.
getTopItems ==
  LET top == {p \in Piece : itemStats[p] # Absent
                              /\ itemStats[p].useful = itemStats[p].total}
      Later(p) == {q \in top : itemStats[q].lastUsed > itemStats[p].lastUsed}
  IN  [n \in 1..Cardinality(top) |-> CHOOSE p \in top : Cardinality(Later(p)) = n - 1]

resetFeedback ==
  /\ feedback' = <<>> /\ itemStats' = [p \in Piece |-> Absent]
  /\ sourceStats' = [o \in Origin |-> Absent]
  /\ UNCHANGED <<faultVars, budgetVars>>

-----------------------------------------------------------------------------
(* Page faults.  An omission outlives the fetch that makes up for it, so    *)
(* every later fetch of the item is a fault too.                            *)

recordOmission(p, n) ==
  /\ omissions' = [omissions EXCEPT ![p] = n]
  /\ UNCHANGED <<faults, feedbackVars, budgetVars>>

\* A fetch of what was not left out is not recorded.
recordFetch(p) ==
  /\ Len(faults) < MaxFeedback
  /\ omissions[p] # Absent
  /\ faults' = Append(faults, [item |-> p, tokens |-> omissions[p]])
  /\ UNCHANGED <<omissions, feedbackVars, budgetVars>>

\* Fetches are counted as faults, so the rate is nothing or everything.
faultRate == IF faults = <<>> THEN 0 ELSE Len(faults) \div Len(faults)

resetFaults ==
  /\ omissions' = [p \in Piece |-> Absent] /\ faults' = <<>>
  /\ UNCHANGED <<feedbackVars, budgetVars>>

-----------------------------------------------------------------------------
(* Budgets.                                                                 *)

\* The items are their places in the list.
InLayer(l) == {k \in DOMAIN tracked : tracked[k].layer = l}
TokensOf(items) ==
  LET sum[n \in 0..Len(tracked)] ==
        IF n = 0 THEN 0
        ELSE sum[n - 1] + IF n \in items THEN tracked[n].tokens ELSE 0
  IN  sum[Len(tracked)]
Used(l) == TokensOf(InLayer(l))

setBudget(l, n) ==
  /\ n >= Minimum[l]
  /\ budgets' = [budgets EXCEPT ![l] = n]
  /\ UNCHANGED <<tracked, feedbackVars, faultVars>>

\* An item that is tracked moves, layer and tokens, in its place; a layer that
\* is none throws before this.
addItem(l, p, n) ==
  /\ tracked' = IF \E k \in DOMAIN tracked : tracked[k].item = p
                THEN [k \in DOMAIN tracked |->
                        IF tracked[k].item = p THEN [item |-> p, layer |-> l, tokens |-> n]
                        ELSE tracked[k]]
                ELSE Append(tracked, [item |-> p, layer |-> l, tokens |-> n])
  /\ UNCHANGED <<budgets, feedbackVars, faultVars>>

\* The others, in their order.
Without(p) ==
  LET rest[n \in 0..Len(tracked)] ==
        IF n = 0 THEN <<>>
        ELSE IF tracked[n].item # p THEN Append(rest[n - 1], tracked[n]) ELSE rest[n - 1]
  IN  rest[Len(tracked)]

removeItem(p) ==
  /\ \E k \in DOMAIN tracked : tracked[k].item = p
  /\ tracked' = Without(p)
  /\ UNCHANGED <<budgets, feedbackVars, faultVars>>

\* The cheapest go first, whatever admission they had, until enough is freed.
suggestEviction(l) ==
  LET Before(k) == {j \in InLayer(l) :
                      \/ tracked[j].tokens < tracked[k].tokens
                      \/ tracked[j].tokens = tracked[k].tokens /\ j < k}
      Cheapest(n) == {k \in InLayer(l) : Cardinality(Before(k)) < n}
      enough == {n \in 0..Len(tracked) :
                   TokensOf(Cheapest(n)) + budgets[l] >= Used(l)}
  IN  Cheapest(Min(enough))

checkViolations == {l \in BudgetLayer : Used(l) > budgets[l]}

RetrievalInit ==
  /\ feedback = <<>> /\ itemStats = [p \in Piece |-> Absent]
  /\ sourceStats = [o \in Origin |-> Absent]
  /\ omissions = [p \in Piece |-> Absent] /\ faults = <<>>
  /\ budgets = Minimum /\ tracked = <<>>

FeedbackNext ==
  \/ \E p \in Piece, o \in Origin, useful \in BOOLEAN : Feed(p, o, useful)
  \/ resetFeedback
FaultNext ==
  \/ \E p \in Piece : recordFetch(p) \/ \E n \in Price : recordOmission(p, n)
  \/ resetFaults
BudgetNext ==
  \/ \E l \in BudgetLayer : \/ \E n \in Allowance : setBudget(l, n)
                             \/ \E p \in Piece, c \in Price : addItem(l, p, c)
  \/ \E p \in Piece : removeItem(p)
RetrievalNext == FeedbackNext \/ FaultNext \/ BudgetNext

RetrievalSpec == RetrievalInit /\ [][RetrievalNext]_retrievalVars

-----------------------------------------------------------------------------
\* The statistics are those of the events, whatever order they came in and
\* however often the loop was reset; an item among the best was never useless
\* and the best are those last used; a fault is of something left out; what is
\* suggested for eviction brings a layer that is over its budget into it; and no
\* budget is below its minimum.
RetrievalTypeOK ==
  /\ \A p \in Piece :
       LET of == {k \in DOMAIN feedback : feedback[k].item = p}
       IN  IF itemStats[p] = Absent THEN of = {}
           ELSE /\ itemStats[p].total = Cardinality(of)
                /\ itemStats[p].useful = Cardinality({k \in of : feedback[k].useful})
                /\ itemStats[p].lastUsed \in of /\ \A k \in of : k <= itemStats[p].lastUsed
  /\ \A o \in getLowPerformSources : \E k \in DOMAIN feedback :
       feedback[k].origin = o /\ ~feedback[k].useful
  /\ Range(getTopItems) \cap getUselessItems(1) = {}
  /\ \A k \in DOMAIN faults : omissions[faults[k].item] # Absent /\ faultRate = 1
  /\ \A l \in BudgetLayer :
       /\ budgets[l] >= Minimum[l]
       /\ LET out == suggestEviction(l)
          IN  /\ Used(l) - TokensOf(out) <= budgets[l]
              /\ (out # {}) <=> l \in checkViolations
  /\ \A j, k \in DOMAIN tracked : tracked[j].item = tracked[k].item => j = k
=============================================================================
