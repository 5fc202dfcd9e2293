---------------------------- MODULE ContextAssembly ----------------------------
(***************************************************************************)
(* What goes into a prompt: the graph built from a task's state, the nodes *)
(* the router selects from it within a budget, and the lines the assembly  *)
(* emits of them.                                                          *)
(* Code: src/src/context/context-graph-builder.js, runtime-context-graph   *)
(* .js, context-router.js, assembly.js, src/src/integration/router-adapter *)
(* .js.                                                                    *)
(*                                                                         *)
(* Texts count by their tokens.  Relevance only orders nodes, so which of  *)
(* two nodes that do not both fit is taken is a choice; so is whether a    *)
(* node shares a word with the prompt.  No instance has the six category   *)
(* nodes or nine requirements that caps in the code would cut.             *)
(***************************************************************************)
EXTENDS ContextGraph, FiniteSetsExt

CONSTANTS PromptTask, \* the task the prompt is for, a node
          UpstreamDepth, \* how far the router looks for dependencies, 5
          Tokens,  \* what the router reckons for each node
          Budgets, \* the budgets a prompt may have
          Costs,   \* what a line may cost
          MaxLines \* the bound on the optional lines of a stage

ASSUME AssemblyAssumption ==
  /\ PromptTask \in Node /\ Kind[PromptTask] = "task"
  /\ UpstreamDepth \in Nat \ {0, 1}
  /\ Tokens \in [Node -> Nat \ {0}] /\ Budgets \subseteq Nat
  /\ Costs \subseteq Nat \ {0} /\ MaxLines \in Nat

VARIABLES built,  \* the graph of this prompt
          stage,  \* where the assembly is
          limit,  \* the budget of the prompt
          flex,   \* what is left of it
          spent,  \* the tokens of the lines so far
          fixed,  \* of those, the tokens of the mandatory lines
          todo,   \* the nodes the router selected and nothing emitted yet
          lines,  \* the optional lines that may still come in this stage
          skillBudget, \* what skills may still take
          verdict \* of the router, then of the assembly

assemblyVars ==
  <<built, stage, limit, flex, spent, fixed, todo, lines, skillBudget, verdict>>

-----------------------------------------------------------------------------
(* The graph of the task's state.                                           *)

Category == {"evidence", "decision", "constraint", "observation"}

\* The edge of a node that names target; of evidence and decisions only a
\* requirement of the state counts, of the others any.
Link(n, target, items) ==
  CASE Kind[n] = "requirement" -> <<PromptTask, "requires_completion", n>>
    [] Kind[n] = "output" -> <<PromptTask, "related_to", n>>
    [] Kind[n] = "artifact" -> <<PromptTask, "produces", n>>
    [] Kind[n] \in {"evidence", "decision"} ->
         <<n, "supports", IF target \in items THEN target ELSE PromptTask>>
    [] Kind[n] = "constraint" -> <<target, "related_to", n>>
    [] Kind[n] = "action" -> <<n, "produces", target>>
    [] OTHER -> <<n, "related_to", target>>

Links(items, target) == {Link(n, target[n], items) : n \in items \ {PromptTask}}

BuiltGraph(items, target) ==
  [node |-> [n \in Node |-> IF n \in items THEN Plain(Kind[n]) ELSE NoNode],
   from |-> Links(items, target), to |-> Links(items, target)]

-----------------------------------------------------------------------------
(* resolveContext.                                                          *)

Cost(S) == MapThenSumSet(LAMBDA n : Tokens[n], S)
Type(g, n) == g.node[n].type

\* The task, what it depends on, and what those produce.
Causal(g, upstream) ==
  LET closure == {PromptTask} \cup getDependencies(g, PromptTask) \cup upstream
  IN  closure \cup {e[3] : e \in {f \in g.from : f[1] \in closure /\ f[2] = "produces"}}

\* The category nodes that touch the task.
Attached(g) ==
  {n \in Nodes(g) :
     /\ Type(g, n) \in Category
     /\ \/ \E e \in EdgesTo(g, PromptTask) : e[1] = n
        \/ <<PromptTask, "related_to", n>> \in g.from}

\* With the evidence and the requirements of the outputs among them.
Required(g, upstream, relevant) ==
  LET direct == Causal(g, upstream) \cup (Attached(g) \cap relevant)
      outputs == {n \in direct \cap Nodes(g) : Type(g, n) = "output"}
  IN  direct \cup {e[1] : e \in {f \in g.to : /\ f[3] \in outputs
                                             /\ f[2] \in {"supports", "requires_output"}}}

Mandatory(g, n) ==
  \/ n = PromptTask \/ Type(g, n) \in {"task", "requirement"}
  \/ (\E e \in EdgesTo(g, PromptTask) : e[1] = n) /\ Type(g, n) \notin Category

Conditional(g, n) == ~Mandatory(g, n) /\ Type(g, n) \in Category \ {"observation"}

\* What a pass over S, in some order, adds to base within the budget.
Fillings(base, S, budget) ==
  {C \in SUBSET S :
     /\ C # {} => Cost(base \cup C) <= budget
     /\ \A n \in S \ C : Cost(base \cup C) + Tokens[n] > budget}

\* The answers the router may give when its search has found upstream.
AnswersFrom(g, upstream, budget, relevant) ==
  LET required == Required(g, upstream, relevant) \cap Nodes(g)
      gone == Required(g, upstream, relevant) \ Nodes(g)
      mandatory == {n \in required : Mandatory(g, n)}
      conditional == {n \in required : Conditional(g, n)}
      conflict == \E n \in required : getContradicting(g, n) \cap required # {}
      bad == gone # {} \/ Cost(mandatory) > budget
      Answer(S) ==
        [nodes |-> S,
         status |-> CASE conflict -> "CONFLICTED" [] ~conflict /\ bad -> "INSUFFICIENT"
                      [] OTHER -> IF S # required THEN "PARTIAL" ELSE "COMPLETE",
         sufficient |-> ~conflict /\ ~bad]
      AnswersWith(C) ==
        {Answer(mandatory \cup C \cup O) :
           O \in Fillings(mandatory \cup C, required \ (mandatory \cup conditional), budget)}
  IN  UNION {AnswersWith(C) : C \in Fillings(mandatory, conditional, budget)}

resolveContext(g, budget, relevant) ==
  UNION {AnswersFrom(g, upstream, budget, relevant) :
           upstream \in getUpstream(g, PromptTask, UpstreamDepth)}

-----------------------------------------------------------------------------
(* assembleContext.                                                         *)

\* Mutant: the budget dropping the cognition freed is given out, although the
\* lines that remain may need it.
Reserve_Freed(head, cognition) ==
  LET over == head + cognition > limit
  IN  /\ spent' = IF over THEN head ELSE head + cognition
      /\ flex' = IF over THEN cognition ELSE limit - head - cognition

\* The policy and the state of the task are always emitted.  If they and the
\* cognition are over the budget the cognition is dropped, which frees nothing.
Reserve(head, cognition) ==
  LET over == head + cognition > limit
  IN  /\ spent' = IF over THEN head ELSE head + cognition
      /\ flex' = IF over THEN 0 ELSE limit - head - cognition

BeginPrompt ==
  /\ stage = "begin"
  /\ \E head \in Costs, cognition \in Costs \cup {0} :
       Reserve(head, cognition) /\ fixed' = head
  /\ \/ stage' = "project"
     \/ stage' = "finish"   \* a continuation
  /\ UNCHANGED <<built, limit, todo, lines, skillBudget, verdict>>

\* A line is emitted if it fits, and left out if it does not.
SpendTokens(cost) ==
  IF cost > flex THEN UNCHANGED <<flex, spent>>
  ELSE flex' = flex - cost /\ spent' = spent + cost

\* The lines about the project.
ProjectLine ==
  /\ stage = "project" /\ lines > 0
  /\ \E cost \in Costs : SpendTokens(cost)
  /\ lines' = lines - 1
  /\ UNCHANGED <<built, stage, limit, fixed, todo, skillBudget, verdict>>

\* A trivial request needs no session context.
SkipRouting ==
  /\ stage = "project" /\ lines = MaxLines
  /\ stage' = "finish"
  /\ UNCHANGED <<built, limit, flex, spent, fixed, todo, lines, skillBudget, verdict>>

\* The adapter turns nodes into capsules; that of the task itself is passed over.
AdaptedNodes(answer) == answer.nodes \ {PromptTask}
AdaptedVerdict(answer) == IF answer.sufficient THEN "ok" ELSE "insufficient"

\* Build the graph and route it.  Stored capsules come on top of what the
\* router selects; if a layer names a requirement the state does not have, the
\* whole call throws.
Route ==
  /\ stage = "project"
  /\ \E others \in SUBSET (Node \ {PromptTask}) :
       \E target \in [others -> {n \in Node : Kind[n] \in {"task", "requirement"}}],
          relevant \in SUBSET {n \in others : Kind[n] \in Category} :
         LET items == others \cup {PromptTask}
             g == BuiltGraph(items, target)
         IN  IF \E e \in g.from : {e[1], e[3]} \ items # {}
             THEN stage' = "thrown" /\ UNCHANGED <<built, todo, verdict>>
             ELSE \E answer \in resolveContext(g, flex, relevant) :
                    /\ built' = g /\ stage' = "session"
                    /\ todo' = AdaptedNodes(answer)
                    /\ verdict' = AdaptedVerdict(answer)
  /\ lines' = MaxLines
  /\ UNCHANGED <<limit, flex, spent, fixed, skillBudget>>

IsRequirement(n) == Type(built, n) = "requirement"

\* Stored capsules and other nodes come first, the requirements last.
SessionLine ==
  /\ stage = "session"
  /\ \E cost \in Costs : SpendTokens(cost)
  /\ \/ lines > 0 /\ lines' = lines - 1 /\ UNCHANGED todo
     \/ /\ \E n \in todo :
             /\ (\E m \in todo : ~IsRequirement(m)) => ~IsRequirement(n)
             /\ todo' = todo \ {n}
        /\ UNCHANGED lines
  /\ UNCHANGED <<built, stage, limit, fixed, skillBudget, verdict>>

\* The warning of an insufficient answer counts as mandatory, emitted or not;
\* two fifths of what is then left are for skills.
EndSession ==
  /\ stage = "session" /\ todo = {}
  /\ IF verdict = "insufficient"
     THEN \E cost \in Costs : SpendTokens(cost) /\ fixed' = fixed + cost
     ELSE UNCHANGED <<flex, spent, fixed>>
  /\ stage' = "skills" /\ lines' = MaxLines
  /\ skillBudget' = (2 * flex') \div 5
  /\ UNCHANGED <<built, limit, todo, verdict>>

SkillLine ==
  /\ stage = "skills" /\ lines > 0 /\ skillBudget > 0
  /\ \E cost \in Costs :
       /\ SpendTokens(cost)
       /\ skillBudget' = IF cost > flex THEN skillBudget
                         ELSE IF cost >= skillBudget THEN 0 ELSE skillBudget - cost
  /\ lines' = lines - 1
  /\ UNCHANGED <<built, stage, limit, fixed, todo, verdict>>

EndSkills ==
  /\ stage = "skills" /\ stage' = "finish"
  /\ UNCHANGED <<built, limit, flex, spent, fixed, todo, lines, skillBudget, verdict>>

\* The router's verdict counts if there is one, else whether the mandatory
\* lines fit.
Finish ==
  /\ stage = "finish" /\ stage' = "done"
  /\ verdict' = CASE verdict = "ok" -> "sufficient"
                  [] verdict = "insufficient" -> "insufficient"
                  [] OTHER -> IF fixed > limit THEN "insufficient" ELSE "sufficient"
  /\ UNCHANGED <<built, limit, flex, spent, fixed, todo, lines, skillBudget>>

-----------------------------------------------------------------------------
AssemblyInit ==
  /\ built = EmptyGraph /\ stage = "begin" /\ limit \in Budgets /\ flex = 0
  /\ spent = 0 /\ fixed = 0 /\ todo = {} /\ lines = MaxLines /\ skillBudget = 0
  /\ verdict = "none"

AssemblyNext ==
  \/ BeginPrompt \/ ProjectLine \/ SkipRouting \/ Route \/ SessionLine
  \/ EndSession \/ SkillLine \/ EndSkills \/ Finish

AssemblySpec == AssemblyInit /\ [][AssemblyNext]_assemblyVars

-----------------------------------------------------------------------------
\* The assembly keeps its types.
AssemblyTypeOK ==
  /\ stage \in {"begin", "project", "session", "skills", "finish", "done", "thrown"}
  /\ limit \in Budgets /\ {flex, spent, fixed, lines, skillBudget} \subseteq Nat
  /\ todo \subseteq Node
  /\ verdict \in {"none", "ok", "sufficient", "insufficient"}

\* Nothing in S depends on anything outside it.
NeedsNoMore(g, S) ==
  \A e \in g.from : e[1] \in S /\ e[2] \in DEPENDENCY_TYPES => e[3] \in S

\* A chain of k links leads from the task along next, over different nodes.
Chain(next, k) ==
  \E c \in [0..k -> Node] :
    /\ c[0] = PromptTask
    /\ \A i \in 0..(k-1) : c[i+1] \in next[c[i]]
    /\ \A i, j \in 0..k : c[i] = c[j] => i = j

\* What the task depends on, however far off.
Needed(g) ==
  {n \in Node : \A S \in SUBSET Node : PromptTask \in S /\ NeedsNoMore(g, S) => n \in S}

\* The complete answers the router may give of the graph as it is.
CompleteAnswers ==
  {answer \in UNION {resolveContext(graph, b, relevant) :
                       b \in Budgets, relevant \in SUBSET Attached(graph)} :
     answer.status = "COMPLETE"}

\* An answer that calls itself complete holds, of every graph the operations
\* build and in whatever order its edges were added, what the task depends on
\* over two links; unless a chain of links leads further from the task than the
\* search goes, all that it depends on; and no two nodes that contradict each
\* other (getUpstream, resolveContext, phases 1 to 9).
CompleteIsClosed ==
  PromptTask \in Nodes(graph) =>
    LET next == Ahead(graph)
    IN  \A answer \in CompleteAnswers :
          /\ \A m \in next[PromptTask] : {m} \cup next[m] \subseteq answer.nodes
          /\ ~Chain(next, UpstreamDepth + 1) => Needed(graph) \subseteq answer.nodes
          /\ \A e \in graph.from :
               e[2] = "contradicts" => {e[1], e[3]} \ answer.nodes # {}

\* However many optional lines ask for room, a prompt exceeds its budget only by
\* the lines that must be in it; and a verdict of sufficient means those fit
\* (reserve, spend, dropByAdmission, the admission report).
BudgetIsKept ==
  /\ spent > limit => spent <= fixed
  /\ stage = "done" /\ verdict = "sufficient" => fixed <= limit
=============================================================================
