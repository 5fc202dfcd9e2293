------------------------ MODULE TaskLifecycleProofs ------------------------
(***************************************************************************)
(* Every record the plugin writes is well formed, for any number of        *)
(* requirements, questions, assumptions, messages, verifications and calls;*)
(* answers stand, a task that asks is not carried out, and a message       *)
(* completes a task only through the gate.                                 *)
(*                                                                         *)
(* The lemmas say it of the edits of a record, one by one.  The invariants *)
(* (Inv, then Clarity on top of it) follow action by action; they must     *)
(* speak of the records that the verifications hold as well, because a     *)
(* verification writes back what it read before its checks ran.  The four  *)
(* action properties follow from them: each is a fact about one edit,      *)
(* applied to a record that satisfies the invariants.                      *)
(***************************************************************************)
EXTENDS TaskLifecycle, TLAPS, WellFoundedInduction

\* An approval with nothing left to ask keeps a record well formed
\* (approveContract).
LEMMA ApprovedWellFormed ==
  ASSUME NEW t, WellFormed(t), Clear(t)
  PROVE  WellFormed(Approved(t))
<1> DEFINE u == Approved(t)
<1>1. u \in Task
  BY DEF WellFormed, Task, Approved, Phase, Executing, ContractStatus
<1>2. /\ u.contract = "APPROVED"
      /\ u.phase = IF t.phase = "DONE" THEN "DONE" ELSE "IMPLEMENTING"
      /\ u.req = t.req /\ u.evidence = t.evidence
      /\ u.unknown = t.unknown /\ u.covers = t.covers
      /\ u.assumption = t.assumption
  BY DEF WellFormed, Task, Approved
<1>3. Backed(u)
  BY <1>2 DEF WellFormed, Backed
<1>4. Askable(u)
  BY <1>2 DEF WellFormed, Askable
<1>5. Executable(u)
  BY <1>2 DEF Executable, Executing, Clear, Blocking, Critical
<1> QED
  BY <1>1, <1>3, <1>4, <1>5 DEF WellFormed

\* A rejection keeps a record well formed (rejectContract).
LEMMA RejectedWellFormed ==
  ASSUME NEW t, WellFormed(t)
  PROVE  WellFormed(Rejected(t))
<1> DEFINE u == Rejected(t)
<1>1. u \in Task
  BY DEF WellFormed, Task, Rejected, Phase, Executing, ContractStatus
<1>2. /\ u.contract = "REJECTED" /\ u.phase = "WAITING"
      /\ u.req = t.req /\ u.evidence = t.evidence
      /\ u.unknown = t.unknown /\ u.covers = t.covers
      /\ u.assumption = t.assumption
  BY DEF WellFormed, Task, Rejected
<1>3. Backed(u) /\ Askable(u) /\ Executable(u)
  BY <1>2 DEF WellFormed, Backed, Askable, Executable, Executing
<1> QED
  BY <1>1, <1>3 DEF WellFormed

\* An edit leads back to PROPOSED with the requirements it had, or with new
\* pending ones (editContract).
LEMMA EditedWellFormed ==
  ASSUME NEW t, WellFormed(t)
  PROVE  /\ WellFormed([t EXCEPT !.contract = "PROPOSED", !.phase = "PROPOSED"])
         /\ \A n \in 0 .. MaxReq :
              WellFormed([t EXCEPT !.contract = "PROPOSED", !.phase = "PROPOSED",
                                   !.req = Pending(n), !.evidence = {}])
<1> DEFINE kept == [t EXCEPT !.contract = "PROPOSED", !.phase = "PROPOSED"]
<1>1. WellFormed(kept)
  <2>1. kept \in Task
    BY DEF WellFormed, Task, Phase, Executing, ContractStatus
  <2>2. /\ kept.phase = "PROPOSED"
        /\ kept.req = t.req /\ kept.evidence = t.evidence
        /\ kept.unknown = t.unknown /\ kept.covers = t.covers
        /\ kept.assumption = t.assumption
    BY DEF WellFormed, Task
  <2>3. Backed(kept) /\ Askable(kept) /\ Executable(kept)
    BY <2>2 DEF WellFormed, Backed, Askable, Executable, Executing
  <2> QED
    BY <2>1, <2>3 DEF WellFormed
<1>2. ASSUME NEW n \in 0 .. MaxReq
      PROVE  WellFormed([t EXCEPT !.contract = "PROPOSED", !.phase = "PROPOSED",
                                  !.req = Pending(n), !.evidence = {}])
  <2> DEFINE u == [t EXCEPT !.contract = "PROPOSED", !.phase = "PROPOSED",
                            !.req = Pending(n), !.evidence = {}]
  <2>1. Pending(n) \in [Req -> {"pending", "absent"}]
    BY DEF Pending
  <2>2. u \in Task
    BY <2>1 DEF WellFormed, Task, Phase, Executing, ContractStatus, RequirementStatus
  <2>3. /\ u.phase = "PROPOSED" /\ u.req = Pending(n)
        /\ u.unknown = t.unknown /\ u.covers = t.covers
        /\ u.assumption = t.assumption
    BY DEF WellFormed, Task
  <2>4. Backed(u) /\ Askable(u) /\ Executable(u)
    BY <2>1, <2>3 DEF WellFormed, Backed, Askable, Executable, Executing
  <2> QED
    BY <2>2, <2>4 DEF WellFormed
<1> QED
  BY <1>1, <1>2

\* Answering questions resolves what they cover, so every assumption that still
\* blocks keeps its question (answerQuestion, answerFromMessage).
LEMMA AnsweredWellFormed ==
  ASSUME NEW t, WellFormed(t), NEW Q \in SUBSET Question,
         \A q \in Q : t.unknown[q] # "absent",
         NEW phase \in {"PROPOSED", "ANSWERED"}
  PROVE  WellFormed([Answered(t, Q) EXCEPT !.phase = phase])
<1> DEFINE unknown == [q \in Question |-> IF q \in Q THEN "answered" ELSE t.unknown[q]]
           assumption == [a \in Assumption |-> IF \E q \in Q : t.covers[q] = a
                                                 THEN "resolved" ELSE t.assumption[a]]
           u == [Answered(t, Q) EXCEPT !.phase = phase]
<1>1. /\ unknown \in [Question -> UnknownStatus]
      /\ assumption \in [Assumption -> AssumptionStatus]
  BY DEF WellFormed, Task, UnknownStatus, AssumptionStatus
<1>2. u = [t EXCEPT !.unknown = unknown, !.assumption = assumption, !.phase = phase]
  BY DEF Answered, WellFormed, Task
<1> HIDE DEF unknown, assumption, u
<1>3. u \in Task
  BY <1>1, <1>2 DEF WellFormed, Task, Phase, Executing
<1>4. /\ u.phase = phase /\ u.req = t.req /\ u.evidence = t.evidence
      /\ u.unknown = unknown /\ u.covers = t.covers /\ u.assumption = assumption
  BY <1>2 DEF WellFormed, Task
<1>5. Backed(u) /\ Executable(u)
  BY <1>4 DEF WellFormed, Backed, Executable, Executing
<1>6. Askable(u)
  <2>1. \A a \in Assumption : u.assumption[a] = "blocking" =>
          \E q \in Question : u.covers[q] = a /\ u.unknown[q] = "blocking"
    BY <1>4 DEF WellFormed, Askable, unknown, assumption
  <2>2. \A a \in Assumption : \/ u.covers[a] = a
                              \/ u.covers[a] = NoAssumption /\ u.unknown[a] = "absent"
    BY <1>4 DEF WellFormed, Askable, unknown, Question
  <2> QED
    BY <1>4, <2>1, <2>2 DEF Askable
<1> QED
  BY <1>3, <1>5, <1>6 DEF WellFormed, u

\* Resolving an assumption answers at most its own question, and the task stops
\* asking with its last question (resolveAssumption).
LEMMA ResolvedWellFormed ==
  ASSUME NEW t, WellFormed(t), NEW a \in Assumption, NEW u \in Resolved(t, a)
  PROVE  WellFormed(u)
<1> DEFINE asked == {q \in Blocking(t) : t.covers[q] = a}
<1> DEFINE choices == IF asked = {} THEN {{}} ELSE {{q} : q \in asked}
           with(answered) ==
             [t EXCEPT !.assumption[a] = "resolved",
                       !.unknown = [q \in Question |->
                                      IF q \in answered THEN "answered" ELSE @[q]],
                       !.phase = IF @ = "ASKING" /\ Blocking(t) \subseteq answered
                                   THEN "PROPOSED" ELSE @]
<1>a. u \in {with(answered) : answered \in choices}
  BY Zenon DEF Resolved
<1>b. \A answered \in choices : answered \subseteq asked
  OBVIOUS
<1> HIDE DEF choices
<1>1. PICK answered \in SUBSET asked : u = with(answered)
  <2> HIDE DEF asked, with
  <2> QED
    BY <1>a, <1>b
<1> DEFINE unknown == [q \in Question |->
                         IF q \in answered THEN "answered" ELSE t.unknown[q]]
           phase == IF t.phase = "ASKING" /\ Blocking(t) \subseteq answered
                      THEN "PROPOSED" ELSE t.phase
           assumption == [t.assumption EXCEPT ![a] = "resolved"]
<1>2. /\ unknown \in [Question -> UnknownStatus]
      /\ assumption \in [Assumption -> AssumptionStatus]
      /\ phase \in Phase
  BY DEF WellFormed, Task, UnknownStatus, AssumptionStatus, Phase, Executing
<1>3. u = [t EXCEPT !.assumption = assumption, !.unknown = unknown, !.phase = phase]
  BY <1>1 DEF WellFormed, Task
<1> HIDE DEF unknown, phase, assumption
<1>4. u \in Task
  BY <1>2, <1>3 DEF WellFormed, Task
<1>5. /\ u.phase = phase /\ u.contract = t.contract
      /\ u.req = t.req /\ u.evidence = t.evidence
      /\ u.unknown = unknown /\ u.covers = t.covers /\ u.assumption = assumption
  BY <1>3 DEF WellFormed, Task
<1>6. Backed(u)
  BY <1>5 DEF WellFormed, Backed
<1>7. Askable(u)
  <2>1. u.phase = "ASKING" => Blocking(u) # {}
    BY <1>5 DEF WellFormed, Askable, Blocking, unknown, phase
  <2>2. ASSUME NEW b \in Assumption, u.assumption[b] = "blocking"
        PROVE  \E q \in Question : u.covers[q] = b /\ u.unknown[q] = "blocking"
    <3>1. b # a /\ t.assumption[b] = "blocking"
      BY <1>5, <2>2 DEF assumption, WellFormed, Task
    <3>2. PICK q \in Question : t.covers[q] = b /\ t.unknown[q] = "blocking"
      BY <3>1 DEF WellFormed, Askable
    <3>3. u.covers[q] = b /\ u.unknown[q] = "blocking"
      BY <1>5, <3>1, <3>2 DEF unknown
    <3> QED
      BY <3>3
  <2>3. \A b \in Assumption : \/ u.covers[b] = b
                              \/ u.covers[b] = NoAssumption /\ u.unknown[b] = "absent"
    BY <1>5 DEF WellFormed, Askable, Blocking, unknown, Question
  <2> QED
    BY <2>1, <2>2, <2>3 DEF Askable
<1>8. Executable(u)
  <2>1. Blocking(u) \subseteq Blocking(t)
    BY <1>5 DEF unknown, Blocking
  <2>2. \A b \in Assumption : u.assumption[b] = "critical" => t.assumption[b] = "critical"
    BY <1>5 DEF assumption, WellFormed, Task
  <2>3. u.phase \in Executing \cup {"WAITING"} => u.phase = t.phase
    BY <1>5 DEF phase, Executing
  <2> QED
    BY <1>5, <2>1, <2>2, <2>3 DEF Executable, Executing, WellFormed
<1> QED
  BY <1>4, <1>6, <1>7, <1>8 DEF WellFormed

\* Marking a requirement touches nothing else, and keeps it backed by evidence
\* (markRequirement, markRequirementVerified).
LEMMA MarkedWellFormed ==
  ASSUME NEW t, WellFormed(t), NEW r \in Req,
         NEW status \in {"done", "pending", "verified"}
  PROVE  WellFormed(Marked(t, r, status))
<1> DEFINE u == Marked(t, r, status)
<1>1. u \in Task
  BY DEF Marked, WellFormed, Task, RequirementStatus
<1>2. /\ u.req = [t.req EXCEPT ![r] = status]
      /\ u.evidence = IF status = "pending" THEN t.evidence \ {r} ELSE t.evidence \cup {r}
      /\ u.phase = t.phase /\ u.contract = t.contract
      /\ u.unknown = t.unknown /\ u.covers = t.covers
      /\ u.assumption = t.assumption
  BY DEF Marked, WellFormed, Task
<1>3. Backed(u)
  BY <1>2 DEF WellFormed, Task, Backed
<1>4. Askable(u) /\ Executable(u)
  BY <1>2 DEF WellFormed, Askable, Executable, Executing, Clear, Blocking, Critical
<1> QED
  BY <1>1, <1>3, <1>4 DEF WellFormed

\* A contradicted requirement is pending again (noteContradiction).
LEMMA ContradictedWellFormed ==
  ASSUME NEW t, WellFormed(t), NEW r \in Req
  PROVE  WellFormed([t EXCEPT !.req[r] = "pending"])
<1> DEFINE u == [t EXCEPT !.req[r] = "pending"]
<1>1. u \in Task
  BY DEF WellFormed, Task, RequirementStatus
<1>2. /\ u.req = [t.req EXCEPT ![r] = "pending"] /\ u.evidence = t.evidence
      /\ u.phase = t.phase /\ u.contract = t.contract
      /\ u.unknown = t.unknown /\ u.covers = t.covers
      /\ u.assumption = t.assumption
  BY DEF WellFormed, Task
<1>3. Backed(u)
  BY <1>2 DEF WellFormed, Task, Backed
<1>4. Askable(u) /\ Executable(u)
  BY <1>2 DEF WellFormed, Askable, Executable, Executing, Clear, Blocking, Critical
<1> QED
  BY <1>1, <1>3, <1>4 DEF WellFormed

\* The strategy of a record has no part in its being well formed.
LEMMA StrategyWellFormed ==
  ASSUME NEW t, WellFormed(t), NEW b \in BOOLEAN
  PROVE  WellFormed([t EXCEPT !.strategy = b])
<1> DEFINE u == [t EXCEPT !.strategy = b]
<1>1. u \in Task
  BY DEF WellFormed, Task
<1>2. /\ u.req = t.req /\ u.evidence = t.evidence
      /\ u.phase = t.phase /\ u.contract = t.contract
      /\ u.unknown = t.unknown /\ u.covers = t.covers
      /\ u.assumption = t.assumption
  BY DEF WellFormed, Task
<1>3. Backed(u) /\ Askable(u) /\ Executable(u)
  BY <1>2 DEF WellFormed, Backed, Askable, Executable, Executing, Clear, Blocking, Critical
<1> QED
  BY <1>1, <1>3 DEF WellFormed

\* The completion gate moves a record to DONE or VERIFYING only when it is
\* approved and clear (evaluateCompletionGate, applyPhaseTransition).
LEMMA PhaseTransitionWellFormed ==
  ASSUME NEW t, WellFormed(t)
  PROVE  WellFormed(applyPhaseTransition(t))
<1> DEFINE u == applyPhaseTransition(t)
<1>1. \/ u = [t EXCEPT !.phase = "DONE"] /\ Finished(t)
      \/ u = [t EXCEPT !.phase = "VERIFYING"] /\ Finished(t)
      \/ u = t
  BY DEF applyPhaseTransition, evaluateCompletionGate, WellFormed, Task
<1>2. ASSUME NEW phase \in {"DONE", "VERIFYING"}, Finished(t),
             u = [t EXCEPT !.phase = phase]
      PROVE  WellFormed(u)
  <2> HIDE DEF u
  <2>1. u \in Task
    BY <1>2 DEF WellFormed, Task, Phase, Executing
  <2>2. /\ u.req = t.req /\ u.evidence = t.evidence
        /\ u.phase = phase /\ u.contract = t.contract
        /\ u.unknown = t.unknown /\ u.covers = t.covers
        /\ u.assumption = t.assumption
    BY <1>2 DEF WellFormed, Task
  <2>3. Backed(u) /\ Askable(u)
    BY <2>2 DEF WellFormed, Backed, Askable
  <2>4. Executable(u)
    BY <1>2, <2>2 DEF Executable, Executing, Finished, Clear, Blocking, Critical
  <2> QED
    BY <2>1, <2>3, <2>4 DEF WellFormed
<1> QED
  BY <1>1, <1>2

(***************************************************************************)
(* An escalation gives every escalated assumption a blocking question of   *)
(* its own and takes no question from another one.  The record is well     *)
(* formed as it is written first, in the phase it had, and well formed     *)
(* again once the task asks.                                               *)
(***************************************************************************)
LEMMA EscalatedWellFormed ==
  ASSUME NEW t, WellFormed(t), NEW p, NEW u \in Escalated(t, p)
  PROVE  /\ u.phase = t.phase
         /\ WellFormed(u)
         /\ Blocking(u) # {} => WellFormed([u EXCEPT !.phase = "ASKING"])
<1>1. CASE u = t
  <2>1. ASSUME Blocking(t) # {} PROVE WellFormed([t EXCEPT !.phase = "ASKING"])
    <3> DEFINE w == [t EXCEPT !.phase = "ASKING"]
    <3>1. w \in Task
      BY DEF WellFormed, Task, Phase, Executing
    <3>2. /\ w.req = t.req /\ w.evidence = t.evidence /\ w.phase = "ASKING"
          /\ w.unknown = t.unknown /\ w.covers = t.covers
          /\ w.assumption = t.assumption
      BY DEF WellFormed, Task
    <3>3. Backed(w) /\ Askable(w) /\ Executable(w)
      BY <2>1, <3>2 DEF WellFormed, Backed, Askable, Executable, Executing, Blocking
    <3> QED
      BY <3>1, <3>3 DEF WellFormed
  <2> QED
    BY <1>1, <2>1
<1>2. CASE \E link \in Links(t) : u = EscalatedBy(t, link)
  <2>1. PICK link \in Links(t) : u = EscalatedBy(t, link)
    BY <1>2
  <2> DEFINE E == Escalating(t)
             asked == {link[a] : a \in E}
             owner(q) == CHOOSE a \in E : link[a] = q
             assumption == [a \in Assumption |-> IF a \in E THEN "blocking"
                                                   ELSE t.assumption[a]]
             unknown == [q \in Question |-> IF q \in asked THEN "blocking"
                                              ELSE t.unknown[q]]
             covers == [q \in Question |-> IF q \in asked THEN owner(q)
                                             ELSE t.covers[q]]
  <2>2. /\ link \in [E -> Question]
        /\ \A a \in E : link[a] \in Uncovered(t) \cup {a}
        /\ \A a, b \in E : link[a] = link[b] => a = b
    BY <2>1 DEF Links
  <2>3. \A a \in E : a \in Assumption /\ t.assumption[a] = "active"
    BY DEF Escalating
  <2>4. \A a \in E : owner(link[a]) = a
    BY <2>2
  <2>5. \A q \in asked : owner(q) \in E
    BY <2>4
  <2>6. /\ assumption \in [Assumption -> AssumptionStatus]
        /\ unknown \in [Question -> UnknownStatus]
        /\ covers \in [Question -> Assumption \cup {NoAssumption}]
    BY <2>3, <2>5 DEF WellFormed, Task, AssumptionStatus, UnknownStatus
  <2>7. u = [t EXCEPT !.assumption = assumption, !.unknown = unknown,
                      !.covers = covers]
    BY <2>1 DEF EscalatedBy, WellFormed, Task
  <2> HIDE DEF assumption, unknown, covers, owner, asked, E
  <2>8. /\ u \in Task
        /\ u.phase = t.phase /\ u.req = t.req /\ u.evidence = t.evidence
        /\ u.contract = t.contract
        /\ u.unknown = unknown /\ u.covers = covers /\ u.assumption = assumption
    BY <2>6, <2>7 DEF WellFormed, Task
  <2>9. \A a \in Assumption : u.assumption[a] = "blocking" =>
          \E q \in Question : u.covers[q] = a /\ u.unknown[q] = "blocking"
    <3> SUFFICES ASSUME NEW a \in Assumption, u.assumption[a] = "blocking"
                 PROVE  \E q \in Question : u.covers[q] = a /\ u.unknown[q] = "blocking"
      OBVIOUS
    <3>1. CASE a \in E
      <4>1. link[a] \in Question /\ link[a] \in asked
        BY <2>2, <3>1 DEF asked
      <4>2. u.covers[link[a]] = a /\ u.unknown[link[a]] = "blocking"
        BY <2>4, <2>8, <3>1, <4>1 DEF covers, unknown
      <4> QED
        BY <4>1, <4>2
    <3>2. CASE a \notin E
      <4>1. t.assumption[a] = "blocking"
        BY <2>8, <3>2 DEF assumption
      <4>2. PICK q \in Question : t.covers[q] = a /\ t.unknown[q] = "blocking"
        BY <4>1 DEF WellFormed, Askable
      <4>3. q \notin asked
        <5>1. ASSUME NEW b \in E, link[b] = q PROVE FALSE
          <6>1. CASE q \in Uncovered(t)
            BY <4>2, <6>1, NoAssumptionAssumption DEF Uncovered
          <6>2. CASE q = b
            BY <2>3, <3>2, <4>2, <5>1, <6>2 DEF WellFormed, Askable
          <6> QED
            BY <2>2, <5>1, <6>1, <6>2
        <5> QED
          BY <5>1 DEF asked
      <4> QED
        BY <2>8, <4>2, <4>3 DEF covers, unknown
    <3> QED
      BY <3>1, <3>2
  <2>10. \A a \in Assumption : \/ u.covers[a] = a
                               \/ u.covers[a] = NoAssumption /\ u.unknown[a] = "absent"
    <3> SUFFICES ASSUME NEW a \in Assumption
                 PROVE  \/ u.covers[a] = a
                        \/ u.covers[a] = NoAssumption /\ u.unknown[a] = "absent"
      OBVIOUS
    <3>1. CASE a \in asked
      <4>1. PICK b \in E : link[b] = a
        BY <3>1 DEF asked
      <4>2. a \notin Uncovered(t)
        BY NoAssumptionAssumption DEF Uncovered, Blocking, WellFormed, Askable
      <4>3. b = a
        BY <2>2, <4>1, <4>2
      <4> QED
        BY <2>4, <2>8, <3>1, <4>1, <4>3 DEF covers, Question
    <3>2. CASE a \notin asked
      BY <2>8, <3>2 DEF covers, unknown, WellFormed, Askable, Question
    <3> QED
      BY <3>1, <3>2
  <2>11. Backed(u)
    BY <2>8 DEF WellFormed, Backed
  <2>12. ASSUME Blocking(u) # {} PROVE WellFormed([u EXCEPT !.phase = "ASKING"])
    <3> DEFINE w == [u EXCEPT !.phase = "ASKING"]
    <3>1. w \in Task
      BY <2>8 DEF Task, Phase, Executing
    <3>2. /\ w.req = u.req /\ w.evidence = u.evidence /\ w.phase = "ASKING"
          /\ w.unknown = u.unknown /\ w.covers = u.covers
          /\ w.assumption = u.assumption
      BY <2>8 DEF Task
    <3>3. Backed(w) /\ Askable(w) /\ Executable(w)
      BY <2>9, <2>10, <2>11, <2>12, <3>2 DEF Backed, Askable, Executable, Executing, Blocking
    <3> QED
      BY <3>1, <3>3 DEF WellFormed
  <2>13. \A q \in Question : t.unknown[q] = "blocking" =>
           u.unknown[q] = "blocking" /\ (q \in asked \/ u.covers[q] = t.covers[q])
    BY <2>8 DEF unknown, covers
  <2>14. Askable(u)
    BY <2>8, <2>9, <2>10, <2>13 DEF WellFormed, Askable, Blocking
  <2>15. \A q \in Question : q \in asked => u.covers[q] # NoAssumption
    BY <2>3, <2>5, <2>8, NoAssumptionAssumption DEF covers
  <2>16. \A q \in Question : q \notin asked =>
           u.unknown[q] = t.unknown[q] /\ u.covers[q] = t.covers[q]
    BY <2>8 DEF unknown, covers
  <2>17. \A a \in Assumption : u.assumption[a] = "critical" => t.assumption[a] = "critical"
    BY <2>8 DEF assumption
  <2>18. Executable(u)
    BY <2>8, <2>15, <2>16, <2>17 DEF WellFormed, Executable, Executing, Blocking
  <2>19. WellFormed(u)
    BY <2>8, <2>11, <2>14, <2>18 DEF WellFormed
  <2> QED
    BY <2>8, <2>12, <2>19
<1> QED
  BY <1>1, <1>2 DEF Escalated

\* A contract is born well formed (projectState, synthesizeContract).
LEMMA SynthesizedWellFormed ==
  ASSUME NEW t \in Synthesized
  PROVE  WellFormed(t)
<1>1. PICK n \in 1 .. MaxReq,
           u \in {f \in [Question -> {"absent", "blocking"}] :
                    \A q \in Assumption : f[q] = "absent"},
           a \in [Assumption -> {"absent", "active", "critical"}] :
        t = [phase |-> "PROPOSED", contract |-> "PROPOSED", strategy |-> FALSE,
             req |-> Pending(n), evidence |-> {}, unknown |-> u,
             covers |-> [q \in Question |-> NoAssumption], assumption |-> a,
             checks |-> [r \in Req |-> "none"]]
  BY DEF Synthesized
<1>2. Pending(n) \in [Req -> {"pending", "absent"}]
  BY DEF Pending
<1>3. t \in Task
  BY <1>1, <1>2 DEF Task, Phase, Executing, ContractStatus, RequirementStatus, UnknownStatus,
                    AssumptionStatus, CheckStatus
<1>4. Backed(t) /\ Executable(t)
  BY <1>1, <1>2 DEF Backed, Executable, Executing
<1>5. Askable(t)
  BY <1>1 DEF Askable, Question
<1> QED
  BY <1>3, <1>4, <1>5 DEF WellFormed

\* What the handler goes on with after the await is well formed.
LEMMA BuiltWellFormed ==
  ASSUME NEW t, t # NoTask => WellFormed(t), NEW u \in buildPersistedState(t)
  PROVE  WellFormed(u)
BY SynthesizedWellFormed DEF buildPersistedState

LEMMA AfterApprovalWellFormed ==
  ASSUME NEW t, WellFormed(t), NEW p
  PROVE  WellFormed(AfterApproval(t, p))
BY ApprovedWellFormed DEF AfterApproval

\* A non-empty set of requirements has a first one.
LEMMA FirstRequirement ==
  ASSUME NEW S \in SUBSET Req, S # {}
  PROVE  \E r \in S : \A o \in S : r <= o
<1>1. S \subseteq Nat
  BY MaxReqAssumption DEF Req
<1>2. \E r \in S : \A o \in S : ~ (<<o, r>> \in OpToRel(<, Nat))
  BY <1>1, WFMin, NatLessThanWellFounded
<1>3. \A r \in S, o \in S : ~ (<<o, r>> \in OpToRel(<, Nat)) => r <= o
  BY <1>1 DEF OpToRel
<1> QED
  BY <1>2, <1>3

LEMMA ActiveRequirementType ==
  ASSUME NEW t
  PROVE  ActiveRequirement(t) \in Req \cup {0}
<1> DEFINE open == {r \in Live(t) : t.req[r] = "pending"}
           candidates == IF open # {} THEN open ELSE Live(t)
<1>1. candidates \in SUBSET Req
  BY DEF Live
<1> HIDE DEF candidates
<1>2. ASSUME candidates # {}
      PROVE  (CHOOSE r \in candidates : \A o \in candidates : r <= o) \in Req
  BY <1>1, <1>2, FirstRequirement
<1> QED
  BY <1>1, <1>2 DEF ActiveRequirement, candidates

(***************************************************************************)
(* The invariant.                                                          *)
(***************************************************************************)
Inv ==
  /\ TypeOK
  /\ task # NoTask => WellFormed(task)
  /\ \A v \in Verifier : verifying[v] # Idle => WellFormed(verifying[v].task)

LEMMA InvInit == Init => Inv
<1> SUFFICES ASSUME Init PROVE Inv
  OBVIOUS
<1>1. task # NoTask => WellFormed(task)
  BY ImportedAssumption DEF Init
<1>2. TypeOK
  BY <1>1 DEF Init, TypeOK, WellFormed
<1> QED
  BY <1>1, <1>2 DEF Init, Inv

\* A step that leaves the verifications alone, writes a well-formed record or
\* none and keeps the types of the rest keeps the invariant.
LEMMA InvStep ==
  ASSUME Inv,
         task' # NoTask => WellFormed(task'),
         verifying' = verifying \/ verifying' = [v \in Verifier |-> Idle],
         msg' \in [Session -> Prompt \cup {Idle}],
         call' \in [Call -> Binding \cup {Idle}]
  PROVE  Inv'
<1>1. verifying' \in [Verifier -> Verification \cup {Idle}]
  BY DEF Inv, TypeOK
<1>2. TypeOK'
  BY <1>1 DEF TypeOK, WellFormed
<1>3. \A v \in Verifier : verifying'[v] # Idle => WellFormed(verifying'[v].task)
  BY DEF Inv
<1> QED
  BY <1>2, <1>3 DEF Inv

\* What BeginMessage leaves on disk.
LEMMA HeardWellFormed ==
  ASSUME NEW t, t # NoTask => WellFormed(t), NEW p
  PROVE  Heard(t, p) # NoTask => WellFormed(Heard(t, p))
<1>1. Blocking(t) \in SUBSET Question /\ \A q \in Blocking(t) : t.unknown[q] # "absent"
  BY DEF Blocking
<1>2. ASSUME t # NoTask
      PROVE  WellFormed([Answered(t, Blocking(t)) EXCEPT !.phase = "PROPOSED"])
  BY <1>1, <1>2, AnsweredWellFormed
<1> QED
  BY <1>2 DEF Heard

LEMMA BeginMessageInv ==
  ASSUME Inv, NEW s \in Session, NEW p \in Prompt, BeginMessage(s, p)
  PROVE  Inv'
<1>1. task' # NoTask => WellFormed(task')
  BY HeardWellFormed DEF BeginMessage, Inv
<1>2. msg' \in [Session -> Prompt \cup {Idle}]
  BY DEF BeginMessage, Inv, TypeOK
<1> QED
  BY <1>1, <1>2, InvStep DEF BeginMessage, Inv, TypeOK

LEMMA FinishMessageInv ==
  ASSUME Inv, NEW s \in Session, FinishMessage(s)
  PROVE  Inv'
<1> DEFINE p == msg[s]
<1>0. PICK built \in buildPersistedState(task) :
        \E mem \in Escalated(built, p) :
          LET approved == AfterApproval(mem, p)
              held == [approved EXCEPT !.strategy = mem.strategy]
          IN  task' = IF Asks(mem) THEN [mem EXCEPT !.phase = "ASKING"]
                      ELSE IF DoneClaim(p) THEN applyPhaseTransition(held)
                      ELSE approved
  BY DEF FinishMessage
<1>1. PICK mem \in Escalated(built, p) :
          LET approved == AfterApproval(mem, p)
              held == [approved EXCEPT !.strategy = mem.strategy]
          IN  task' = IF Asks(mem) THEN [mem EXCEPT !.phase = "ASKING"]
                      ELSE IF DoneClaim(p) THEN applyPhaseTransition(held)
                      ELSE approved
  BY <1>0
<1> HIDE DEF p
<1>2. WellFormed(built)
  BY BuiltWellFormed DEF Inv
<1>3. ASSUME Asks(mem) PROVE WellFormed(task')
  <2>1. WellFormed([mem EXCEPT !.phase = "ASKING"])
    BY <1>2, <1>3, EscalatedWellFormed DEF Asks
  <2> QED
    BY <1>1, <1>3, <2>1
<1>4. ASSUME ~Asks(mem) PROVE WellFormed(task')
  <2> DEFINE approved == AfterApproval(mem, p)
             held == [approved EXCEPT !.strategy = mem.strategy]
  <2>1. WellFormed(mem)
    BY <1>2, <1>4, EscalatedWellFormed
  <2>2. WellFormed(approved)
    BY <2>1, AfterApprovalWellFormed
  <2>3. mem.strategy \in BOOLEAN
    BY <2>1 DEF WellFormed, Task
  <2> HIDE DEF approved
  <2>4. WellFormed(held)
    BY <2>2, <2>3, StrategyWellFormed
  <2> HIDE DEF held
  <2>5. WellFormed(applyPhaseTransition(held))
    BY <2>4, PhaseTransitionWellFormed
  <2>6. task' \in {applyPhaseTransition(held), approved}
    BY <1>1, <1>4 DEF approved, held
  <2> QED
    BY <2>2, <2>5, <2>6
<1>5. WellFormed(task')
  BY <1>3, <1>4
<1>6. msg' \in [Session -> Prompt \cup {Idle}]
  BY DEF FinishMessage, Inv, TypeOK
<1> QED
  BY <1>5, <1>6, InvStep DEF FinishMessage, Inv, TypeOK

LEMMA CommandInv ==
  ASSUME Inv, Command
  PROVE  Inv'
<1>1. task' # NoTask => WellFormed(task')
  <2>1. CASE approveContract
    BY <2>1, ApprovedWellFormed DEF approveContract, Inv
  <2>2. CASE rejectContract
    BY <2>2, RejectedWellFormed DEF rejectContract, Inv
  <2>3. CASE editContract
    <3>1. WellFormed(task)
      BY <2>3 DEF editContract, Inv
    <3>2. CASE task' = [task EXCEPT !.contract = "PROPOSED", !.phase = "PROPOSED"]
      BY <3>1, <3>2, EditedWellFormed
    <3>3. ASSUME NEW n \in 0 .. MaxReq,
                 task' = [task EXCEPT !.contract = "PROPOSED", !.phase = "PROPOSED",
                                      !.req = Pending(n), !.evidence = {}]
          PROVE  WellFormed(task')
      BY <3>1, <3>3, EditedWellFormed
    <3> QED
      BY <2>3, <3>2, <3>3 DEF editContract
  <2>4. ASSUME NEW q \in Question, answerQuestion(q) PROVE WellFormed(task')
    BY <2>4, AnsweredWellFormed DEF answerQuestion, Inv
  <2>5. ASSUME NEW a \in Assumption, resolveAssumption(a) PROVE WellFormed(task')
    BY <2>5, ResolvedWellFormed DEF resolveAssumption, Inv
  <2>6. ASSUME NEW r \in Req, NEW status \in {"done", "pending", "verified"},
               markRequirement(r, status)
        PROVE  WellFormed(task')
    BY <2>6, MarkedWellFormed DEF markRequirement, Inv
  <2> QED
    BY <2>1, <2>2, <2>3, <2>4, <2>5, <2>6 DEF Command
<1>2. UNCHANGED <<msg, verifying, call>>
  BY DEF Command, approveContract, rejectContract, editContract, answerQuestion,
         resolveAssumption, markRequirement
<1> QED
  BY <1>1, <1>2, InvStep DEF Inv, TypeOK

\* A verification holds a well-formed record, so the one it writes back is.
LEMMA VerificationInv ==
  ASSUME Inv, VerificationStep
  PROVE  Inv'
<1>1. ASSUME NEW v \in Verifier, NEW r \in Req, BeginVerification(v, r)
      PROVE  Inv'
  <2>1. WellFormed(task) /\ task \in Task
    BY <1>1 DEF BeginVerification, Inv, WellFormed
  <2>2. /\ verifying' = [verifying EXCEPT ![v] = [task |-> task, req |-> r]]
        /\ verifying \in [Verifier -> Verification \cup {Idle}]
        /\ UNCHANGED <<task, msg, call>>
    BY <1>1 DEF BeginVerification, Inv, TypeOK
  <2>3. [task |-> task, req |-> r] \in Verification
    BY <2>1 DEF Verification
  <2>4. TypeOK'
    BY <2>2, <2>3 DEF TypeOK, Inv
  <2>5. \A w \in Verifier : verifying'[w] # Idle => WellFormed(verifying'[w].task)
    BY <2>1, <2>2 DEF Inv
  <2> QED
    BY <2>1, <2>2, <2>4, <2>5 DEF Inv
<1>2. ASSUME NEW v \in Verifier, FinishVerification(v)
      PROVE  Inv'
  <2>1. verifying[v] \in Verification /\ WellFormed(verifying[v].task)
    BY <1>2 DEF FinishVerification, Inv, TypeOK
  <2>2. WellFormed(Marked(verifying[v].task, verifying[v].req, "verified"))
    BY <2>1, MarkedWellFormed DEF Verification
  <2>3. task' # NoTask => WellFormed(task')
    BY <1>2, <2>2 DEF FinishVerification, Inv
  <2>4. TypeOK'
    BY <1>2, <2>3 DEF FinishVerification, Inv, TypeOK, WellFormed
  <2>5. \A w \in Verifier : verifying'[w] # Idle => WellFormed(verifying'[w].task)
    BY <1>2 DEF FinishVerification, Inv, TypeOK
  <2> QED
    BY <2>3, <2>4, <2>5 DEF Inv
<1> QED
  BY <1>1, <1>2 DEF VerificationStep

LEMMA ToolInv ==
  ASSUME Inv, Tool
  PROVE  Inv'
<1>1. PICK c \in Call : \/ ToolBefore(c) \/ ToolWithoutEffect(c)
                        \/ ToolSupported(c) \/ ToolContradicted(c)
  BY DEF Tool
<1>2. bridgeExecution(task) \in Binding
  BY ActiveRequirementType DEF bridgeExecution, Binding
<1>3. /\ call' \in [Call -> Binding \cup {Idle}]
      /\ UNCHANGED <<msg, verifying>>
  BY <1>1, <1>2 DEF ToolBefore, ToolWithoutEffect, ToolSupported, ToolContradicted,
                    Inv, TypeOK
<1>4. task' # NoTask => WellFormed(task')
  <2>1. Settled(c) \in Live(task) => Settled(c) \in Req
    BY DEF Live
  <2>2. CASE ToolBefore(c) \/ ToolWithoutEffect(c)
    BY <2>2 DEF ToolBefore, ToolWithoutEffect, Inv
  <2>3. CASE ToolSupported(c)
    BY <2>1, <2>3, MarkedWellFormed DEF ToolSupported, Inv
  <2>4. CASE ToolContradicted(c)
    BY <2>1, <2>4, ContradictedWellFormed DEF ToolContradicted, Inv
  <2> QED
    BY <1>1, <2>2, <2>3, <2>4
<1> QED
  BY <1>3, <1>4, InvStep DEF Inv, TypeOK

LEMMA FailureInv ==
  ASSUME Inv, Failure
  PROVE  Inv'
<1>1. PICK t : Restart(t) /\ (t # NoTask => WellFormed(t))
  <2>1. CASE Crash
    BY <2>1 DEF Crash, Inv
  <2>2. CASE CrashTearsFile
    BY <2>2 DEF CrashTearsFile
  <2>3. CASE CrashAmidAnswer
    BY <2>3, AnsweredWellFormed DEF CrashAmidAnswer, Inv
  <2>4. ASSUME NEW s \in Session, CrashAmidMessage(s)
        PROVE  \E t : Restart(t) /\ (t # NoTask => WellFormed(t))
    <3>0. PICK built \in buildPersistedState(task) :
              \E mem \in Escalated(built, msg[s]) :
                \E t \in {built, mem, AfterApproval(mem, msg[s])} : Restart(t)
      BY <2>4 DEF CrashAmidMessage
    <3>1. PICK mem \in Escalated(built, msg[s]) :
              \E t \in {built, mem, AfterApproval(mem, msg[s])} : Restart(t)
      BY <3>0
    <3>2. WellFormed(built)
      BY BuiltWellFormed DEF Inv
    <3>3. WellFormed(mem)
      BY <3>2, EscalatedWellFormed
    <3>4. WellFormed(AfterApproval(mem, msg[s]))
      BY <3>3, AfterApprovalWellFormed
    <3> QED
      BY <3>1, <3>2, <3>3, <3>4
  <2> QED
    BY <2>1, <2>2, <2>3, <2>4 DEF Failure
<1> QED
  BY <1>1, InvStep DEF Restart

LEMMA InvNext == Inv /\ [Next]_vars => Inv'
<1> SUFFICES ASSUME Inv, [Next]_vars PROVE Inv'
  OBVIOUS
<1>1. CASE Message
  BY <1>1, BeginMessageInv, FinishMessageInv DEF Message
<1>2. CASE Command
  BY <1>2, CommandInv
<1>3. CASE VerificationStep
  BY <1>3, VerificationInv
<1>4. CASE Tool
  BY <1>4, ToolInv
<1>5. CASE Failure
  BY <1>5, FailureInv
<1>6. CASE UNCHANGED vars
  BY <1>6 DEF vars, Inv, TypeOK
<1> QED
  BY <1>1, <1>2, <1>3, <1>4, <1>5, <1>6 DEF Next

\* The invariant holds in every reachable state.
THEOREM Invariance == Spec => []Inv
BY InvInit, InvNext, PTL DEF Spec

\* Every variable keeps its type.
THEOREM TypeCorrect == Spec => []TypeOK
<1>1. Inv => TypeOK
  BY DEF Inv
<1> QED
  BY <1>1, Invariance, PTL

\* Nothing on disk counts as done or verified without evidence.
THEOREM AlwaysEvidenceBacked == Spec => []EvidenceBacked
<1>1. Inv => EvidenceBacked
  BY DEF Inv, EvidenceBacked, WellFormed
<1> QED
  BY <1>1, Invariance, PTL

\* A task that asks can be answered: it has a blocking question, and every
\* escalated assumption has one that resolves it.
THEOREM AlwaysAnswerable == Spec => []AskingIsAnswerable
<1>1. Inv => AskingIsAnswerable
  BY DEF Inv, AskingIsAnswerable, WellFormed
<1> QED
  BY <1>1, Invariance, PTL

\* A task is carried out, verified or complete only under an approved contract
\* whose own questions are answered.
THEOREM AlwaysApproved == Spec => []ExecutionIsApproved
<1>1. Inv => ExecutionIsApproved
  BY DEF Inv, ExecutionIsApproved, WellFormed
<1> QED
  BY <1>1, Invariance, PTL

(***************************************************************************)
(* What a step may do to a record.  An edit keeps the answers and the      *)
(* resolutions on record, keeps the record clarified, and takes no task    *)
(* from ASKING to a phase of execution.                                    *)
(***************************************************************************)
Stands(t, u) ==
  /\ \A q \in Question : t.unknown[q] = "answered" => u.unknown[q] = "answered"
  /\ \A a \in Assumption : t.assumption[a] = "resolved" => u.assumption[a] = "resolved"

Follows(t, u) ==
  /\ Clarified(u)
  /\ Stands(t, u)
  /\ t.phase = "ASKING" => u.phase \notin Executing

\* An edit that asks nothing and answers nothing, and does not start to ask.
LEMMA UntouchedFollows ==
  ASSUME NEW t, NEW u, Clarified(t),
         u.unknown = t.unknown, u.assumption = t.assumption,
         u.phase = "ASKING" => t.phase = "ASKING" /\ Live(u) = Live(t),
         t.phase = "ASKING" => u.phase \notin Executing
  PROVE  Follows(t, u)
BY DEF Follows, Stands, Clarified

LEMMA ApprovedFollows ==
  ASSUME NEW t, WellFormed(t), Clarified(t), Clear(t)
  PROVE  Follows(t, Approved(t))
<1> DEFINE u == Approved(t)
<1>1. /\ u.unknown = t.unknown /\ u.assumption = t.assumption
      /\ u.phase \in {"DONE", "IMPLEMENTING"}
  BY DEF WellFormed, Task, Approved
<1>2. t.phase # "ASKING"
  BY DEF WellFormed, Askable, Clear
<1> QED
  BY <1>1, <1>2, UntouchedFollows

LEMMA RejectedFollows ==
  ASSUME NEW t, WellFormed(t), Clarified(t)
  PROVE  Follows(t, Rejected(t))
<1> DEFINE u == Rejected(t)
<1>1. u.unknown = t.unknown /\ u.assumption = t.assumption /\ u.phase = "WAITING"
  BY DEF WellFormed, Task, Rejected
<1> QED
  BY <1>1, UntouchedFollows DEF Executing

\* Whatever the edit does to the requirements, the task is PROPOSED after it.
LEMMA EditedFollows ==
  ASSUME NEW t, WellFormed(t), Clarified(t)
  PROVE  /\ Follows(t, [t EXCEPT !.contract = "PROPOSED", !.phase = "PROPOSED"])
         /\ \A n \in 0 .. MaxReq :
              Follows(t, [t EXCEPT !.contract = "PROPOSED", !.phase = "PROPOSED",
                                   !.req = Pending(n), !.evidence = {}])
<1>1. ASSUME NEW u, u.unknown = t.unknown, u.assumption = t.assumption,
             u.phase = "PROPOSED"
      PROVE  Follows(t, u)
  BY <1>1, UntouchedFollows DEF Executing
<1> DEFINE kept == [t EXCEPT !.contract = "PROPOSED", !.phase = "PROPOSED"]
           renewed(n) == [t EXCEPT !.contract = "PROPOSED", !.phase = "PROPOSED",
                                   !.req = Pending(n), !.evidence = {}]
<1>2. kept.unknown = t.unknown /\ kept.assumption = t.assumption /\ kept.phase = "PROPOSED"
  BY DEF WellFormed, Task
<1>3. ASSUME NEW n \in 0 .. MaxReq
      PROVE  /\ renewed(n).unknown = t.unknown /\ renewed(n).assumption = t.assumption
             /\ renewed(n).phase = "PROPOSED"
  BY DEF WellFormed, Task
<1> HIDE DEF kept, renewed
<1>4. Follows(t, kept) /\ \A n \in 0 .. MaxReq : Follows(t, renewed(n))
  BY <1>1, <1>2, <1>3
<1> QED
  BY <1>4 DEF kept, renewed

\* The answer to a mirror question is the answer to its assumption.
LEMMA AnsweredFollows ==
  ASSUME NEW t, WellFormed(t), Clarified(t), NEW Q \in SUBSET Question,
         \A q \in Q : t.unknown[q] # "absent",
         NEW phase \in {"PROPOSED", "ANSWERED"}
  PROVE  Follows(t, [Answered(t, Q) EXCEPT !.phase = phase])
<1> DEFINE unknown == [q \in Question |-> IF q \in Q THEN "answered" ELSE t.unknown[q]]
           assumption == [a \in Assumption |-> IF \E q \in Q : t.covers[q] = a
                                                 THEN "resolved" ELSE t.assumption[a]]
           u == [Answered(t, Q) EXCEPT !.phase = phase]
<1>1. u.unknown = unknown /\ u.assumption = assumption /\ u.phase = phase
  BY DEF Answered, WellFormed, Task
<1> HIDE DEF u
<1>2. ASSUME NEW a \in Assumption, u.unknown[a] = "answered"
      PROVE  u.assumption[a] = "resolved"
  <2>1. a \in Q => t.covers[a] = a
    BY DEF WellFormed, Askable
  <2> QED
    BY <1>1, <1>2, <2>1 DEF Clarified, Question
<1>3. Clarified(u)
  BY <1>1, <1>2 DEF Clarified
<1>4. Stands(t, u)
  BY <1>1 DEF Stands
<1> QED
  BY <1>1, <1>3, <1>4 DEF Follows, Executing, u

\* The question that evidence answers covers the assumption it resolves.
LEMMA ResolvedFollows ==
  ASSUME NEW t, WellFormed(t), Clarified(t), NEW a \in Assumption,
         NEW u \in Resolved(t, a)
  PROVE  Follows(t, u)
<1> DEFINE asked == {q \in Blocking(t) : t.covers[q] = a}
<1> DEFINE choices == IF asked = {} THEN {{}} ELSE {{q} : q \in asked}
           with(answered) ==
             [t EXCEPT !.assumption[a] = "resolved",
                       !.unknown = [q \in Question |->
                                      IF q \in answered THEN "answered" ELSE @[q]],
                       !.phase = IF @ = "ASKING" /\ Blocking(t) \subseteq answered
                                   THEN "PROPOSED" ELSE @]
<1>a. u \in {with(answered) : answered \in choices}
  BY Zenon DEF Resolved
<1>b. \A answered \in choices : answered \subseteq asked
  OBVIOUS
<1> HIDE DEF choices
<1>1. PICK answered \in SUBSET asked : u = with(answered)
  <2> HIDE DEF asked, with
  <2> QED
    BY <1>a, <1>b
<1>2. /\ u.unknown = [q \in Question |-> IF q \in answered THEN "answered"
                                           ELSE t.unknown[q]]
      /\ u.assumption = [t.assumption EXCEPT ![a] = "resolved"]
      /\ u.phase \in {t.phase, "PROPOSED"}
      /\ Live(u) = Live(t)
  BY <1>1 DEF WellFormed, Task, Live
<1>3. t.assumption \in [Assumption -> AssumptionStatus]
  BY DEF WellFormed, Task
<1>4. ASSUME NEW b \in Assumption, u.unknown[b] = "answered"
      PROVE  u.assumption[b] = "resolved"
  <2>1. CASE b \in answered
    <3>1. t.covers[b] = a /\ t.unknown[b] = "blocking"
      BY <2>1 DEF Blocking
    <3>2. b = a
      BY <3>1 DEF WellFormed, Askable
    <3> QED
      BY <1>2, <1>3, <3>2
  <2>2. CASE b \notin answered
    BY <1>2, <1>3, <1>4, <2>2 DEF Clarified, Question
  <2> QED
    BY <2>1, <2>2
<1>5. Clarified(u)
  BY <1>2, <1>4 DEF Clarified
<1>6. Stands(t, u)
  BY <1>2, <1>3 DEF Stands
<1>7. t.phase = "ASKING" => u.phase \notin Executing
  BY <1>2 DEF Executing
<1> QED
  BY <1>5, <1>6, <1>7 DEF Follows

\* A mark moves a requirement the record has.
LEMMA MarkedFollows ==
  ASSUME NEW t, WellFormed(t), Clarified(t), NEW r \in Live(t),
         NEW status \in {"done", "pending", "verified"}
  PROVE  /\ Follows(t, Marked(t, r, status))
         /\ Follows(t, [t EXCEPT !.req[r] = status])
<1>1. ASSUME NEW u, u.unknown = t.unknown, u.assumption = t.assumption,
             u.phase = t.phase, u.req = [t.req EXCEPT ![r] = status]
      PROVE  Follows(t, u)
  <2>1. Live(u) = Live(t)
    BY <1>1 DEF Live, WellFormed, Task
  <2> QED
    BY <1>1, <2>1, UntouchedFollows DEF Clarified, Executing
<1> DEFINE marked == Marked(t, r, status)
           moved == [t EXCEPT !.req[r] = status]
<1>2. /\ marked.unknown = t.unknown /\ marked.assumption = t.assumption
      /\ marked.phase = t.phase /\ marked.req = [t.req EXCEPT ![r] = status]
  BY DEF Marked, WellFormed, Task
<1>3. /\ moved.unknown = t.unknown /\ moved.assumption = t.assumption
      /\ moved.phase = t.phase /\ moved.req = [t.req EXCEPT ![r] = status]
  BY DEF WellFormed, Task
<1> HIDE DEF marked, moved
<1>4. Follows(t, marked) /\ Follows(t, moved)
  BY <1>1, <1>2, <1>3
<1> QED
  BY <1>4 DEF marked, moved

\* An escalation asks about active assumptions only: it takes over a question
\* that is open, or asks the mirror question of an assumption, whose answer
\* would have resolved the assumption.  It closes no question either.
LEMMA EscalatedStands ==
  ASSUME NEW t, WellFormed(t), Clarified(t), NEW p, NEW u \in Escalated(t, p)
  PROVE  /\ u.phase = t.phase /\ Live(u) = Live(t)
         /\ Stands(t, u)
         /\ \A a \in Assumption : u.unknown[a] = "answered" => u.assumption[a] = "resolved"
         /\ Blocking(t) \subseteq Blocking(u)
<1>1. CASE u = t
  BY <1>1 DEF Stands, Clarified
<1>2. CASE \E link \in Links(t) : u = EscalatedBy(t, link)
  <2>1. PICK link \in Links(t) : u = EscalatedBy(t, link)
    BY <1>2
  <2> DEFINE asked == {link[a] : a \in Escalating(t)}
  <2>2. \A a \in Escalating(t) : link[a] \in Uncovered(t) \cup {a}
    BY <2>1 DEF Links
  <2>3. ASSUME NEW q \in asked PROVE t.unknown[q] # "answered"
    <3>1. PICK a \in Escalating(t) : q = link[a]
      BY <2>3
    <3>2. CASE q \in Uncovered(t)
      BY <3>2 DEF Uncovered, Blocking
    <3>3. CASE q = a
      BY <3>3 DEF Escalating, Clarified
    <3> QED
      BY <2>2, <3>1, <3>2, <3>3
  <2>4. /\ u.phase = t.phase /\ u.req = t.req
        /\ u.unknown = [q \in Question |-> IF q \in asked THEN "blocking" ELSE t.unknown[q]]
        /\ u.assumption = [a \in Assumption |-> IF a \in Escalating(t) THEN "blocking"
                                                  ELSE t.assumption[a]]
    BY <2>1 DEF EscalatedBy, WellFormed, Task
  <2> HIDE DEF asked
  <2>5. Stands(t, u)
    BY <2>3, <2>4 DEF Stands, Escalating
  <2>6. \A a \in Assumption : u.unknown[a] = "answered" => u.assumption[a] = "resolved"
    BY <2>4 DEF Question, Clarified, Escalating
  <2>7. Blocking(t) \subseteq Blocking(u)
    BY <2>4 DEF Blocking
  <2> QED
    BY <2>4, <2>5, <2>6, <2>7 DEF Live
<1> QED
  BY <1>1, <1>2 DEF Escalated

\* A contract is born with a requirement and with nothing answered.
LEMMA SynthesizedClarified ==
  ASSUME NEW t \in Synthesized
  PROVE  Clarified(t) /\ Live(t) # {} /\ t.phase = "PROPOSED"
<1>1. PICK n \in 1 .. MaxReq,
           u \in {f \in [Question -> {"absent", "blocking"}] :
                    \A q \in Assumption : f[q] = "absent"},
           a \in [Assumption -> {"absent", "active", "critical"}] :
        t = [phase |-> "PROPOSED", contract |-> "PROPOSED", strategy |-> FALSE,
             req |-> Pending(n), evidence |-> {}, unknown |-> u,
             covers |-> [q \in Question |-> NoAssumption], assumption |-> a,
             checks |-> [r \in Req |-> "none"]]
  BY DEF Synthesized
<1>2. 1 \in Req /\ Pending(n)[1] = "pending"
  BY MaxReqAssumption DEF Req, Pending
<1>3. 1 \in Live(t)
  BY <1>1, <1>2 DEF Live
<1>4. \A b \in Assumption : t.unknown[b] = "absent"
  BY <1>1
<1> QED
  BY <1>1, <1>3, <1>4 DEF Clarified

\* What the handler writes before its last write follows what it read: the
\* escalation asks nothing that was answered, the approval nothing at all.
LEMMA WritesFollow ==
  ASSUME NEW t, WellFormed(t), Clarified(t), Live(t) # {}, NEW p,
         NEW mem \in Escalated(t, p)
  PROVE  Follows(t, mem) /\ Follows(t, AfterApproval(mem, p))
<1>1. /\ mem.phase = t.phase /\ Live(mem) = Live(t)
      /\ Stands(t, mem)
      /\ \A a \in Assumption : mem.unknown[a] = "answered" => mem.assumption[a] = "resolved"
  BY EscalatedStands
<1>2. Follows(t, mem)
  BY <1>1 DEF Follows, Clarified, Executing
<1>3. WellFormed(mem)
  BY EscalatedWellFormed
<1>4. CASE Approves(mem, p) /\ Clear(mem)
  <2>1. Follows(mem, Approved(mem)) /\ t.phase # "ASKING"
    BY <1>1, <1>2, <1>3, <1>4, ApprovedFollows DEF Follows, Approves
  <2>2. Follows(t, Approved(mem))
    BY <1>1, <2>1 DEF Follows, Stands
  <2> QED
    BY <1>2, <1>4, <2>2 DEF AfterApproval
<1>5. CASE ~(Approves(mem, p) /\ Clear(mem))
  BY <1>2, <1>5 DEF AfterApproval
<1> QED
  BY <1>4, <1>5

\* The outcome of a message, on the record it read after the await.
Outcome(mem, p) ==
  LET approved == AfterApproval(mem, p)
      held == [approved EXCEPT !.strategy = mem.strategy]
  IN  IF Asks(mem) THEN [mem EXCEPT !.phase = "ASKING"]
      ELSE IF DoneClaim(p) THEN applyPhaseTransition(held)
      ELSE approved

LEMMA FinishMessageOutcome ==
  ASSUME NEW s \in Session, FinishMessage(s)
  PROVE  \E built \in buildPersistedState(task) :
           \E mem \in Escalated(built, msg[s]) : task' = Outcome(mem, msg[s])
BY DEF FinishMessage, Outcome

\* Asking keeps the answers, and there is a requirement to ask about; an
\* approval or a gate leaves them alone and does not start to ask.
LEMMA OutcomeFollows ==
  ASSUME NEW t, WellFormed(t), Clarified(t), Live(t) # {}, NEW p,
         NEW mem \in Escalated(t, p)
  PROVE  Follows(t, Outcome(mem, p))
<1>1. /\ mem.phase = t.phase /\ Live(mem) = Live(t)
      /\ Stands(t, mem)
      /\ \A a \in Assumption : mem.unknown[a] = "answered" => mem.assumption[a] = "resolved"
      /\ Blocking(t) \subseteq Blocking(mem)
  BY EscalatedStands
<1>2. CASE Asks(mem)
  <2> DEFINE u == [mem EXCEPT !.phase = "ASKING"]
  <2>1. WellFormed(u)
    BY <1>2, EscalatedWellFormed DEF Asks
  <2>2. /\ u.unknown = mem.unknown /\ u.assumption = mem.assumption /\ u.req = mem.req
        /\ u.phase = "ASKING"
    BY <2>1 DEF WellFormed, Task
  <2>3. Live(u) = Live(mem)
    BY <2>2 DEF Live
  <2> HIDE DEF u
  <2>4. Follows(t, u)
    BY <1>1, <2>2, <2>3 DEF Follows, Clarified, Stands, Executing
  <2> QED
    BY <1>2, <2>4 DEF Outcome, u
<1>3. CASE ~Asks(mem)
  <2> DEFINE approved == AfterApproval(mem, p)
             held == [approved EXCEPT !.strategy = mem.strategy]
             u == Outcome(mem, p)
  <2>1. WellFormed(mem)
    BY EscalatedWellFormed
  <2>2. Follows(t, approved) /\ approved \in Task
    BY <2>1, WritesFollow, AfterApprovalWellFormed DEF WellFormed
  <2>3. approved.phase = "ASKING" => Blocking(approved) # {}
    BY <2>1, AfterApprovalWellFormed DEF WellFormed, Askable
  <2>4. t.phase = "ASKING" => approved.phase = "ASKING"
    BY <1>1 DEF AfterApproval, Approves
  <2> HIDE DEF approved
  <2>5. /\ held \in Task
        /\ held.unknown = approved.unknown /\ held.assumption = approved.assumption
        /\ held.phase = approved.phase /\ held.req = approved.req
    BY <2>1, <2>2 DEF WellFormed, Task
  <2> HIDE DEF held
  <2>6. held.phase = "ASKING" => ~Finished(held)
    BY <2>3, <2>5 DEF Finished, Clear, Blocking
  <2> DEFINE gated == applyPhaseTransition(held)
  <2>7. /\ gated.unknown = held.unknown /\ gated.assumption = held.assumption
        /\ gated.req = held.req
        /\ gated.phase = "ASKING" <=> held.phase = "ASKING"
    BY <2>5, <2>6 DEF applyPhaseTransition, evaluateCompletionGate, Task
  <2>8. u \in {gated, approved}
    BY <1>3 DEF Outcome, approved, held
  <2> HIDE DEF u, gated
  <2>9. /\ u.unknown = approved.unknown /\ u.assumption = approved.assumption
        /\ Live(u) = Live(approved)
        /\ u.phase = "ASKING" <=> approved.phase = "ASKING"
    BY <2>5, <2>7, <2>8 DEF Live
  <2>10. Follows(t, u)
    BY <2>2, <2>4, <2>9 DEF Follows, Clarified, Stands, Executing
  <2> QED
    BY <2>10 DEF u
<1> QED
  BY <1>2, <1>3

(***************************************************************************)
(* Every record on disk or held by a verification is clarified.  With Inv, *)
(* this makes each step that writes no held record follow the one before.  *)
(***************************************************************************)
Clarity ==
  /\ task # NoTask => Clarified(task)
  /\ \A v \in Verifier : verifying[v] # Idle => Clarified(verifying[v].task)

\* What a step does to the record it finds, unless a verification replaces it.
TaskStep ==
  /\ task' # NoTask => Clarified(task')
  /\ task # NoTask /\ task' # NoTask /\ verifying' = verifying =>
       /\ Live(task) # {} => Stands(task, task')
       /\ task.phase = "ASKING" => task'.phase \notin Executing

\* A step that writes no record, or one that follows.
LEMMA FollowingStep ==
  ASSUME Clarity, task' = task \/ task' = NoTask \/ (task # NoTask /\ Follows(task, task'))
  PROVE  TaskStep
BY DEF Clarity, TaskStep, Follows, Stands, Executing

\* The record the handler goes on with after the await, found or made anew.
LEMMA BuiltClarified ==
  ASSUME Inv, Clarity, NEW built \in buildPersistedState(task)
  PROVE  WellFormed(built) /\ Clarified(built) /\ Live(built) # {}
<1>1. CASE task # NoTask /\ Live(task) # {}
  BY <1>1 DEF buildPersistedState, Inv, Clarity
<1>2. CASE ~(task # NoTask /\ Live(task) # {})
  BY <1>2, SynthesizedWellFormed, SynthesizedClarified DEF buildPersistedState
<1> QED
  BY <1>1, <1>2

LEMMA BuiltStep ==
  ASSUME Inv, Clarity, NEW built \in buildPersistedState(task), Follows(built, task')
  PROVE  TaskStep
<1>1. CASE task # NoTask /\ Live(task) # {}
  BY <1>1, FollowingStep DEF buildPersistedState
<1>2. CASE ~(task # NoTask /\ Live(task) # {})
  <2>1. task # NoTask => task.phase # "ASKING"
    BY <1>2 DEF Clarity, Clarified
  <2> QED
    BY <1>2, <2>1 DEF TaskStep, Follows
<1> QED
  BY <1>1, <1>2

LEMMA MessageStep ==
  ASSUME Inv, Clarity, Message
  PROVE  TaskStep
<1>1. ASSUME NEW s \in Session, NEW p \in Prompt, BeginMessage(s, p)
      PROVE  TaskStep
  <2>1. task' = Heard(task, p)
    BY <1>1 DEF BeginMessage
  <2>2. CASE task # NoTask /\ task' = [Answered(task, Blocking(task)) EXCEPT !.phase = "PROPOSED"]
    <3>1. Blocking(task) \in SUBSET Question /\ \A q \in Blocking(task) : task.unknown[q] # "absent"
      BY DEF Blocking
    <3>2. Follows(task, task')
      BY <2>2, <3>1, AnsweredFollows DEF Inv, Clarity
    <3> QED
      BY <2>2, <3>2, FollowingStep
  <2>3. CASE task' = task
    BY <2>3, FollowingStep
  <2> QED
    BY <2>1, <2>2, <2>3 DEF Heard
<1>2. ASSUME NEW s \in Session, FinishMessage(s)
      PROVE  TaskStep
  <2>1. PICK built \in buildPersistedState(task) :
          \E mem \in Escalated(built, msg[s]) : task' = Outcome(mem, msg[s])
    BY <1>2, FinishMessageOutcome
  <2>2. PICK mem \in Escalated(built, msg[s]) : task' = Outcome(mem, msg[s])
    BY <2>1
  <2>3. Follows(built, task')
    BY <2>2, BuiltClarified, OutcomeFollows
  <2> QED
    BY <2>3, BuiltStep
<1> QED
  BY <1>1, <1>2 DEF Message

LEMMA CommandStep ==
  ASSUME Inv, Clarity, Command
  PROVE  TaskStep
<1>1. task # NoTask /\ WellFormed(task) /\ Clarified(task)
  BY DEF Command, approveContract, rejectContract, editContract, answerQuestion,
         resolveAssumption, markRequirement, Inv, Clarity
<1>2. Follows(task, task')
  <2>1. CASE approveContract
    BY <1>1, <2>1, ApprovedFollows DEF approveContract
  <2>2. CASE rejectContract
    BY <1>1, <2>2, RejectedFollows DEF rejectContract
  <2>3. CASE editContract
    <3>1. CASE task' = [task EXCEPT !.contract = "PROPOSED", !.phase = "PROPOSED"]
      BY <1>1, <3>1, EditedFollows
    <3>2. ASSUME NEW n \in 0 .. MaxReq,
                 task' = [task EXCEPT !.contract = "PROPOSED", !.phase = "PROPOSED",
                                      !.req = Pending(n), !.evidence = {}]
          PROVE  Follows(task, task')
      BY <1>1, <3>2, EditedFollows
    <3> QED
      BY <2>3, <3>1, <3>2 DEF editContract
  <2>4. ASSUME NEW q \in Question, answerQuestion(q) PROVE Follows(task, task')
    BY <1>1, <2>4, AnsweredFollows DEF answerQuestion
  <2>5. ASSUME NEW a \in Assumption, resolveAssumption(a) PROVE Follows(task, task')
    BY <1>1, <2>5, ResolvedFollows DEF resolveAssumption
  <2>6. ASSUME NEW r \in Req, NEW status \in {"done", "pending", "verified"},
               markRequirement(r, status)
        PROVE  Follows(task, task')
    BY <1>1, <2>6, MarkedFollows DEF markRequirement
  <2> QED
    BY <2>1, <2>2, <2>3, <2>4, <2>5, <2>6 DEF Command
<1> QED
  BY <1>1, <1>2, FollowingStep

\* A verification ends with its place given back, so its step is not one that
\* leaves the verifications as they are.
LEMMA VerificationTaskStep ==
  ASSUME Inv, Clarity, VerificationStep
  PROVE  TaskStep
<1>1. ASSUME NEW v \in Verifier, NEW r \in Req, BeginVerification(v, r)
      PROVE  TaskStep
  BY <1>1, FollowingStep DEF BeginVerification
<1>2. ASSUME NEW v \in Verifier, FinishVerification(v)
      PROVE  TaskStep
  <2> DEFINE read == verifying[v].task
             r == verifying[v].req
  <2>1. /\ verifying[v] # Idle /\ verifying' = [verifying EXCEPT ![v] = Idle]
        /\ verifying \in [Verifier -> Verification \cup {Idle}]
    BY <1>2 DEF FinishVerification, Inv, TypeOK
  <2>2. verifying' # verifying
    BY <2>1
  <2>3. WellFormed(read) /\ Clarified(read) /\ r \in Req
    BY <2>1 DEF Inv, Clarity, Verification
  <2>4. Clarified(Marked(read, r, "verified"))
    <3> DEFINE u == Marked(read, r, "verified")
    <3>1. /\ u.unknown = read.unknown /\ u.assumption = read.assumption
          /\ u.phase = read.phase /\ u.req = [read.req EXCEPT ![r] = "verified"]
      BY <2>3 DEF Marked, WellFormed, Task
    <3> HIDE DEF u
    <3>2. Live(read) \subseteq Live(u)
      BY <2>3, <3>1 DEF Live, WellFormed, Task
    <3>3. Clarified(u)
      BY <2>3, <3>1, <3>2 DEF Clarified
    <3> QED
      BY <3>3 DEF u
  <2>5. task' # NoTask => Clarified(task')
    BY <1>2, <2>4 DEF FinishVerification, Clarity
  <2> QED
    BY <2>2, <2>5 DEF TaskStep
<1> QED
  BY <1>1, <1>2 DEF VerificationStep

LEMMA ToolStep ==
  ASSUME Inv, Clarity, Tool
  PROVE  TaskStep
<1>1. PICK c \in Call : \/ ToolBefore(c) \/ ToolWithoutEffect(c)
                        \/ ToolSupported(c) \/ ToolContradicted(c)
  BY DEF Tool
<1> DEFINE r == Settled(c)
<1>2. CASE task' = task
  BY <1>2, FollowingStep
<1>3. CASE /\ task # NoTask /\ r \in Live(task)
           /\ task' \in {Marked(task, r, "verified"), [task EXCEPT !.req[r] = "pending"]}
  <2> HIDE DEF r
  <2>1. /\ Follows(task, Marked(task, r, "verified"))
        /\ Follows(task, [task EXCEPT !.req[r] = "pending"])
    BY <1>3, MarkedFollows DEF Inv, Clarity
  <2> QED
    BY <1>3, <2>1, FollowingStep
<1> QED
  BY <1>1, <1>2, <1>3 DEF ToolBefore, ToolWithoutEffect, ToolSupported, ToolContradicted

LEMMA FailureStep ==
  ASSUME Inv, Clarity, Failure
  PROVE  TaskStep
<1>1. CASE Crash \/ CrashTearsFile
  BY <1>1, FollowingStep DEF Crash, CrashTearsFile, Restart
<1>2. CASE CrashAmidAnswer
  <2>1. task # NoTask
    BY <1>2 DEF CrashAmidAnswer
  <2>2. PICK q \in Question : /\ task.unknown[q] # "absent"
                              /\ task' = [Answered(task, {q}) EXCEPT !.phase = "ANSWERED"]
    BY <1>2 DEF CrashAmidAnswer, Restart
  <2>3. Follows(task, task')
    BY <2>1, <2>2, AnsweredFollows DEF Inv, Clarity
  <2> QED
    BY <2>1, <2>3, FollowingStep
<1>3. ASSUME NEW s \in Session, CrashAmidMessage(s)
      PROVE  TaskStep
  <2>0. PICK built \in buildPersistedState(task) :
            \E mem \in Escalated(built, msg[s]) :
              task' \in {built, mem, AfterApproval(mem, msg[s])}
    BY <1>3 DEF CrashAmidMessage, Restart
  <2>1. PICK mem \in Escalated(built, msg[s]) :
            task' \in {built, mem, AfterApproval(mem, msg[s])}
    BY <2>0
  <2>2. WellFormed(built) /\ Clarified(built) /\ Live(built) # {}
    BY BuiltClarified
  <2>3. Follows(built, built)
    BY <2>2, UntouchedFollows DEF Executing
  <2>4. Follows(built, mem) /\ Follows(built, AfterApproval(mem, msg[s]))
    BY <2>2, WritesFollow
  <2>5. Follows(built, task')
    BY <2>1, <2>3, <2>4
  <2> QED
    BY <2>5, BuiltStep
<1> QED
  BY <1>1, <1>2, <1>3 DEF Failure

LEMMA NextStep ==
  ASSUME Inv, Clarity, [Next]_vars
  PROVE  TaskStep
<1>1. CASE UNCHANGED vars
  BY <1>1, FollowingStep DEF vars
<1> QED
  BY <1>1, MessageStep, CommandStep, VerificationTaskStep, ToolStep, FailureStep DEF Next

LEMMA ClarityInit == Init => Clarity
BY ImportedAssumption DEF Init, Clarity

\* A verification holds a record that was on disk.
LEMMA ClarityNext ==
  ASSUME Inv, Clarity, [Next]_vars
  PROVE  Clarity'
<1>1. task' # NoTask => Clarified(task')
  BY NextStep DEF TaskStep
<1>2. ASSUME NEW v \in Verifier, verifying'[v] # Idle
      PROVE  Clarified(verifying'[v].task)
  <2>1. verifying \in [Verifier -> Verification \cup {Idle}]
    BY DEF Inv, TypeOK
  <2>2. CASE verifying'[v] = verifying[v]
    BY <1>2, <2>2 DEF Clarity
  <2>3. ASSUME NEW w \in Verifier, NEW r \in Req, BeginVerification(w, r)
        PROVE  verifying'[v] = verifying[v] \/ Clarified(verifying'[v].task)
    BY <2>1, <2>3 DEF BeginVerification, Clarity
  <2>4. ASSUME NEW w \in Verifier, FinishVerification(w)
        PROVE  verifying'[v] = verifying[v]
    BY <1>2, <2>1, <2>4 DEF FinishVerification
  <2>5. CASE VerificationStep
    BY <2>2, <2>3, <2>4, <2>5 DEF VerificationStep
  <2>6. CASE Failure
    BY <1>2, <2>6 DEF Failure, Crash, CrashTearsFile, CrashAmidAnswer, CrashAmidMessage, Restart
  <2>7. CASE Message \/ Command \/ Tool \/ UNCHANGED vars
    <3>1. verifying' = verifying
      BY <2>7 DEF vars, Message, BeginMessage, FinishMessage, Command, approveContract,
                  rejectContract, editContract, answerQuestion, resolveAssumption,
                  markRequirement, Tool, ToolBefore, ToolWithoutEffect, ToolSupported,
                  ToolContradicted
    <3> QED
      BY <2>2, <3>1
  <2> QED
    BY <2>5, <2>6, <2>7 DEF Next
<1> QED
  BY <1>1, <1>2 DEF Clarity

LEMMA AlwaysClear == Spec => [](Inv /\ Clarity)
<1>1. Init => Inv /\ Clarity
  BY InvInit, ClarityInit
<1>2. Inv /\ Clarity /\ [Next]_vars => (Inv /\ Clarity)'
  BY InvNext, ClarityNext
<1> QED
  BY <1>1, <1>2, PTL DEF Spec

\* The open questions and assumptions of a record agree with its phase and with
\* its answers.
THEOREM AlwaysRecorded == Spec => []AnswersAreRecorded
<1>1. Clarity => AnswersAreRecorded
  BY DEF Clarity, AnswersAreRecorded
<1> QED
  BY <1>1, AlwaysClear, PTL

\* Nothing that was answered is asked again and nothing that was resolved opens
\* again while the contract lives, whatever message, escalation, command, tool
\* outcome or restart comes next.
THEOREM AnswersStand == Spec => ClarificationStands
<1>1. Inv /\ Clarity /\ [Next]_vars =>
        (/\ task # NoTask /\ task' # NoTask
         /\ Live(task) # {}
         /\ verifying' = verifying
         => /\ \A q \in Question : task.unknown[q] = "answered" => task'.unknown[q] = "answered"
            /\ \A a \in Assumption :
                 task.assumption[a] = "resolved" => task'.assumption[a] = "resolved")
  BY NextStep DEF TaskStep, Stands
<1> QED
  BY <1>1, AlwaysClear, PTL DEF Spec, ClarificationStands

\* No step leads from ASKING to a phase of execution.
THEOREM AskingComesFirst == Spec => AskingNeverResumesExecution
<1>1. Inv /\ Clarity /\ [Next]_vars =>
        (/\ task # NoTask /\ task' # NoTask
         /\ verifying' = verifying
         /\ task.phase = "ASKING"
         => task'.phase \notin Executing)
  BY NextStep DEF TaskStep
<1> QED
  BY <1>1, AlwaysClear, PTL DEF Spec, AskingNeverResumesExecution

(***************************************************************************)
(* Completion.  Only the end of a message moves a record to DONE anew, and *)
(* only through the gate, on the record it writes.                         *)
(***************************************************************************)
Gated(t) ==
  /\ \A r \in Live(t) : t.req[r] = "verified" /\ r \in t.evidence
  /\ t.contract = "APPROVED"
  /\ Clear(t)
  /\ \A r \in Req : t.checks[r] # "notRun"

\* The gate completes a record only when all it holds is finished, verified and
\* checked (evaluateCompletionGate, applyPhaseTransition).
LEMMA PhaseTransitionGated ==
  ASSUME NEW t, WellFormed(t), t.phase # "DONE", applyPhaseTransition(t).phase = "DONE"
  PROVE  Gated(applyPhaseTransition(t))
<1> DEFINE u == applyPhaseTransition(t)
<1>1. evaluateCompletionGate(t) = "allDone"
  BY DEF applyPhaseTransition, evaluateCompletionGate, WellFormed, Task
<1>2. /\ Finished(t)
      /\ \A r \in Live(t) : t.req[r] = "verified"
      /\ \A r \in Req : t.checks[r] # "notRun"
  BY <1>1 DEF evaluateCompletionGate
<1>3. /\ u.req = t.req /\ u.evidence = t.evidence /\ u.contract = t.contract
      /\ u.unknown = t.unknown /\ u.assumption = t.assumption /\ u.checks = t.checks
  BY DEF applyPhaseTransition, WellFormed, Task
<1> HIDE DEF u
<1>4. Live(u) = Live(t) /\ (Clear(t) => Clear(u))
  BY <1>3 DEF Live, Clear, Blocking, Critical
<1>5. \A r \in Live(t) : r \in t.evidence
  BY <1>2 DEF WellFormed, Backed, Live
<1>6. Gated(u)
  BY <1>2, <1>3, <1>4, <1>5 DEF Gated, Finished
<1> QED
  BY <1>6 DEF u

LEMMA OutcomeGated ==
  ASSUME NEW t, WellFormed(t), t.phase # "DONE", NEW p, NEW mem \in Escalated(t, p),
         Outcome(mem, p).phase = "DONE"
  PROVE  Gated(Outcome(mem, p))
<1> DEFINE approved == AfterApproval(mem, p)
           held == [approved EXCEPT !.strategy = mem.strategy]
<1>1. mem.phase # "DONE"
  BY EscalatedWellFormed
<1>2. ~Asks(mem)
  <2>1. ASSUME Asks(mem) PROVE FALSE
    <3>1. WellFormed([mem EXCEPT !.phase = "ASKING"])
      BY <2>1, EscalatedWellFormed DEF Asks
    <3>2. [mem EXCEPT !.phase = "ASKING"].phase = "ASKING"
      BY <3>1 DEF WellFormed, Task
    <3> QED
      BY <2>1, <3>2 DEF Outcome
  <2> QED
    BY <2>1
<1>3. WellFormed(mem)
  BY <1>2, EscalatedWellFormed
<1>4. WellFormed(approved) /\ approved.phase # "DONE"
  BY <1>1, <1>3, AfterApprovalWellFormed DEF AfterApproval, Approved, WellFormed, Task
<1> HIDE DEF approved
<1>5. WellFormed(held) /\ held.phase # "DONE"
  BY <1>3, <1>4, StrategyWellFormed DEF WellFormed, Task
<1>6. Outcome(mem, p) \in {applyPhaseTransition(held), approved}
  BY <1>2 DEF Outcome, approved, held
<1> HIDE DEF held
<1>7. Outcome(mem, p) = applyPhaseTransition(held)
  BY <1>4, <1>6
<1> QED
  BY <1>5, <1>7, PhaseTransitionGated

\* A message that ends while a record can be read either is the one whose end
\* wrote it, or was lost in a restart that left the record as it was or in
\* ANSWERED.
LEMMA CompletionStep ==
  ASSUME Inv, [Next]_vars, NEW s \in Session, MessageEnds(s), task'.phase = "DONE",
         task = NoTask \/ task.phase # "DONE"
  PROVE  Gated(task')
<1>1. msg \in [Session -> Prompt \cup {Idle}]
  BY DEF Inv, TypeOK
<1>2. CASE FinishMessage(s)
  <2>1. PICK built \in buildPersistedState(task) :
          \E mem \in Escalated(built, msg[s]) : task' = Outcome(mem, msg[s])
    BY <1>2, FinishMessageOutcome
  <2>2. PICK mem \in Escalated(built, msg[s]) : task' = Outcome(mem, msg[s])
    BY <2>1
  <2>3. WellFormed(built)
    BY BuiltWellFormed DEF Inv
  <2>4. built.phase # "DONE"
    BY SynthesizedClarified DEF buildPersistedState
  <2>5. Outcome(mem, msg[s]).phase = "DONE"
    BY <2>2
  <2> QED
    BY <2>2, <2>3, <2>4, <2>5, OutcomeGated
<1>3. ASSUME Message, ~FinishMessage(s) PROVE FALSE
  BY <1>1, <1>3 DEF Message, BeginMessage, FinishMessage, MessageEnds
<1>4. ASSUME Command \/ VerificationStep \/ Tool \/ UNCHANGED vars PROVE FALSE
  <2>1. msg' = msg
    BY <1>4 DEF vars, Command, approveContract, rejectContract, editContract,
                answerQuestion, resolveAssumption, markRequirement, VerificationStep,
                BeginVerification, FinishVerification, Tool, ToolBefore,
                ToolWithoutEffect, ToolSupported, ToolContradicted
  <2> QED
    BY <2>1 DEF MessageEnds
<1>5. ASSUME Failure PROVE FALSE
  <2>1. CASE Crash \/ CrashTearsFile
    BY <2>1 DEF Crash, CrashTearsFile, Restart, MessageEnds
  <2>2. CASE CrashAmidAnswer
    <3>1. WellFormed(task)
      BY <2>2 DEF CrashAmidAnswer, Inv
    <3>2. PICK q \in Question : task' = [Answered(task, {q}) EXCEPT !.phase = "ANSWERED"]
      BY <2>2 DEF CrashAmidAnswer, Restart
    <3>3. task'.phase = "ANSWERED"
      BY <3>1, <3>2 DEF Answered, WellFormed, Task
    <3> QED
      BY <3>3
  <2>3. ASSUME NEW o \in Session, CrashAmidMessage(o) PROVE FALSE
    <3>0. PICK built \in buildPersistedState(task) :
              \E mem \in Escalated(built, msg[o]) :
                task' \in {built, mem, AfterApproval(mem, msg[o])}
      BY <2>3 DEF CrashAmidMessage, Restart
    <3>1. PICK mem \in Escalated(built, msg[o]) :
              task' \in {built, mem, AfterApproval(mem, msg[o])}
      BY <3>0
    <3>2. WellFormed(built) /\ built.phase # "DONE"
      BY BuiltWellFormed, SynthesizedClarified DEF buildPersistedState, Inv
    <3>3. WellFormed(mem) /\ mem.phase # "DONE"
      BY <3>2, EscalatedWellFormed
    <3>4. AfterApproval(mem, msg[o]).phase # "DONE"
      BY <3>3 DEF AfterApproval, Approved, WellFormed, Task
    <3> QED
      BY <3>1, <3>2, <3>3, <3>4
  <2> QED
    BY <1>5, <2>1, <2>2, <2>3 DEF Failure
<1> QED
  BY <1>2, <1>3, <1>4, <1>5 DEF Next

\* A message completes a task only if every requirement is verified with
\* evidence, under an approved contract, with nothing left to ask or to check.
THEOREM CompletionGated == Spec => CompletionIsGated
<1>1. Inv /\ [Next]_vars =>
        \A s \in Session :
          /\ MessageEnds(s)
          /\ task'.phase = "DONE"
          /\ task = NoTask \/ task.phase # "DONE"
          => /\ \A r \in Live(task') : task'.req[r] = "verified" /\ r \in task'.evidence
             /\ task'.contract = "APPROVED"
             /\ Clear(task')
             /\ \A r \in Req : task'.checks[r] # "notRun"
  BY CompletionStep DEF Gated
<1> QED
  BY <1>1, Invariance, PTL DEF Spec, CompletionIsGated

(***************************************************************************)
(* The start of execution.  An approval looks for what is open, and so     *)
(* does the completion gate; no other step leads to a phase of execution.  *)
(***************************************************************************)
Cleared(t) == t.contract = "APPROVED" /\ Clear(t)

LEMMA ApprovedCleared ==
  ASSUME NEW t, WellFormed(t), Clear(t)
  PROVE  Cleared(Approved(t))
<1> DEFINE u == Approved(t)
<1>1. u.contract = "APPROVED" /\ u.unknown = t.unknown /\ u.assumption = t.assumption
  BY DEF Approved, WellFormed, Task
<1> HIDE DEF u
<1>2. Cleared(u)
  BY <1>1 DEF Cleared, Clear, Blocking, Critical
<1> QED
  BY <1>2 DEF u

\* What a message writes, last or before, is in a phase of execution only if it
\* was or if it is cleared.
LEMMA WritesCleared ==
  ASSUME NEW t, WellFormed(t), t.phase \notin Executing, NEW p,
         NEW mem \in Escalated(t, p)
  PROVE  /\ mem.phase \notin Executing
         /\ AfterApproval(mem, p).phase \in Executing => Cleared(AfterApproval(mem, p))
         /\ Outcome(mem, p).phase \in Executing => Cleared(Outcome(mem, p))
<1> DEFINE approved == AfterApproval(mem, p)
           held == [approved EXCEPT !.strategy = mem.strategy]
           gated == applyPhaseTransition(held)
<1>1. WellFormed(mem) /\ mem.phase \notin Executing
  BY EscalatedWellFormed
<1>2. approved.phase \in Executing => Cleared(approved)
  BY <1>1, ApprovedCleared DEF AfterApproval
<1>3. WellFormed(approved)
  BY <1>1, AfterApprovalWellFormed
<1> HIDE DEF approved
<1>4. /\ held \in Task
      /\ held.unknown = approved.unknown /\ held.assumption = approved.assumption
      /\ held.phase = approved.phase /\ held.contract = approved.contract
  BY <1>1, <1>3 DEF WellFormed, Task
<1> HIDE DEF held
<1>5. held.phase \in Executing => Cleared(held)
  BY <1>2, <1>4 DEF Cleared, Clear, Blocking, Critical
<1>6. /\ gated.unknown = held.unknown /\ gated.assumption = held.assumption
      /\ gated.contract = held.contract
      /\ gated.phase = held.phase \/ Finished(held)
  BY <1>4 DEF applyPhaseTransition, evaluateCompletionGate, Task
<1> HIDE DEF gated
<1>7. gated.phase \in Executing => Cleared(gated)
  BY <1>5, <1>6 DEF Cleared, Finished, Clear, Blocking, Critical
<1>8. ASSUME Asks(mem) PROVE Outcome(mem, p).phase \notin Executing
  BY <1>1, <1>8 DEF Outcome, Executing, WellFormed, Task
<1>9. ~Asks(mem) => Outcome(mem, p) \in {gated, approved}
  BY DEF Outcome, gated, held, approved
<1>10. Outcome(mem, p).phase \in Executing => Cleared(Outcome(mem, p))
  BY <1>2, <1>7, <1>8, <1>9
<1> QED
  BY <1>1, <1>2, <1>10 DEF approved

\* The record the handler goes on with is not in a phase of execution if the one
\* on disk is not.
LEMMA BuiltIdle ==
  ASSUME Inv, task # NoTask => task.phase \notin Executing,
         NEW built \in buildPersistedState(task)
  PROVE  WellFormed(built) /\ built.phase \notin Executing
BY BuiltWellFormed, SynthesizedClarified DEF buildPersistedState, Inv, Executing

LEMMA StartStep ==
  ASSUME Inv, [Next]_vars, task' # NoTask, task'.phase \in Executing,
         task # NoTask => task.phase \notin Executing, verifying' = verifying
  PROVE  Cleared(task')
<1>0. task # NoTask => WellFormed(task)
  BY DEF Inv
<1>1. task' # task
  OBVIOUS
<1>2. CASE Message
  <2>1. ASSUME NEW s \in Session, NEW p \in Prompt, BeginMessage(s, p) PROVE FALSE
    <3>1. task' = Heard(task, p)
      BY <2>1 DEF BeginMessage
    <3>2. ASSUME task # NoTask
          PROVE  [Answered(task, Blocking(task)) EXCEPT !.phase = "PROPOSED"].phase = "PROPOSED"
      BY <1>0, <3>2 DEF Answered, WellFormed, Task
    <3> QED
      BY <1>1, <3>1, <3>2 DEF Heard, Executing
  <2>2. ASSUME NEW s \in Session, FinishMessage(s) PROVE Cleared(task')
    <3>1. PICK built \in buildPersistedState(task) :
            \E mem \in Escalated(built, msg[s]) : task' = Outcome(mem, msg[s])
      BY <2>2, FinishMessageOutcome
    <3> QED
      BY <3>1, BuiltIdle, WritesCleared
  <2> QED
    BY <1>2, <2>1, <2>2 DEF Message
<1>3. CASE Command
  <2>1. CASE approveContract
    BY <1>0, <2>1, ApprovedCleared DEF approveContract
  <2>2. CASE rejectContract
    BY <1>0, <2>2 DEF rejectContract, Rejected, WellFormed, Task, Executing
  <2>3. CASE editContract
    BY <1>0, <2>3 DEF editContract, WellFormed, Task, Executing
  <2>4. ASSUME NEW q \in Question, answerQuestion(q) PROVE FALSE
    BY <1>0, <2>4 DEF answerQuestion, Answered, WellFormed, Task, Executing
  <2>5. ASSUME NEW a \in Assumption, resolveAssumption(a) PROVE FALSE
    <3>1. task'.phase \in {task.phase, "PROPOSED"}
      BY <1>0, <2>5 DEF resolveAssumption, Resolved, WellFormed, Task
    <3> QED
      BY <2>5, <3>1 DEF resolveAssumption, Executing
  <2>6. ASSUME NEW r \in Req, NEW status \in {"done", "pending", "verified"},
               markRequirement(r, status)
        PROVE  FALSE
    BY <1>0, <2>6 DEF markRequirement, Marked, WellFormed, Task
  <2> QED
    BY <1>3, <2>1, <2>2, <2>3, <2>4, <2>5, <2>6 DEF Command
<1>4. ASSUME VerificationStep PROVE FALSE
  BY <1>1, <1>4 DEF VerificationStep, BeginVerification, FinishVerification, Inv, TypeOK
<1>5. ASSUME Tool PROVE FALSE
  BY <1>0, <1>1, <1>5 DEF Tool, ToolBefore, ToolWithoutEffect, ToolSupported,
                          ToolContradicted, Marked, WellFormed, Task
<1>6. CASE Failure
  <2>1. ASSUME Crash \/ CrashTearsFile PROVE FALSE
    BY <1>1, <2>1 DEF Crash, CrashTearsFile, Restart
  <2>2. ASSUME CrashAmidAnswer PROVE FALSE
    BY <1>0, <2>2 DEF CrashAmidAnswer, Restart, Answered, WellFormed, Task, Executing
  <2>3. ASSUME NEW s \in Session, CrashAmidMessage(s) PROVE Cleared(task')
    <3>0. PICK built \in buildPersistedState(task) :
              \E mem \in Escalated(built, msg[s]) :
                task' \in {built, mem, AfterApproval(mem, msg[s])}
      BY <2>3 DEF CrashAmidMessage, Restart
    <3>1. PICK mem \in Escalated(built, msg[s]) :
              task' \in {built, mem, AfterApproval(mem, msg[s])}
      BY <3>0
    <3> QED
      BY <3>1, BuiltIdle, WritesCleared
  <2> QED
    BY <1>6, <2>1, <2>2, <2>3 DEF Failure
<1> QED
  BY <1>1, <1>2, <1>3, <1>4, <1>5, <1>6 DEF Next, vars

\* A task enters a phase of execution only under an approved contract and with
\* nothing left to ask.
THEOREM StartsCleared == Spec => ExecutionStartsCleared
<1>1. Inv /\ [Next]_vars =>
        (/\ task' # NoTask /\ task'.phase \in Executing
         /\ task = NoTask \/ task.phase \notin Executing
         /\ verifying' = verifying
         => task'.contract = "APPROVED" /\ Clear(task'))
  BY StartStep DEF Cleared
<1> QED
  BY <1>1, Invariance, PTL DEF Spec, ExecutionStartsCleared

=============================================================================
