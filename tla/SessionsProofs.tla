--------------------------- MODULE SessionsProofs ---------------------------
(***************************************************************************)
(* For any number of sessions, tasks and directories: the gate of a        *)
(* session reads the record its last message was about, and a private task *)
(* spreads only through its name.                                          *)
(*                                                                         *)
(* The first needs that the three maps a message leaves behind agree       *)
(* (Heeds), the second that an active-task file names a private task only  *)
(* if a user did (NamedWhenActive).                                        *)
(***************************************************************************)
EXTENDS Sessions, TLAPS

\* The binding of a session, the root of its last message and the record that
\* message read are the same thing.
Heeds ==
  \A s \in Session :
    sessionTasks[s] # Null =>
      /\ sessionWamRoots[s] # Null
      /\ heard[s] = <<sessionWamRoots[s], sessionTasks[s]>>

\* A private task in an active-task file was named by a user.
NamedWhenActive ==
  \A r \in Root :
    activeTask[r] # Null /\ activeTask[r].id \in Session =>
      \E u \in Session : activeTask[r].id \in told[u]

SessionsInv == SessionsTypeOK /\ Heeds /\ PrivateIsPrivate /\ NamedWhenActive

-----------------------------------------------------------------------------
\* Asking for the directory of a session leaves the maps well formed and ends
\* with one that is known (resolveSessionBase).
LEMMA ResolveLemma ==
  ASSUME SessionsTypeOK, NEW s \in Session, NEW base \in Root,
         resolveSessionBase(s, base)
  PROVE  /\ sessionRoots' \in [Session -> Root \cup {Null}]
         /\ sessionParents' \subseteq Worker
         /\ overlapping' \subseteq Session
         /\ sessionRoots'[s] # Null
         /\ \A x \in Session : sessionRoots[x] # Null => sessionRoots'[x] # Null
<1> USE SessionsAssumption DEF SessionsTypeOK
<1>1. ASSUME AnswerOf(s, base)
      PROVE  /\ sessionRoots' \in [Session -> Root \cup {Null}]
             /\ sessionParents' \subseteq Worker
             /\ sessionRoots'[s] # Null
             /\ \A x \in Session : sessionRoots[x] # Null => sessionRoots'[x] # Null
  BY <1>1 DEF AnswerOf
<1>2. CASE sessionRoots[s] # Null /\ UNCHANGED <<sessionRoots, sessionParents, overlapping>>
  BY <1>2
<1>3. CASE AnswerOf(s, base) /\ overlapping' \in {overlapping, overlapping \cup {s}}
  BY <1>1, <1>3
<1>4. CASE AnswerOf(s, base) /\ overlapping' = overlapping \ {s}
  BY <1>1, <1>4
<1> QED
  BY <1>2, <1>3, <1>4 DEF resolveSessionBase

\* A message also leaves its root behind (ensureWamMemory).
LEMMA EnsureLemma ==
  ASSUME SessionsTypeOK, NEW s \in Session, NEW root \in Root,
         ensureWamMemory(s, root)
  PROVE  /\ sessionRoots' \in [Session -> Root \cup {Null}]
         /\ sessionParents' \subseteq Worker
         /\ overlapping' \subseteq Session
         /\ sessionWamRoots' = [sessionWamRoots EXCEPT ![s] = root]
         /\ sessionWamRoots' \in [Session -> Root \cup {Null}]
         /\ \A x \in Session : sessionWamRoots'[x] # Null => sessionRoots'[x] # Null
<1>1. PICK base \in Root :
        /\ resolveSessionBase(s, base)
        /\ sessionWamRoots' = [sessionWamRoots EXCEPT ![s] = root]
  BY DEF ensureWamMemory
<1>2. /\ sessionRoots' \in [Session -> Root \cup {Null}]
      /\ sessionParents' \subseteq Worker
      /\ overlapping' \subseteq Session
      /\ sessionRoots'[s] # Null
      /\ \A x \in Session : sessionRoots[x] # Null => sessionRoots'[x] # Null
  BY <1>1, ResolveLemma
<1> QED
  BY <1>1, <1>2 DEF SessionsTypeOK

\* The task a message or command means is one of the tasks there are, and
\* another session's private one only if a user named it (effectiveTaskId).
LEMMA TaskLemma ==
  ASSUME SessionsInv, NEW s \in Session, NEW root \in Root,
         NEW explicit \in Named \cup {Null}
  PROVE  /\ TaskOf(s, root) \in Task
         /\ effectiveTaskId(s, explicit, root) \in Task
         /\ LET t == effectiveTaskId(s, explicit, root)
            IN  t \in Session /\ t # s => \E u \in Session : t \in told[u]
<1> USE SessionsAssumption
<1>1. readActiveTaskIdFresh(root) # Null =>
        /\ readActiveTaskIdFresh(root) \in Task
        /\ readActiveTaskIdFresh(root) \in Session =>
             \E u \in Session : readActiveTaskIdFresh(root) \in told[u]
  BY DEF readActiveTaskIdFresh, SessionsInv, SessionsTypeOK, NamedWhenActive, ActiveFile
<1>2. /\ TaskOf(s, root) \in Task
      /\ TaskOf(s, root) \in Session /\ TaskOf(s, root) # s =>
           \E u \in Session : TaskOf(s, root) \in told[u]
  BY <1>1 DEF TaskOf, SessionsInv, SessionsTypeOK, PrivateIsPrivate, Task
<1> QED
  BY <1>2 DEF effectiveTaskId, Task

\* What users have said is not forgotten.
LEMMA TellLemma ==
  ASSUME SessionsTypeOK, NEW s \in Session, NEW ts \in SUBSET Task, Tell(s, ts)
  PROVE  /\ told' \in [Session -> SUBSET Task]
         /\ ts \subseteq told'[s]
         /\ \A x \in Session : told[x] \subseteq told'[x]
  BY DEF Tell, SessionsTypeOK

-----------------------------------------------------------------------------
\* An analysis that is begun is of a session and a record.
LEMMA AnalyseLemma ==
  ASSUME analysing \subseteq Session \X Record, NEW s \in Session, NEW root \in Root,
         NEW t \in Task, Analyse(s, root, t)
  PROVE  analysing' \subseteq Session \X Record
  BY DEF Analyse, Record

\* Every map keeps its type, and Heeds, PrivateIsPrivate and NamedWhenActive
\* follow from what a message does to the maps of its session.
LEMMA MessageStep ==
  ASSUME SessionsInv, NEW s \in Session, NEW root \in Root, NEW t \in Task,
         NEW ts \in SUBSET Task,
         ensureWamMemory(s, root), Bind(s, t), Hear(s, root, t), Tell(s, ts),
         t \in Session /\ t # s => \E u \in Session : t \in told[u],
         activeTask' \in [Root -> ActiveFile \cup {Null}],
         phase' \in [Record -> Phase \cup {Null}],
         analysing' \subseteq Session \X Record, events' \in 0 .. MaxEvents,
         \A r \in Root : activeTask'[r] = activeTask[r] \/ activeTask'[r].id \in Named
  PROVE  SessionsInv'
<1> USE SessionsAssumption
<1>1. /\ told' \in [Session -> SUBSET Task]
      /\ \A x \in Session : told[x] \subseteq told'[x]
  BY TellLemma DEF SessionsInv
<1>2. SessionsTypeOK'
  <2>1. /\ sessionTasks' \in [Session -> Task \cup {Null}]
        /\ heard' \in [Session -> Record \cup {Null}]
    BY DEF SessionsInv, SessionsTypeOK, Bind, Hear, Record
  <2>2. /\ sessionRoots' \in [Session -> Root \cup {Null}]
        /\ sessionParents' \subseteq Worker
        /\ overlapping' \subseteq Session
        /\ sessionWamRoots' \in [Session -> Root \cup {Null}]
        /\ \A x \in Session : sessionWamRoots'[x] # Null => sessionRoots'[x] # Null
    BY EnsureLemma DEF SessionsInv
  <2> QED
    BY <1>1, <2>1, <2>2 DEF SessionsTypeOK
<1>3. Heeds'
  BY EnsureLemma DEF SessionsInv, SessionsTypeOK, Bind, Hear, Heeds
<1>4. PrivateIsPrivate'
  BY <1>1 DEF SessionsInv, SessionsTypeOK, Bind, PrivateIsPrivate
<1>5. NamedWhenActive'
  BY <1>1 DEF SessionsInv, NamedWhenActive
<1> QED
  BY <1>2, <1>3, <1>4, <1>5 DEF SessionsInv

\* The same of a command, which leaves the binding and the root alone.
LEMMA CommandStep ==
  ASSUME SessionsInv,
         sessionRoots' \in [Session -> Root \cup {Null}],
         sessionParents' \subseteq Worker, overlapping' \subseteq Session,
         \A x \in Session : sessionRoots[x] # Null => sessionRoots'[x] # Null,
         UNCHANGED <<sessionWamRoots, sessionTasks, heard>>,
         told' \in [Session -> SUBSET Task],
         \A x \in Session : told[x] \subseteq told'[x],
         activeTask' \in [Root -> ActiveFile \cup {Null}],
         phase' \in [Record -> Phase \cup {Null}],
         analysing' \subseteq Session \X Record, events' \in 0 .. MaxEvents,
         NamedWhenActive'
  PROVE  SessionsInv'
<1>1. SessionsTypeOK'
  BY DEF SessionsInv, SessionsTypeOK
<1>2. Heeds' /\ PrivateIsPrivate'
  BY DEF SessionsInv, Heeds, PrivateIsPrivate
<1> QED
  BY <1>1, <1>2 DEF SessionsInv

LEMMA InitInv == SessionsInit => SessionsInv
<1> SUFFICES ASSUME SessionsInit PROVE SessionsInv
  OBVIOUS
<1>0. phase \in [Record -> Phase \cup {Null}]
  <2>1. PICK p \in [Foreign -> Phase] :
          phase = [r \in Record |-> IF r \in Foreign THEN p[r] ELSE Null]
    BY DEF SessionsInit
  <2> QED
    BY <2>1
<1> USE SessionsAssumption DEF SessionsInit, NoEntry
<1>1. SessionsTypeOK
  BY <1>0 DEF SessionsTypeOK
<1>2. Heeds /\ PrivateIsPrivate /\ NamedWhenActive
  BY DEF Heeds, PrivateIsPrivate, NamedWhenActive
<1> QED
  BY <1>1, <1>2 DEF SessionsInv

LEMMA NextInv == SessionsInv /\ [SessionsNext]_sessionsVars => SessionsInv'
<1> SUFFICES ASSUME SessionsInv, [SessionsNext]_sessionsVars PROVE SessionsInv'
  OBVIOUS
<1> USE SessionsAssumption
<1>1. ASSUME NEW s \in Session, ResumeIntent(s) PROVE SessionsInv'
  <2>1. PICK root \in Root :
          /\ ensureWamMemory(s, root)
          /\ LET active == IF sessionTasks[s] # Null THEN sessionTasks[s]
                           ELSE readActiveTaskIdFresh(root)
             IN  heard' = IF active = Null THEN heard
                          ELSE [heard EXCEPT ![s] = <<root, active>>]
    BY <1>1 DEF ResumeIntent
  <2>2. /\ UNCHANGED <<sessionTasks, activeTask, phase, analysing, told>>
        /\ events' \in 0 .. MaxEvents
    BY <1>1 DEF ResumeIntent, Spend, SessionsInv, SessionsTypeOK
  <2>3. readActiveTaskIdFresh(root) \in Task \cup {Null}
    BY DEF readActiveTaskIdFresh, SessionsInv, SessionsTypeOK, ActiveFile
  <2>4. SessionsTypeOK'
    BY <2>1, <2>2, <2>3, EnsureLemma DEF SessionsInv, SessionsTypeOK, Record
  <2>5. Heeds'
    BY <2>1, <2>2, EnsureLemma DEF SessionsInv, SessionsTypeOK, Heeds
  <2>6. PrivateIsPrivate' /\ NamedWhenActive'
    BY <2>2 DEF SessionsInv, PrivateIsPrivate, NamedWhenActive
  <2> QED
    BY <2>4, <2>5, <2>6 DEF SessionsInv
<1>2. ASSUME NEW s \in Session, Message(s) PROVE SessionsInv'
  <2>1. PICK root \in Root, explicit \in Named \cup {Null} :
          LET t == effectiveTaskId(s, explicit, root)
          IN  /\ ensureWamMemory(s, root)
              /\ Bind(s, t) /\ Hear(s, root, t) /\ Tell(s, {explicit} \ {Null})
              /\ Analyse(s, root, t) \/ UNCHANGED analysing
    BY <1>2 DEF Message, GoesOn
  <2>2. UNCHANGED <<activeTask, phase>> /\ events' \in 0 .. MaxEvents
    BY <1>2 DEF Message, Spend, SessionsInv, SessionsTypeOK
  <2>3. {explicit} \ {Null} \in SUBSET Task
    BY DEF Task
  <2>4. analysing' \subseteq Session \X Record
    BY <2>1, TaskLemma DEF Analyse, Record, SessionsInv, SessionsTypeOK
  <2>5. /\ activeTask' \in [Root -> ActiveFile \cup {Null}]
        /\ phase' \in [Record -> Phase \cup {Null}]
    BY <2>2 DEF SessionsInv, SessionsTypeOK
  <2> QED
    BY <2>1, <2>2, <2>3, <2>4, <2>5, TaskLemma, MessageStep
<1>3. ASSUME NEW s \in Session, AskingMessage(s) PROVE SessionsInv'
  <2> PICK root \in Root, explicit \in Named \cup {Null} :
        LET t == effectiveTaskId(s, explicit, root)
            r == <<root, t>>
        IN  /\ ensureWamMemory(s, root)
            /\ \/ /\ Bind(s, t) /\ Hear(s, root, t) /\ Tell(s, {explicit} \ {Null})
                  /\ UNCHANGED <<activeTask, phase, analysing>>
               \/ /\ Bind(s, t) /\ Hear(s, root, t) /\ Tell(s, {explicit} \ {Null})
                  /\ \E p \in {"ASKING", "PROPOSED", "APPROVED"} :
                       phase' = [phase EXCEPT ![r] = p]
                  /\ Analyse(s, root, t) \/ UNCHANGED analysing
                  /\ UNCHANGED activeTask
               \/ \E new \in Named :
                    /\ Bind(s, new) /\ Hear(s, root, new) /\ Tell(s, {new})
                    /\ writeActiveTaskId(new, root)
                    /\ Analyse(s, root, new)
                    /\ UNCHANGED phase
    BY <1>3 DEF AskingMessage, GoesOn
  <2> DEFINE t == effectiveTaskId(s, explicit, root)
             r == <<root, t>>
  <2>1. /\ t \in Task /\ r \in Record
        /\ t \in Session /\ t # s => \E u \in Session : t \in told[u]
    BY TaskLemma DEF Record
  <2>2. events' \in 0 .. MaxEvents /\ {explicit} \ {Null} \in SUBSET Task
    BY <1>3 DEF AskingMessage, Spend, SessionsInv, SessionsTypeOK, Task
  <2> HIDE DEF t
  <2>3. CASE /\ Bind(s, t) /\ Hear(s, root, t) /\ Tell(s, {explicit} \ {Null})
             /\ UNCHANGED <<activeTask, phase, analysing>>
    <3>1. /\ activeTask' \in [Root -> ActiveFile \cup {Null}]
          /\ phase' \in [Record -> Phase \cup {Null}]
          /\ analysing' \subseteq Session \X Record
      BY <2>3 DEF SessionsInv, SessionsTypeOK
    <3> QED
      BY <2>1, <2>2, <2>3, <3>1, MessageStep
  <2>4. CASE /\ Bind(s, t) /\ Hear(s, root, t) /\ Tell(s, {explicit} \ {Null})
             /\ \E p \in {"ASKING", "PROPOSED", "APPROVED"} :
                  phase' = [phase EXCEPT ![r] = p]
             /\ Analyse(s, root, t) \/ UNCHANGED analysing
             /\ UNCHANGED activeTask
    <3>1. /\ activeTask' \in [Root -> ActiveFile \cup {Null}]
          /\ phase' \in [Record -> Phase \cup {Null}]
          /\ analysing' \subseteq Session \X Record
      <4>1. activeTask' \in [Root -> ActiveFile \cup {Null}]
        BY <2>4 DEF SessionsInv, SessionsTypeOK
      <4>2. phase' \in [Record -> Phase \cup {Null}]
        BY <2>1, <2>4 DEF SessionsInv, SessionsTypeOK, Phase
      <4>3. analysing' \subseteq Session \X Record
        <5>1. analysing \subseteq Session \X Record
          BY DEF SessionsInv, SessionsTypeOK
        <5>2. Analyse(s, root, t) \/ analysing' = analysing
          BY <2>4
        <5> QED
          BY <2>1, <5>1, <5>2, AnalyseLemma
      <4> QED
        BY <4>1, <4>2, <4>3
    <3> QED
      BY <2>1, <2>2, <2>4, <3>1, MessageStep
  <2>5. ASSUME NEW new \in Named,
               Bind(s, new), Hear(s, root, new), Tell(s, {new}),
               writeActiveTaskId(new, root), Analyse(s, root, new), UNCHANGED phase
        PROVE  SessionsInv'
    <3>1. new \in Task /\ new \notin Session /\ {new} \in SUBSET Task
      BY DEF Task
    <3>2. /\ activeTask' \in [Root -> ActiveFile \cup {Null}]
          /\ \A x \in Root : activeTask'[x] = activeTask[x] \/ activeTask'[x].id \in Named
      BY <2>5, <3>1 DEF writeActiveTaskId, ActiveFile, SessionsInv, SessionsTypeOK
    <3>3. /\ phase' \in [Record -> Phase \cup {Null}]
          /\ analysing' \subseteq Session \X Record
      <4>1. phase' \in [Record -> Phase \cup {Null}] /\ analysing \subseteq Session \X Record
        BY <2>5 DEF SessionsInv, SessionsTypeOK
      <4>2. Analyse(s, root, new)
        BY <2>5
      <4> QED
        BY <3>1, <4>1, <4>2, AnalyseLemma
    <3> QED
      BY <2>2, <2>5, <3>1, <3>2, <3>3, MessageStep
  <2> QED
    BY <2>3, <2>4, <2>5 DEF t
<1>4. ASSUME NEW s \in Session, FinishAnalysis(s) PROVE SessionsInv'
  <2>1. /\ UNCHANGED <<sessionMaps, activeTask, events, heard, told>>
        /\ phase' \in [Record -> Phase \cup {Null}]
        /\ analysing' \subseteq Session \X Record
    BY <1>4 DEF FinishAnalysis, SessionsInv, SessionsTypeOK
  <2> QED
    BY <2>1 DEF sessionMaps, SessionsInv, SessionsTypeOK, Heeds, PrivateIsPrivate,
                NamedWhenActive
<1>5. ASSUME NEW s \in Session, TaskSwitch(s) PROVE SessionsInv'
  <2>1. PICK base \in Root, id \in Task :
          /\ resolveSessionBase(s, base)
          /\ writeActiveTaskId(id, Cwd) /\ Tell(s, {id})
    BY <1>5 DEF TaskSwitch
  <2>2. /\ UNCHANGED <<sessionWamRoots, sessionTasks, phase, analysing, heard>>
        /\ events' \in 0 .. MaxEvents
    BY <1>5 DEF TaskSwitch, Spend, SessionsInv, SessionsTypeOK
  <2>3. /\ told' \in [Session -> SUBSET Task] /\ id \in told'[s]
        /\ \A x \in Session : told[x] \subseteq told'[x]
    BY <2>1, TellLemma DEF SessionsInv
  <2>4. NamedWhenActive' /\ activeTask' \in [Root -> ActiveFile \cup {Null}]
    BY <2>1, <2>3
    DEF writeActiveTaskId, ActiveFile, NamedWhenActive, SessionsInv, SessionsTypeOK
  <2>5. /\ phase' \in [Record -> Phase \cup {Null}]
        /\ analysing' \subseteq Session \X Record
    BY <2>2 DEF SessionsInv, SessionsTypeOK
  <2>6. /\ sessionRoots' \in [Session -> Root \cup {Null}]
        /\ sessionParents' \subseteq Worker /\ overlapping' \subseteq Session
        /\ \A x \in Session : sessionRoots[x] # Null => sessionRoots'[x] # Null
    BY <2>1, ResolveLemma DEF SessionsInv
  <2> QED
    BY <2>2, <2>3, <2>4, <2>5, <2>6, CommandStep
<1>6. ASSUME NEW s \in Session, resumeTask(s) PROVE SessionsInv'
  <2>1. PICK base \in Root :
          /\ resolveSessionBase(s, base)
          /\ \E id \in Named \cup {TaskOf(s, base)} :
               IF id \in Named
               THEN writeActiveTaskId(id, base) /\ Tell(s, {id})
               ELSE UNCHANGED <<activeTask, told>>
    BY <1>6 DEF resumeTask
  <2> PICK id \in Named \cup {TaskOf(s, base)} :
        IF id \in Named THEN writeActiveTaskId(id, base) /\ Tell(s, {id})
        ELSE UNCHANGED <<activeTask, told>>
    BY <2>1
  <2>2. /\ UNCHANGED <<sessionWamRoots, sessionTasks, phase, analysing, heard>>
        /\ events' \in 0 .. MaxEvents
    BY <1>6 DEF resumeTask, Spend, SessionsInv, SessionsTypeOK
  <2>3. /\ phase' \in [Record -> Phase \cup {Null}]
        /\ analysing' \subseteq Session \X Record
    BY <2>2 DEF SessionsInv, SessionsTypeOK
  <2>4. /\ sessionRoots' \in [Session -> Root \cup {Null}]
        /\ sessionParents' \subseteq Worker /\ overlapping' \subseteq Session
        /\ \A x \in Session : sessionRoots[x] # Null => sessionRoots'[x] # Null
    BY <2>1, ResolveLemma DEF SessionsInv
  <2>5. CASE id \in Named
    <3>1. {id} \in SUBSET Task
      BY <2>5 DEF Task
    <3>2. /\ told' \in [Session -> SUBSET Task] /\ id \in told'[s]
          /\ \A x \in Session : told[x] \subseteq told'[x]
      BY <2>1, <2>5, <3>1, TellLemma DEF SessionsInv
    <3>3. NamedWhenActive' /\ activeTask' \in [Root -> ActiveFile \cup {Null}]
      <4>1. activeTask' = [activeTask EXCEPT ![base] = [id |-> id, fresh |-> TRUE]]
        BY <2>5 DEF writeActiveTaskId
      <4>2. activeTask' \in [Root -> ActiveFile \cup {Null}]
        BY <2>5, <3>1, <4>1 DEF ActiveFile, SessionsInv, SessionsTypeOK
      <4>3. NamedWhenActive'
        BY <3>2, <4>1 DEF NamedWhenActive, SessionsInv, SessionsTypeOK
      <4> QED
        BY <4>2, <4>3
    <3> QED
      BY <2>2, <2>3, <2>4, <3>2, <3>3, CommandStep
  <2>6. CASE id \notin Named
    <3>1. /\ told' \in [Session -> SUBSET Task]
          /\ \A x \in Session : told[x] \subseteq told'[x]
          /\ NamedWhenActive' /\ activeTask' \in [Root -> ActiveFile \cup {Null}]
      BY <2>1, <2>6 DEF NamedWhenActive, SessionsInv, SessionsTypeOK
    <3> QED
      BY <2>2, <2>3, <2>4, <3>1, CommandStep
  <2> QED
    BY <2>5, <2>6
<1>7. ASSUME NEW s \in Session, Command(s) PROVE SessionsInv'
  <2>1. PICK base \in Root, p \in Phase :
          /\ resolveSessionBase(s, base)
          /\ phase' = [phase EXCEPT ![<<base, TaskOf(s, base)>>] = p]
    BY <1>7 DEF Command
  <2>2. /\ UNCHANGED <<sessionWamRoots, sessionTasks, activeTask, analysing, heard, told>>
        /\ events' \in 0 .. MaxEvents
    BY <1>7 DEF Command, Spend, SessionsInv, SessionsTypeOK
  <2>3. /\ sessionRoots' \in [Session -> Root \cup {Null}]
        /\ sessionParents' \subseteq Worker /\ overlapping' \subseteq Session
        /\ \A x \in Session : sessionRoots[x] # Null => sessionRoots'[x] # Null
    BY <2>1, ResolveLemma DEF SessionsInv
  <2>4. phase' \in [Record -> Phase \cup {Null}]
    BY <2>1 DEF SessionsInv, SessionsTypeOK
  <2>5. /\ told' \in [Session -> SUBSET Task]
        /\ \A x \in Session : told[x] \subseteq told'[x]
        /\ activeTask' \in [Root -> ActiveFile \cup {Null}]
        /\ analysing' \subseteq Session \X Record
        /\ NamedWhenActive'
    BY <2>2 DEF NamedWhenActive, SessionsInv, SessionsTypeOK
  <2> QED
    BY <2>2, <2>3, <2>4, <2>5, CommandStep
<1>8. ASSUME NEW s \in Session, ToolCall(s) PROVE SessionsInv'
  <2>1. PICK base \in Root : resolveSessionBase(s, base)
    BY <1>8 DEF ToolCall
  <2>2. UNCHANGED <<sessionWamRoots, sessionTasks, activeTask, phase, analysing,
                    events, heard, told>>
    BY <1>8 DEF ToolCall
  <2>3. /\ sessionRoots' \in [Session -> Root \cup {Null}]
        /\ sessionParents' \subseteq Worker /\ overlapping' \subseteq Session
        /\ \A x \in Session : sessionRoots[x] # Null => sessionRoots'[x] # Null
    BY <2>1, ResolveLemma DEF SessionsInv
  <2>4. /\ told' \in [Session -> SUBSET Task]
        /\ \A x \in Session : told[x] \subseteq told'[x]
        /\ activeTask' \in [Root -> ActiveFile \cup {Null}]
        /\ phase' \in [Record -> Phase \cup {Null}]
        /\ analysing' \subseteq Session \X Record
        /\ events' \in 0 .. MaxEvents
        /\ NamedWhenActive'
    BY <2>2 DEF NamedWhenActive, SessionsInv, SessionsTypeOK
  <2> QED
    BY <2>2, <2>3, <2>4, CommandStep
<1>9. CASE Expire
  <2>1. PICK root \in Root :
          /\ activeTask[root] # Null
          /\ activeTask' = [activeTask EXCEPT ![root].fresh = FALSE]
    BY <1>9 DEF Expire
  <2>2. UNCHANGED <<sessionMaps, phase, analysing, events, heard, told>>
    BY <1>9 DEF Expire
  <2>3. /\ activeTask' \in [Root -> ActiveFile \cup {Null}]
        /\ \A r \in Root : activeTask'[r] # Null =>
             activeTask[r] # Null /\ activeTask'[r].id = activeTask[r].id
    BY <2>1, ZenonT(60) DEF SessionsInv, SessionsTypeOK, ActiveFile
  <2>4. NamedWhenActive'
    BY <2>2, <2>3 DEF SessionsInv, NamedWhenActive
  <2> QED
    BY <2>2, <2>3, <2>4
    DEF sessionMaps, SessionsInv, SessionsTypeOK, Heeds, PrivateIsPrivate
<1>10. CASE Restart
  <2>1. SessionsTypeOK'
    BY <1>10 DEF Restart, NoEntry, Spend, SessionsInv, SessionsTypeOK
  <2>2. Heeds' /\ PrivateIsPrivate' /\ NamedWhenActive'
    BY <1>10 DEF Restart, NoEntry, SessionsInv, Heeds, PrivateIsPrivate, NamedWhenActive
  <2> QED
    BY <2>1, <2>2 DEF SessionsInv
<1>11. CASE UNCHANGED sessionsVars
  BY <1>11 DEF sessionsVars, sessionMaps, SessionsInv, SessionsTypeOK, Heeds,
               PrivateIsPrivate, NamedWhenActive
<1> QED
  BY <1>1, <1>2, <1>3, <1>4, <1>5, <1>6, <1>7, <1>8, <1>9, <1>10, <1>11 DEF SessionsNext

-----------------------------------------------------------------------------
LEMMA AlwaysSessionsInv == SessionsSpec => []SessionsInv
  BY InitInv, NextInv, PTL DEF SessionsSpec

\* Whatever sessions, commands, expiries and restarts do, the maps keep their
\* types and a session that was given a root has been resolved.
THEOREM AlwaysSessionsTypeOK == SessionsSpec => []SessionsTypeOK
<1>1. SessionsInv => SessionsTypeOK
  BY DEF SessionsInv
<1> QED
  BY <1>1, AlwaysSessionsInv, PTL

\* While the question of a session's last message is open, no changing tool of
\* the session runs (tool.execute.before against chat.message).
THEOREM AlwaysGateHeedsMessage == SessionsSpec => []GateHeedsMessage
<1>1. SessionsInv => GateHeedsMessage
  BY DEF SessionsInv, Heeds, GateHeedsMessage, Refused, GateRecord, GateRoot, TaskOf
<1> QED
  BY <1>1, AlwaysSessionsInv, PTL

\* A private task is joined by another session only when a user named it.
THEOREM AlwaysPrivateIsPrivate == SessionsSpec => []PrivateIsPrivate
<1>1. SessionsInv => PrivateIsPrivate
  BY DEF SessionsInv
<1> QED
  BY <1>1, AlwaysSessionsInv, PTL
=============================================================================
