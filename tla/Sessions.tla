------------------------------ MODULE Sessions ------------------------------
(***************************************************************************)
(* Which task a session of the host works on, and where its record lives.  *)
(*                                                                         *)
(* One plugin instance serves every session of an OpenCode server.  It     *)
(* keeps, in memory and per session, the directory the session was started *)
(* in, the repository its last message was about, whether it has a parent  *)
(* (a delegated worker) and the task it is bound to.  On disk there is one *)
(* active-task file per project, good for a minute after it is written.    *)
(*                                                                         *)
(* Messages, commands and tool calls of a session each work out on their   *)
(* own which record they mean.  The gate that refuses changing tools while *)
(* a question is open is only as good as its agreement with the message    *)
(* that asked the question.                                                *)
(*                                                                         *)
(* What a record says is TaskLifecycle's concern: here it is the phase     *)
(* alone, and a message or command leaves any phase that module allows.    *)
(***************************************************************************)
EXTENDS Naturals

CONSTANTS
  Session,     \* sessions of the host, each with a private task ses-<id>
  Named,       \* task ids that users name and that new intents mint
  Root,        \* directories that can hold a .wam memory
  Cwd,         \* the directory the server was started in
  Located,     \* where each session was started, as the host reports it
  Nested,      \* the repositories found below each directory
  Worker,      \* the sessions that have a parent
  Foreign,     \* records of another project, come with a directory
  Null,        \* an absent map entry, file or record
  MaxEvents    \* bound: messages and commands in one behaviour

ASSUME SessionsAssumption ==
  /\ Cwd \in Root /\ Worker \subseteq Session
  /\ Located \in [Session -> Root] /\ Nested \in [Root -> SUBSET Root]
  /\ Session \cap Named = {} /\ Null \notin Session \cup Named \cup Root
  /\ Foreign \subseteq Root \X (Session \cup Named)
  /\ MaxEvents \in Nat

\* A session's private task is named after it.
Task == Session \cup Named
Phase == {"PROPOSED", "ASKING", "APPROVED", "DONE"}
Record == Root \X Task

VARIABLES
  sessionRoots,     \* Session -> directory of the session, once resolved
  overlapping,      \* sessions with a second question to the host open
  sessionParents,   \* sessions known to have a parent
  sessionWamRoots,  \* Session -> root of its last message
  sessionTasks,     \* Session -> task it is bound to
  activeTask,       \* Root -> active-task file
  phase,            \* Record -> phase of its state.yaml
  analysing,        \* messages whose analysis is awaited
  events,           \* messages and commands so far
  heard,            \* history: the record each session's last message read
  told              \* history: the tasks each session's own user spoke of

sessionMaps == <<sessionRoots, overlapping, sessionParents, sessionWamRoots, sessionTasks>>
sessionsVars == <<sessionMaps, activeTask, phase, analysing, events, heard, told>>

-----------------------------------------------------------------------------
(* The active-task file and the choice of a task.                          *)

ActiveFile == [id: Task, fresh: BOOLEAN]

readActiveTaskIdFresh(root) ==
  IF activeTask[root] = Null \/ ~ activeTask[root].fresh
  THEN Null ELSE activeTask[root].id

writeActiveTaskId(id, root) ==
  activeTask' = [activeTask EXCEPT ![root] = [id |-> id, fresh |-> TRUE]]

\* The binding, else a fresh active task of the root, else the private task.
TaskOf(s, root) ==
  IF sessionTasks[s] # Null THEN sessionTasks[s]
  ELSE IF readActiveTaskIdFresh(root) # Null THEN readActiveTaskIdFresh(root)
  ELSE s

\* A task id the message carries comes first; a generic one counts as none.
effectiveTaskId(s, explicit, root) ==
  IF explicit # Null THEN explicit ELSE TaskOf(s, root)

-----------------------------------------------------------------------------
(* Where a session is.  The host may fail to answer: the directory of the  *)
(* server then stands in for good and the parent stays unknown.  A call    *)
(* that asked before the first answer came asks all the same, and its      *)
(* answer, or failure, replaces the first.                                 *)

AnswerOf(s, base) ==
  /\ \/ /\ base = Located[s]
        /\ sessionParents' = sessionParents \cup (Worker \cap {s})
     \/ base = Cwd /\ UNCHANGED sessionParents
  /\ sessionRoots' = [sessionRoots EXCEPT ![s] = base]

\* Mutant: the directory that stands in is not remembered.
resolveSessionBase_Uncached(s, base) ==
  \/ /\ sessionRoots[s] # Null
     /\ base = sessionRoots[s]
     /\ UNCHANGED <<sessionRoots, sessionParents, overlapping>>
  \/ /\ sessionRoots[s] = Null
     /\ base = Cwd
     /\ UNCHANGED <<sessionRoots, sessionParents, overlapping>>

resolveSessionBase(s, base) ==
  \/ /\ sessionRoots[s] # Null
     /\ base = sessionRoots[s]
     /\ UNCHANGED <<sessionRoots, sessionParents, overlapping>>
  \/ /\ sessionRoots[s] = Null
     /\ AnswerOf(s, base)
     /\ overlapping' \in {overlapping, overlapping \cup {s}}
  \/ /\ s \in overlapping
     /\ AnswerOf(s, base)
     /\ overlapping' = overlapping \ {s}

\* The words of a prompt may point at any repository under the base.
resolveWamRoot(base) == {base} \cup Nested[base]

\* Every message moves the session's root, whatever becomes of the message.
ensureWamMemory(s, root) ==
  \E base \in Root :
    /\ resolveSessionBase(s, base)
    /\ root \in resolveWamRoot(base)
    /\ sessionWamRoots' = [sessionWamRoots EXCEPT ![s] = root]

-----------------------------------------------------------------------------
(* Messages.                                                               *)

Spend == events < MaxEvents /\ events' = events + 1

Bind(s, t) == sessionTasks' = [sessionTasks EXCEPT ![s] = t]
Hear(s, root, t) == heard' = [heard EXCEPT ![s] = <<root, t>>]
Tell(s, ts) == told' = [told EXCEPT ![s] = @ \cup ts]
Analyse(s, root, t) == analysing' = analysing \cup {<<s, <<root, t>>>>}

\* "Where were we?" without a task id is answered with a question.
ResumeIntent(s) ==
  /\ Spend
  /\ \E root \in Root :
       LET active == IF sessionTasks[s] # Null THEN sessionTasks[s]
                     ELSE readActiveTaskIdFresh(root)
       IN  /\ ensureWamMemory(s, root)
           /\ heard' = IF active = Null THEN heard
                       ELSE [heard EXCEPT ![s] = <<root, active>>]
  /\ UNCHANGED <<sessionTasks, activeTask, phase, analysing, told>>

\* Where the record is another project's, the message goes no further: what the
\* handler calls next, addToBacklog, the plugin object does not have, and the
\* exception ends the message before the new task the comment speaks of.
\* A record keeps the project it was made in.
GoesOn(s, root, t) ==
  IF <<root, t>> \in Foreign THEN UNCHANGED analysing ELSE Analyse(s, root, t)

\* Any other message binds the session.  An approved record may be served
\* without an analysis.
Message(s) ==
  /\ Spend
  /\ \E root \in Root, explicit \in Named \cup {Null} :
       LET t == effectiveTaskId(s, explicit, root)
       IN  /\ ensureWamMemory(s, root)
           /\ phase[<<root, t>>] # "ASKING"
           /\ Bind(s, t) /\ Hear(s, root, t) /\ Tell(s, {explicit} \ {Null})
           /\ \/ GoesOn(s, root, t)
              \/ phase[<<root, t>>] = "APPROVED" /\ UNCHANGED analysing
  /\ UNCHANGED <<activeTask, phase>>

\* While its task is ASKING a message is a command or an attempt to go on,
\* which are not consumed, an answer, or a change of mind: a new task, which
\* also becomes the active task of the project.
AskingMessage(s) ==
  /\ Spend
  /\ \E root \in Root, explicit \in Named \cup {Null} :
       LET t == effectiveTaskId(s, explicit, root)
           r == <<root, t>>
       IN  /\ ensureWamMemory(s, root)
           /\ phase[r] = "ASKING"
           /\ \/ /\ Bind(s, t) /\ Hear(s, root, t) /\ Tell(s, {explicit} \ {Null})
                 /\ UNCHANGED <<activeTask, phase, analysing>>
              \/ /\ Bind(s, t) /\ Hear(s, root, t) /\ Tell(s, {explicit} \ {Null})
                 /\ \E p \in {"ASKING", "PROPOSED", "APPROVED"} :
                      phase' = [phase EXCEPT ![r] = p]
                 /\ GoesOn(s, root, t)
                 /\ UNCHANGED activeTask
              \/ \E new \in Named :
                 /\ \A x \in Root : phase[<<x, new>>] = Null
                 /\ \A x \in Session : new \notin told[x]
                 /\ Bind(s, new) /\ Hear(s, root, new) /\ Tell(s, {new})
                 /\ writeActiveTaskId(new, root)
                 /\ Analyse(s, root, new)
                 /\ UNCHANGED phase

\* The analysis settles and the record is written, wherever the session has
\* gone since.
FinishAnalysis(s) ==
  /\ \E r \in Record, p \in Phase :
       /\ <<s, r>> \in analysing
       /\ analysing' = analysing \ {<<s, r>>}
       /\ phase' = [phase EXCEPT ![r] = p]
  /\ UNCHANGED <<sessionMaps, activeTask, events, heard, told>>

-----------------------------------------------------------------------------
(* Commands work on the session's directory, not on its last message's.    *)

\* /wam task switch writes the active task of the server's directory.
TaskSwitch(s) ==
  /\ Spend
  /\ \E base \in Root : resolveSessionBase(s, base)
  /\ \E id \in Task : writeActiveTaskId(id, Cwd) /\ Tell(s, {id})
  /\ UNCHANGED <<sessionWamRoots, sessionTasks, phase, analysing, heard>>

\* Mutant: a private task becomes the active one as well.
resumeTask_Private(s) ==
  /\ Spend
  /\ \E base \in Root :
       /\ resolveSessionBase(s, base)
       /\ \E id \in Named \cup {TaskOf(s, base)} :
            /\ phase[<<base, id>>] \notin {Null, "DONE"}
            /\ writeActiveTaskId(id, base)
            /\ UNCHANGED told
  /\ UNCHANGED <<sessionWamRoots, sessionTasks, phase, analysing, heard>>

\* /wam resume makes an unfinished task active, a private one excepted.
resumeTask(s) ==
  /\ Spend
  /\ \E base \in Root :
       /\ resolveSessionBase(s, base)
       /\ \E id \in Named \cup {TaskOf(s, base)} :
            /\ phase[<<base, id>>] \notin {Null, "DONE"}
            /\ IF id \in Named
               THEN writeActiveTaskId(id, base) /\ Tell(s, {id})
               ELSE UNCHANGED <<activeTask, told>>
  /\ UNCHANGED <<sessionWamRoots, sessionTasks, phase, analysing, heard>>

\* The other commands that change a record: TaskLifecycle has them one by one.
Command(s) ==
  /\ Spend
  /\ \E base \in Root, p \in Phase :
       LET r == <<base, TaskOf(s, base)>>
       IN  /\ resolveSessionBase(s, base)
           /\ phase[r] # Null
           /\ phase' = [phase EXCEPT ![r] = p]
  /\ UNCHANGED <<sessionWamRoots, sessionTasks, activeTask, analysing, heard, told>>

-----------------------------------------------------------------------------
(* Tool calls.                                                             *)

\* Tools that change something and are refused while a question is open.
BlockedTools == {"write", "edit", "bash", "task", "todowrite"}

\* Mutant: the gate looks where the session began.
GateRoot_Base(s) == sessionRoots[s]

GateRoot(s) ==
  IF sessionWamRoots[s] # Null THEN sessionWamRoots[s] ELSE sessionRoots[s]

GateRecord(s) == <<GateRoot(s), TaskOf(s, GateRoot(s))>>

\* What the gate answers once the session's directory is known.
Refused(s, tool) == phase[GateRecord(s)] = "ASKING" /\ tool \in BlockedTools

\* Both hooks of a tool call resolve the session first.
ToolCall(s) ==
  /\ sessionWamRoots[s] = Null \/ s \in overlapping
  /\ \E base \in Root : resolveSessionBase(s, base)
  /\ UNCHANGED <<sessionWamRoots, sessionTasks, activeTask, phase, analysing,
                 events, heard, told>>

-----------------------------------------------------------------------------
\* A minute passes.
Expire ==
  /\ \E root \in Root :
       /\ activeTask[root] # Null /\ activeTask[root].fresh
       /\ activeTask' = [activeTask EXCEPT ![root].fresh = FALSE]
  /\ UNCHANGED <<sessionMaps, phase, analysing, events, heard, told>>

NoEntry == [s \in Session |-> Null]

\* A restart loses the sessionMaps and the messages, and keeps the files.
Restart ==
  /\ Spend
  /\ sessionRoots' = NoEntry /\ overlapping' = {} /\ sessionParents' = {}
  /\ sessionWamRoots' = NoEntry /\ sessionTasks' = NoEntry
  /\ analysing' = {} /\ heard' = NoEntry
  /\ UNCHANGED <<activeTask, phase, told>>

SessionsInit ==
  /\ sessionRoots = NoEntry /\ overlapping = {} /\ sessionParents = {}
  /\ sessionWamRoots = NoEntry /\ sessionTasks = NoEntry
  /\ activeTask = [r \in Root |-> Null]
  /\ \E p \in [Foreign -> Phase] :
       phase = [r \in Record |-> IF r \in Foreign THEN p[r] ELSE Null]
  /\ analysing = {} /\ events = 0
  /\ heard = NoEntry /\ told = [s \in Session |-> {}]

SessionsNext ==
  \/ \E s \in Session :
       \/ ResumeIntent(s) \/ Message(s) \/ AskingMessage(s) \/ FinishAnalysis(s)
       \/ TaskSwitch(s) \/ resumeTask(s) \/ Command(s) \/ ToolCall(s)
  \/ Expire \/ Restart

SessionsSpec == SessionsInit /\ [][SessionsNext]_sessionsVars

-----------------------------------------------------------------------------
(* Properties.                                                             *)

\* Every map holds what its readers expect, and whatever was bound or given a
\* root by a message has also been resolved (resolveSessionBase caches before
\* ensureWamMemory and handleMessage go on).
SessionsTypeOK ==
  /\ sessionRoots \in [Session -> Root \cup {Null}]
  /\ sessionParents \subseteq Worker
  /\ overlapping \subseteq Session
  /\ \A s \in Session : sessionWamRoots[s] # Null => sessionRoots[s] # Null
  /\ sessionWamRoots \in [Session -> Root \cup {Null}]
  /\ sessionTasks \in [Session -> Task \cup {Null}]
  /\ activeTask \in [Root -> ActiveFile \cup {Null}]
  /\ phase \in [Record -> Phase \cup {Null}]
  /\ analysing \subseteq Session \X Record
  /\ events \in 0 .. MaxEvents
  /\ heard \in [Session -> Record \cup {Null}]
  /\ told \in [Session -> SUBSET Task]

\* The gate reads the record the session's last message was about: while the
\* question of that message is open, no changing tool of the session runs,
\* whatever other sessions, commands and expiries came in between.
GateHeedsMessage ==
  \A s \in Session :
    sessionTasks[s] # Null /\ phase[heard[s]] = "ASKING"
      => \A tool \in BlockedTools : Refused(s, tool)

\* A session's private task is joined by another session only when that
\* session's user named it: neither /wam resume nor the active-task file
\* spreads a ses-<id> task on its own.
PrivateIsPrivate ==
  \A s, o \in Session :
    s # o /\ sessionTasks[s] = o => \E u \in Session : o \in told[u]

\* A session works on its private task or on one its own user spoke of: it
\* never sees another session's task through the active-task file.
OwnTaskOnly ==
  \A s \in Session : sessionTasks[s] \in told[s] \cup {s, Null}
=============================================================================
