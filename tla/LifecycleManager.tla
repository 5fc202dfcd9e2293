-------------------------- MODULE LifecycleManager --------------------------
(***************************************************************************)
(* The lifecycle manager: start() and stop() walk the components, forward  *)
(* and backward, awaiting the hook of each.                                *)
(*                                                                         *)
(* Both check the state only when they begin, so a stop may begin while a  *)
(* start awaits a component, and a start while a stop does; each then goes *)
(* its way and writes the state it ends in.  A hook that throws ends the   *)
(* call and leaves the state where it was.                                 *)
(***************************************************************************)
EXTENDS Naturals

CONSTANTS
  Components,  \* how many components there are
  Call,        \* places for a call of start or stop
  Faulty,      \* positions of the components whose hooks may throw
  Ended        \* the call has returned, thrown, or was not made yet

ASSUME LifecycleManagerAssumption ==
  Components \in Nat /\ Faulty \subseteq 1 .. Components

VARIABLES
  state,   \* the manager's state
  walk,    \* Call -> the call under way and the component it awaits
  up,      \* components started and not stopped since
  thrown   \* history: a hook has thrown

managerVars == <<state, walk, up, thrown>>

Walking(c) == walk[c] # Ended
WalkTo(c, op, at) == walk' = [walk EXCEPT ![c] = [op |-> op, at |-> at]]
EndCall(c) == walk' = [walk EXCEPT ![c] = Ended]

Begins(c, op) ==
  IF op = "start"
  THEN state \notin {"running", "starting"} /\ state' = "starting" /\ WalkTo(c, op, 1)
  ELSE state \notin {"stopped", "stopping"} /\ state' = "stopping" /\ WalkTo(c, op, Components)

start(c) == ~ Walking(c) /\ Begins(c, "start") /\ UNCHANGED <<up, thrown>>
stop(c) == ~ Walking(c) /\ Begins(c, "stop") /\ UNCHANGED <<up, thrown>>

\* Mutant: the walk goes one component too far.
HookReturns_TooFar(c) ==
  /\ Walking(c) /\ walk[c].at \in 1 .. (Components + 1)
  /\ IF walk[c].op = "start"
     THEN up' = up \cup ({walk[c].at} \cap 1 .. Components) /\ WalkTo(c, "start", walk[c].at + 1)
     ELSE up' = up \ {walk[c].at} /\ WalkTo(c, "stop", walk[c].at - 1)
  /\ UNCHANGED <<state, thrown>>

\* The awaited hook settles and the walk goes on to the next component.
HookReturns(c) ==
  /\ Walking(c) /\ walk[c].at \in 1 .. Components
  /\ IF walk[c].op = "start"
     THEN up' = up \cup {walk[c].at} /\ WalkTo(c, "start", walk[c].at + 1)
     ELSE up' = up \ {walk[c].at} /\ WalkTo(c, "stop", walk[c].at - 1)
  /\ UNCHANGED <<state, thrown>>

HookThrows(c) ==
  /\ Walking(c) /\ walk[c].at \in Faulty
  /\ EndCall(c) /\ thrown' = TRUE
  /\ UNCHANGED <<state, up>>

\* Mutant: a walk that was overtaken leaves the state to the other one.
FinishWalk_Overtaken(c) ==
  /\ Walking(c) /\ walk[c].at \notin 1 .. Components
  /\ state' = IF \E d \in Call \ {c} : Walking(d) THEN state
              ELSE IF walk[c].op = "start" /\ state = "starting" THEN "running"
              ELSE IF walk[c].op = "stop" /\ state = "stopping" THEN "stopped"
              ELSE state
  /\ EndCall(c)
  /\ UNCHANGED <<up, thrown>>

FinishWalk(c) ==
  /\ Walking(c) /\ walk[c].at \notin 1 .. Components
  /\ state' = IF walk[c].op = "start" THEN "running" ELSE "stopped"
  /\ EndCall(c)
  /\ UNCHANGED <<up, thrown>>

ManagerInit ==
  state = "stopped" /\ walk = [c \in Call |-> Ended] /\ up = {} /\ thrown = FALSE

ManagerNext ==
  \E c \in Call :
    start(c) \/ stop(c) \/ HookReturns(c) \/ HookThrows(c) \/ FinishWalk(c)

\* A hook's promise settles and the event loop runs the continuation; that
\* anybody calls start or stop is not assumed.
WalkOn(c) == HookReturns(c) \/ HookThrows(c) \/ FinishWalk(c)

ManagerSpec ==
  /\ ManagerInit /\ [][ManagerNext]_managerVars
  /\ \A c \in Call : WF_managerVars(WalkOn(c))

-----------------------------------------------------------------------------
(* Properties.                                                             *)

ManagerTypeOK ==
  /\ state \in {"stopped", "starting", "running", "stopping"}
  /\ walk \in [Call -> [op: {"start", "stop"}, at: 0 .. (Components + 1)] \cup {Ended}]
  /\ up \subseteq 1 .. Components
  /\ thrown \in BOOLEAN

\* However calls of start and stop overlap, the manager does not stay in
\* between: unless a hook throws, it is running or stopped again and again.
Settles == []<>(thrown \/ state \in {"running", "stopped"})
=============================================================================
