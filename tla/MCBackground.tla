------------------------------- MODULE MCBackground -------------------------------
(***************************************************************************)
(* What goes on in the background of a task and must come to an end: its   *)
(* specialists, its desktop session, and the guard that undoes changes of  *)
(* control files.  They share no state; a behaviour moves one of them, its *)
(* subject, and leaves the others where they began.  The properties are    *)
(* those of the models, with their type invariants.                        *)
(***************************************************************************)
EXTENDS LiveControl

CONSTANTS
    MaxPerDispatch, MaxDispatches, MaxTotalRuns, Concurrency,
    ToolCalls, Blocked, MaxChanges, MaxSaves, MaxStarts

ASSUME AgentsAssumption == {MaxPerDispatch, MaxDispatches, MaxTotalRuns} \subseteq Nat

VARIABLES
    subject,
    runs, parent, cancel, stopped,
    surface, settings, vault, receipt, lease, proc, guard, calls, orphans, used, trampled

\* One task makes three calls (start, act, act again), the others one each.
MCCalls == LET first == CHOOSE t \in Tasks : TRUE IN [t \in Tasks |-> IF t = first THEN 3 ELSE 1]

Agents == INSTANCE Subagents
Control == INSTANCE ControlFiles WITH
    Processes <- {"p"}, Release <- [p \in {"p"} |-> "v2"], Packaged <- "rule", Added <- "extra",
    Calls <- ToolCalls, lock <- guard

agents == <<runs, parent, cancel, stopped>>
control == <<surface, settings, vault, receipt, lease, proc, guard, calls, orphans, used, trampled>>
allVars == <<subject, vars, agents, control>>

BackgroundInit ==
    /\ subject \in {"agents", "desktop", "control"}
    /\ Agents!Init /\ Init /\ Control!Init
BackgroundNext ==
    /\ UNCHANGED subject
    /\ \/ subject = "agents" /\ Agents!Next /\ UNCHANGED <<vars, control>>
       \/ subject = "desktop" /\ Next /\ UNCHANGED <<agents, control>>
       \/ subject = "control" /\ Control!Next /\ UNCHANGED <<agents, vars>>
BackgroundSpec == BackgroundInit /\ [][BackgroundNext]_allVars
\* No fair action is enabled in a component that has not begun to move.
FairBackground == BackgroundSpec /\ Agents!Fairness /\ Fairness /\ Control!Fairness

\* No specialist outlives the call that started it, and none is left without an end.
EndedIsSettled == Agents!TypeOK /\ Agents!EndedIsSettled
\* What was asked for in the background completes: the call of stopped specialists
\* ends although no provider answers, a desktop session ends although its stopper may
\* have given up, and a change of a control file is undone.
BackgroundSettles == Agents!StopEndsCall /\ StopCompletes /\ Control!ChangesAreUndone
=============================================================================
