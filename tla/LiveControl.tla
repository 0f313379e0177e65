----------------------------- MODULE LiveControl -----------------------------
(***************************************************************************)
(* Live computer use (plugins/builtin/live_computer_use.py, live_control_  *)
(* flow.py and the kernel lease of live_control_desktop.py): one session   *)
(* per process drives the user's real desktop.                             *)
(*                                                                         *)
(* Threads: one worker runs start, observe and perform_action; a monitor   *)
(* per session watches Esc, the expiry and the banner; the tool, the       *)
(* cancellation of a task and the shutdown stop a session from threads of  *)
(* their own.  They share the current session, its stop event and the      *)
(* action lock.  A step is what happens between two waits or calls into    *)
(* Windows.  The desktop, its user and the visual model are external: what *)
(* they do shows only as the outcome of a check.                           *)
(***************************************************************************)
EXTENDS Naturals, Sequences

CONSTANTS
    Tasks,
    MaxSessions, \* sessions begun (model checking only)
    MaxSlices,   \* slices of one input: 32 characters, a pointer step (model checking only)
    MaxCalls,    \* tool calls of each task (model checking only)
    Actions,     \* action ids
    MaxSteps,    \* inputs of one action: a sequence has up to 16
    None

\* An input has a first slice, an action a first input, and no session is None.
ASSUME ControlAssumption ==
    MaxSlices \in Nat \ {0} /\ MaxSteps \in Nat \ {0} /\ MaxSessions \in Nat /\ None \notin Nat

VARIABLES
    sessions, \* the session objects created so far
    current,  \* _session
    lock,     \* _action_lock is held by the worker
    desktop,  \* the session whose DesktopLease has the kernel semaphore
    worker,   \* the job of the single worker thread
    stops,    \* emergency_stop, per calling thread
    monitors, \* the monitor thread of each session
    tasks,    \* tool calls so far of each task, and whether it still runs
    receipts, \* LiveActionFlow.receipts
    inputs    \* history: how often each input of an action was begun

vars == <<sessions, current, lock, desktop, worker, stops, monitors, tasks, receipts, inputs>>

Ids == 1 .. MaxSessions
\* The n-th input of an action: the action_id of a step of a sequence.
Inputs == Actions \X (1 .. MaxSteps)
Created == DOMAIN sessions
\* A stop is asked for a task (tool, cancellation, cleanup), by a monitor or by the worker.
Threads == Tasks \cup {<<"monitor", i>> : i \in Ids} \cup {<<"worker">>}
Idle == [at |-> "idle", task |-> None, id |-> None, action |-> None, left |-> 0]
NoStop == [at |-> "none", id |-> None, again |-> FALSE]

TypeOK ==
    /\ sessions \in Seq([task : Tasks, stop : BOOLEAN, leased : BOOLEAN]) /\ Len(sessions) <= MaxSessions
    /\ current \in Created \cup {None} /\ lock \in BOOLEAN
    /\ desktop \in Created \cup {None}
    /\ worker \in [at : {"idle", "begin", "registered", "leased", "capture", "deliver", "after", "stopping"},
                   task : Tasks \cup {None}, id : Ids \cup {None}, action : Inputs \cup {None},
                   left : 0 .. MaxSlices]
    /\ lock <=> worker.at \in {"capture", "deliver", "after"}
    /\ stops \in [Threads -> [at : {"none", "asked", "closing"}, id : Ids \cup {None}, again : BOOLEAN]]
    /\ monitors \in [Ids -> {"none", "watch", "stopping", "gone"}]
    /\ tasks \in [Tasks -> [calls : Nat, action : Inputs \cup {None},
                            at : {"free", "called", "judging", "failed", "over"}]]
    /\ receipts \subseteq Tasks \X Ids \X Actions

Init ==
    /\ sessions = <<>> /\ current = None /\ lock = FALSE /\ desktop = None /\ worker = Idle
    /\ stops = [t \in Threads |-> NoStop] /\ monitors = [i \in Ids |-> "none"]
    /\ tasks = [t \in Tasks |-> [calls |-> 0, at |-> "free", action |-> None]]
    /\ receipts = {} /\ inputs = [k \in Ids \X Inputs |-> 0]
----------------------------------------------------------------------------
\* Stopping ---------------------------------------------------------------

Owns(t) == current # None /\ sessions[current].task = t
Stopping == [sessions EXCEPT ![current].stop = TRUE]
Asked(thread, i, again) == [stops EXCEPT ![thread] = [at |-> "asked", id |-> i, again |-> again]]

\* emergency_stop sets the event, then waits for the action lock.
AskStop(thread, i, again) ==
    IF current = i /\ current # None
    THEN sessions' = Stopping /\ stops' = Asked(thread, i, again)
    ELSE UNCHANGED <<sessions, stops>>

\* Fault: after four seconds the session is given up although input goes on.
FaultQuiesced(thread) == stops[thread].at = "asked"
Quiesced(thread) == stops[thread].at = "asked" /\ ~lock
\* Under the lock the session leaves; another thread may have been first.
Leave(thread) ==
    /\ Quiesced(thread)
    /\ IF current = stops[thread].id
       THEN current' = None /\ stops' = [stops EXCEPT ![thread].at = "closing"]
       ELSE stops' = [stops EXCEPT ![thread] = NoStop] /\ UNCHANGED current
    /\ UNCHANGED <<sessions, lock, desktop, worker, monitors, tasks, receipts, inputs>>
\* The banner is stopped and the lease released, if the session has one by now.
CloseSession(thread) ==
    /\ stops[thread].at = "closing"
    /\ stops' = [stops EXCEPT ![thread] = NoStop]
    /\ LET i == stops[thread].id IN
        /\ sessions' = [sessions EXCEPT ![i].leased = FALSE]
        /\ desktop' = IF sessions[i].leased /\ desktop = i THEN None ELSE desktop
    /\ UNCHANGED <<current, lock, worker, monitors, tasks, receipts, inputs>>
\* The four seconds are over: quiesce_task asks again, the other callers give up.
GiveUp(thread) ==
    /\ stops[thread].at = "asked" /\ lock /\ ~stops[thread].again
    /\ stops' = [stops EXCEPT ![thread] = NoStop]
    /\ UNCHANGED <<sessions, current, lock, desktop, worker, monitors, tasks, receipts, inputs>>
----------------------------------------------------------------------------
\* The monitor ------------------------------------------------------------

Watching(i) == monitors[i] = "watch" /\ current = i
\* A stop event that is set, or a new press of Esc: the monitor stays and asks again.
MonitorStops(i) ==
    /\ Watching(i) /\ stops[<<"monitor", i>>] = NoStop
    /\ AskStop(<<"monitor", i>>, i, FALSE)
    /\ UNCHANGED <<current, lock, desktop, worker, monitors, tasks, receipts, inputs>>
\* The session expired or its banner is gone: the monitor asks once and returns.
MonitorReturns(i) ==
    /\ Watching(i) /\ stops[<<"monitor", i>>] = NoStop /\ ~sessions[i].stop
    /\ AskStop(<<"monitor", i>>, i, FALSE)
    /\ monitors' = [monitors EXCEPT ![i] = "stopping"]
    /\ UNCHANGED <<current, lock, desktop, worker, tasks, receipts, inputs>>
MonitorEnds(i) ==
    /\ \/ monitors[i] = "watch" /\ current # i
       \/ monitors[i] = "stopping"
    /\ stops[<<"monitor", i>>] = NoStop
    /\ monitors' = [monitors EXCEPT ![i] = "gone"]
    /\ UNCHANGED <<sessions, current, lock, desktop, worker, stops, tasks, receipts, inputs>>
----------------------------------------------------------------------------
\* The worker: start --------------------------------------------------------

MayCall(t) == tasks[t].at = "free" /\ tasks[t].calls < MaxCalls[t]
Called(t, place, a) == tasks' = [tasks EXCEPT ![t] = [calls |-> @.calls + 1, at |-> place, action |-> a]]
CallBegins(t, place) == Called(t, place, None)
\* A cancelled call answers nobody; a failed one has its session stopped by the tool.
Answered(t, place) == tasks' = [tasks EXCEPT ![t].at = IF @ = "called" THEN place ELSE @]

CallStart(t) ==
    /\ MayCall(t) /\ worker = Idle
    /\ CallBegins(t, "called")
    /\ worker' = [Idle EXCEPT !.at = "begin", !.task = t]
    /\ UNCHANGED <<sessions, current, lock, desktop, stops, monitors, receipts, inputs>>
\* Only one session: the task's own is returned again, any other refused.
StartRefused ==
    /\ worker.at = "begin" /\ current # None /\ worker' = Idle
    /\ Answered(worker.task, IF Owns(worker.task) /\ ~sessions[current].stop THEN "free" ELSE "failed")
    /\ UNCHANGED <<sessions, current, lock, desktop, stops, monitors, receipts, inputs>>
Register ==
    /\ worker.at = "begin" /\ current = None /\ Len(sessions) < MaxSessions
    /\ sessions' = Append(sessions, [task |-> worker.task, stop |-> FALSE, leased |-> FALSE])
    /\ current' = Len(sessions')
    /\ worker' = [worker EXCEPT !.at = "registered", !.id = Len(sessions')]
    /\ UNCHANGED <<lock, desktop, stops, monitors, tasks, receipts, inputs>>
\* emergency_stop("start_failed") finds the session only if nobody was faster.
StartFails ==
    /\ worker' = [worker EXCEPT !.at = "stopping"]
    /\ AskStop(<<"worker">>, worker.id, FALSE)
    /\ UNCHANGED <<current, lock, desktop, monitors, tasks, receipts, inputs>>
TakeLease ==
    /\ worker.at = "registered"
    /\ IF desktop = None
       THEN /\ desktop' = worker.id /\ sessions' = [sessions EXCEPT ![worker.id].leased = TRUE]
            /\ worker' = [worker EXCEPT !.at = "leased"]
            /\ UNCHANGED <<current, lock, stops, monitors, tasks, receipts, inputs>>
       ELSE StartFails
\* The banner starts, or not; then the session must still be the current one.
Started ==
    /\ worker.at = "leased"
    /\ \/ StartFails
       \/ /\ current = worker.id /\ ~sessions[worker.id].stop
          /\ monitors' = [monitors EXCEPT ![worker.id] = "watch"]
          /\ worker' = Idle /\ Answered(worker.task, "free")
          /\ UNCHANGED <<sessions, current, lock, desktop, stops, receipts, inputs>>
\* The worker's own stop is over: a start fails, an action's receipt says so.
Raised ==
    /\ worker.at = "stopping" /\ stops[<<"worker">>] = NoStop
    /\ worker' = Idle /\ Answered(worker.task, IF worker.action = None THEN "failed" ELSE "free")
    /\ UNCHANGED <<sessions, current, lock, desktop, stops, monitors, receipts, inputs>>
----------------------------------------------------------------------------
\* The worker: observe and act ----------------------------------------------

\* _require_session under the action lock.
Valid(t) == Owns(t) /\ ~sessions[current].stop
Refused(t) == /\ MayCall(t) /\ worker = Idle /\ ~Valid(t) /\ CallBegins(t, "failed")
              /\ UNCHANGED <<sessions, current, lock, desktop, worker, stops, monitors, receipts, inputs>>
Observe(t) ==
    /\ MayCall(t) /\ worker = Idle /\ Valid(t) /\ CallBegins(t, "called")
    /\ lock' = TRUE
    /\ worker' = [Idle EXCEPT !.at = "capture", !.task = t, !.id = current]
    /\ UNCHANGED <<sessions, current, desktop, stops, monitors, receipts, inputs>>
\* The screen is published, or was changing (the lease stays), or the capture failed.
Captured == \E place \in {"free", "failed"} :
    /\ worker.at = "capture" /\ lock' = FALSE /\ worker' = Idle /\ Answered(worker.task, place)
    /\ UNCHANGED <<sessions, current, desktop, stops, monitors, receipts, inputs>>

JudgeBegins(t, a) == /\ MayCall(t) /\ Valid(t) /\ <<t, current, a>> \notin receipts
                     /\ Called(t, "judging", <<a, 1>>)
                     /\ UNCHANGED <<sessions, current, lock, desktop, worker, stops, monitors, inputs>>
\* Fault: the receipt is left to the end of the call.
FaultJudge(t, a) == JudgeBegins(t, a) /\ UNCHANGED receipts
\* The receipt is there before any input; a known id is answered from its receipt.
Judge(t, a) == JudgeBegins(t, a) /\ receipts' = receipts \cup {<<t, current, a>>}
\* The visual check refuses, or finds the session stopped: no input, and no later one.
Rejected(t) ==
    /\ tasks[t].at = "judging"
    /\ tasks' = [tasks EXCEPT ![t].at = "free"]
    /\ UNCHANGED <<sessions, current, lock, desktop, worker, stops, monitors, receipts, inputs>>
\* perform_action: the lease is checked again, then the screen against the observation.
Perform(t) ==
    /\ tasks[t].at = "judging" /\ worker = Idle /\ Valid(t)
    /\ tasks' = [tasks EXCEPT ![t].at = "called"]
    /\ lock' = TRUE /\ inputs' = [inputs EXCEPT ![<<current, tasks[t].action>>] = @ + 1]
    /\ worker' = [at |-> "deliver", task |-> t, id |-> current, action |-> tasks[t].action, left |-> MaxSlices]
    /\ UNCHANGED <<sessions, current, desktop, stops, monitors, receipts>>
\* The lock is released before the worker asks for the stop.
Released == worker' = [worker EXCEPT !.at = "stopping"] /\ AskStop(<<"worker">>, worker.id, FALSE)
            /\ lock' = FALSE
\* One slice is sent if the event is not set and pointer and focus are as expected.
Slice ==
    /\ worker.at = "deliver"
    /\ \/ /\ ~sessions[worker.id].stop
          /\ worker' = [worker EXCEPT !.left = @ - 1, !.at = IF worker.left = 1 THEN "after" ELSE "deliver"]
          /\ UNCHANGED <<sessions, lock, stops>>
       \/ Released
    /\ UNCHANGED <<current, desktop, monitors, tasks, receipts, inputs>>
\* Another input of the sequence is judged, if its call still waits.
NextInput(t) == tasks' = [tasks EXCEPT ![t] = IF @.at = "called"
                    THEN [@ EXCEPT !.at = "judging", !.action = <<worker.action[1], worker.action[2] + 1>>] ELSE @]
\* The screen after the input is captured and published, and the call goes on or is answered.
\* A screen that changes meanwhile, or a stop, raises StaleObservationError, which asks for
\* no stop; any other failure does.
AfterInput ==
    /\ worker.at = "after"
    /\ \/ /\ lock' = FALSE /\ worker' = Idle /\ UNCHANGED <<sessions, stops>>
          /\ \/ Answered(worker.task, "free")
             \/ ~sessions[worker.id].stop /\ worker.action[2] < MaxSteps /\ NextInput(worker.task)
       \/ Released /\ UNCHANGED tasks
    /\ UNCHANGED <<current, desktop, monitors, receipts, inputs>>
----------------------------------------------------------------------------
\* The tool -----------------------------------------------------------------

\* execute's handler stops the session of its task; stop_task ignores others'.
ToolError(t) ==
    /\ tasks[t].at = "failed" /\ stops[t] = NoStop
    /\ tasks' = [tasks EXCEPT ![t].at = "free"]
    /\ IF Owns(t) THEN AskStop(t, current, FALSE) ELSE UNCHANGED <<sessions, stops>>
    /\ UNCHANGED <<current, lock, desktop, worker, monitors, receipts, inputs>>
\* The model asks to stop; the receipts of the task are released.
ToolStop(t) ==
    /\ MayCall(t) /\ Valid(t) /\ stops[t] = NoStop
    /\ CallBegins(t, "free") /\ AskStop(t, current, FALSE)
    /\ receipts' = {r \in receipts : r[1] # t}
    /\ UNCHANGED <<current, lock, desktop, worker, monitors, inputs>>
\* A cancelled call is owned until its session is gone: quiesce_task asks again.
Cancel(t) ==
    /\ tasks[t].at \in {"called", "judging"} /\ stops[t] = NoStop
    /\ tasks' = [tasks EXCEPT ![t].at = "over"]
    /\ IF Owns(t) THEN AskStop(t, current, TRUE) ELSE UNCHANGED <<sessions, stops>>
    /\ UNCHANGED <<current, lock, desktop, worker, monitors, receipts, inputs>>
\* The task ends; cleanup stops what it left behind (nothing, if it never called).
Cleanup(t) ==
    /\ tasks[t].calls > 0 /\ tasks[t].at \in {"free", "over"} /\ stops[t] = NoStop
    /\ tasks[t].at = "over" => Owns(t)
    /\ tasks' = [tasks EXCEPT ![t].at = "over"]
    /\ IF Owns(t) THEN AskStop(t, current, FALSE) ELSE UNCHANGED <<sessions, stops>>
    /\ receipts' = {r \in receipts : r[1] # t}
    /\ UNCHANGED <<current, lock, desktop, worker, monitors, inputs>>
Work == StartRefused \/ Register \/ TakeLease \/ Started \/ Raised \/ Captured \/ Slice \/ AfterInput
Stop(thread) == Leave(thread) \/ CloseSession(thread)
Next ==
    \/ Work
    \/ \E thread \in Threads : Stop(thread) \/ GiveUp(thread)
    \/ \E i \in Created : MonitorStops(i) \/ MonitorReturns(i) \/ MonitorEnds(i)
    \/ \E t \in Tasks :
        \/ CallStart(t) \/ Refused(t) \/ Observe(t) \/ Rejected(t)
        \/ ToolError(t) \/ ToolStop(t) \/ Cancel(t) \/ Cleanup(t)
        \/ Perform(t) \/ \E a \in Actions : Judge(t, a)

\* Threads run; a call into Windows returns; tools' handlers and cleanups run.
\* Nothing is assumed of the user, of the visual model or of the agent.
Fairness ==
    /\ WF_vars(Work)
    /\ \A thread \in Threads : WF_vars(Stop(thread))
    /\ \A i \in Ids : WF_vars(i \in Created /\ sessions[i].stop /\ MonitorStops(i))
    /\ \A t \in Tasks : WF_vars(ToolError(t)) /\ WF_vars(Cleanup(t))
Spec == Init /\ [][Next]_vars
FairSpec == Spec /\ Fairness
----------------------------------------------------------------------------
\* Input reaches the desktop only from the current session, while that session
\* holds the desktop lease: no click or key comes late, after the host reported the
\* session inactive (emergency_stop, 2268-2271), and none from a second session.
InputOnlyWhileCurrent ==
    worker.at \in {"deliver", "after"} => current = worker.id /\ desktop = worker.id

\* An input of an action id begins at most once in its session, whatever is retried
\* after a rejection, an error or a stop (run, 212-238).
InputOnce == \A k \in DOMAIN inputs : inputs[k] <= 1

\* The desktop belongs to one session at a time: no input comes late or from a session
\* without the desktop lease, and no input of an action id begins twice.
InputIsOurs == TypeOK /\ InputOnlyWhileCurrent /\ InputOnce

\* A stop that was asked for ends with the session gone, although a stopper may
\* have given up after its four seconds while a call into Windows was blocked, and the
\* worker may have come back without a stop of its own.  If the monitor has gone too, it is
\* the cleanup at the end of the task that asks again.
StopCompletes == \A i \in Ids : []<>~(current = i /\ sessions[i].stop)

\* "No input was delivered" (live_computer_use.py 1582): a call that ends with
\* StaleObservationError, without a stop, and is answered as rejected has begun no input.
\* Refuted by a screen that changes after the input.
RejectedSentNothing ==
    [][worker.at = "after" /\ sessions[worker.id].stop /\ worker' = Idle
       => inputs[<<worker.id, worker.action>>] = 0]_vars

\* The comment on the semaphore (live_control_desktop.py 40-41): it can be released
\* by the thread that cleans up.  Refuted by a stop while start imports its driver.
LeaseReleased ==
    desktop # None =>
        \/ current = desktop \/ worker.id = desktop
        \/ \E thread \in Threads : stops[thread].at = "closing" /\ stops[thread].id = desktop
=============================================================================
