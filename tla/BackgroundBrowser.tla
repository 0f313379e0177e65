------------------------- MODULE BackgroundBrowser --------------------------
(***************************************************************************)
(* The isolated headless browser of the tasks: background_browser.py with  *)
(* the downloads of browser_downloads.py, and the cleanup that             *)
(* PluginRegistry.cleanup makes at the end of every run.                   *)
(*                                                                         *)
(* One tool object serves all tasks: one Playwright driver, one browser    *)
(* and one download manager for each task that uses it.  Every call of the *)
(* tool and every cleanup goes through ControlFileGuard.call_plugin, which *)
(* holds one lock for all plugins and all tasks until the call is over:    *)
(* what interleaves with a call are the stop of its task, the deadline of  *)
(* a cleanup, the pages' downloads, and the waiting of the other tasks.    *)
(*                                                                         *)
(* Playwright, its driver process and the pages are external: a page may   *)
(* start a download at any time, starting and closing may fail; a driver   *)
(* does not crash by itself, and a save that is given up writes no more.   *)
(***************************************************************************)
EXTENDS Naturals, Sequences, FiniteSets

CONSTANTS
    Tasks,
    Files,       \* downloads a page may start
    MaxRecords,  \* downloads kept per session (16 in the code)
    MaxLaunches, \* browsers and drivers started (model checking only)
    Other,       \* who holds the guard when it is a call of another plugin
    None

VARIABLES
    playwright, \* _playwright: the driver in use, or None
    drivers,    \* driver processes that run
    browsers,   \* browser processes that run: [number, driver, closing]
    started,    \* drivers and browsers started so far
    sessions,   \* _sessions: the browser of a task, or None
    managers,   \* _downloads: of a task, or None
    guard,      \* _async_lock of the control-file guard: who holds it, or None
    task,       \* what a task is doing in the tool
    files       \* each download: its task, its browser and what became of it

vars == <<playwright, drivers, browsers, started, sessions, managers, guard, task, files>>

\* `ends`: the cleanup of the run, not the "close" action.  `stopped`: the run was told to
\* stop (once).  `late`: the five seconds are over.  `clean`: the run ended with its cleanup.
NoWork == [at |-> "idle", browser |-> None, batch |-> <<>>, partial |-> None, ends |-> FALSE,
           raised |-> FALSE, stopped |-> FALSE, late |-> FALSE, clean |-> FALSE]
NewManager == [pending |-> <<>>, records |-> 0]
Collecting == {"collect", "save", "failed"}
Calling == {"driver", "launch", "page", "act"} \cup Collecting
Closing == {"drain", "close", "stop"}
InGuard == Calling \cup {"abort"} \cup Closing

TypeOK ==
    /\ playwright \in 1..MaxLaunches \cup {None} /\ drivers \subseteq 1..MaxLaunches
    /\ \A b \in browsers : b.number \in 1..MaxLaunches /\ b.driver \in 1..MaxLaunches
    /\ \A t \in Tasks :
        /\ task[t].at \in {"idle", "finish", "ended"} \cup InGuard
        /\ (task[t].at \in InGuard) = (guard = t)
        /\ managers[t] # None => managers[t].records <= MaxRecords
        /\ (sessions[t] # None) = (managers[t] # None)
    /\ \A f \in Files : files[f].state \in {"none", "running", "saved", "cancelled"}

Init ==
    /\ playwright = None /\ drivers = {} /\ browsers = {} /\ started = 0 /\ guard = None
    /\ sessions = [t \in Tasks |-> None] /\ managers = [t \in Tasks |-> None]
    /\ task = [t \in Tasks |-> NoWork]
    /\ files = [f \in Files |-> [of |-> None, in |-> None, state |-> "none"]]

-----------------------------------------------------------------------------
(* Processes and downloads outside the tool, and the other plugins.        *)

Running(n) == \E b \in browsers : b.number = n
Room == started < MaxLaunches
Gone(n) == {b \in browsers : b.number # n}
Told(n) == {IF b.number = n THEN [b EXCEPT !.closing = TRUE] ELSE b : b \in browsers}

\* A download that runs ends with its browser.
Ended(n) == [f \in Files |-> IF files[f].in = n /\ files[f].state = "running"
                             THEN [files[f] EXCEPT !.state = "cancelled"] ELSE files[f]]

\* The page starts a download: the listener puts it in the manager of its session,
\* or in one that a cleanup has already emptied.
Receive(t, f) ==
    /\ files[f].state = "none"
    /\ \/ /\ sessions[t] # None /\ Running(sessions[t])
          /\ files' = [files EXCEPT ![f] = [of |-> t, in |-> sessions[t], state |-> "running"]]
          /\ managers' = [managers EXCEPT ![t].pending = Append(@, f)]
       \/ /\ task[t].at \in {"drain", "close"} /\ Running(task[t].browser)
          /\ files' = [files EXCEPT ![f] = [of |-> t, in |-> task[t].browser, state |-> "running"]]
          /\ UNCHANGED managers
    /\ UNCHANGED <<playwright, drivers, browsers, started, sessions, guard, task>>

\* A driver that stops takes its browsers with it, one that was told to close does so.
BrowserDies ==
    \E b \in browsers :
        /\ b.driver \notin drivers \/ b.closing
        /\ browsers' = browsers \ {b} /\ files' = Ended(b.number)
        /\ UNCHANGED <<playwright, drivers, started, sessions, managers, guard, task>>

\* A call of any other plugin, by any task, for as long as it takes.
OtherCall ==
    /\ \/ guard = None /\ guard' = Other
       \/ guard = Other /\ guard' = None
    /\ UNCHANGED <<playwright, drivers, browsers, started, sessions, managers, task, files>>

-----------------------------------------------------------------------------
(* _session and execute.  A call that the guard refuses does nothing.      *)

Work(t, at) == task' = [task EXCEPT ![t].at = at]
Over(t) == task' = [task EXCEPT ![t] = NoWork] /\ guard' = None

Call(t) ==
    /\ task[t].at = "idle" /\ guard = None /\ guard' = t
    /\ Work(t, IF sessions[t] # None THEN "act" ELSE IF playwright = None THEN "driver" ELSE "launch")
    /\ UNCHANGED <<playwright, drivers, browsers, started, sessions, managers, files>>

\* async_playwright().start().
StartDriver(t) ==
    /\ task[t].at = "driver" /\ Room
    /\ started' = started + 1 /\ drivers' = drivers \cup {started'} /\ playwright' = started'
    /\ Work(t, "launch")
    /\ UNCHANGED <<browsers, sessions, managers, guard, files>>

\* _launch_browser: the first runtime that starts.
Launch(t) ==
    /\ task[t].at = "launch" /\ Room /\ playwright \in drivers
    /\ started' = started + 1
    /\ browsers' = browsers \cup {[number |-> started', driver |-> playwright, closing |-> FALSE]}
    /\ task' = [task EXCEPT ![t].at = "page", ![t].browser = started']
    /\ UNCHANGED <<playwright, drivers, sessions, managers, guard, files>>

\* The context, the guarded route, the page and its listener; then both tables.
OpenPage(t) ==
    /\ task[t].at = "page" /\ Running(task[t].browser)
    /\ sessions' = [sessions EXCEPT ![t] = task[t].browser]
    /\ managers' = [managers EXCEPT ![t] = NewManager]
    /\ task' = [task EXCEPT ![t].at = "act", ![t].browser = None]
    /\ UNCHANGED <<playwright, drivers, browsers, started, guard, files>>

\* An action, the check of the address it led to and the inspection of the page; then
\* collect takes what is pending.
Act(t) ==
    /\ task[t].at = "act" /\ Running(sessions[t])
    /\ task' = [task EXCEPT ![t].at = "collect", ![t].batch = managers[t].pending]
    /\ managers' = [managers EXCEPT ![t].pending = <<>>]
    /\ UNCHANGED <<playwright, drivers, browsers, started, sessions, guard, files>>

\* No runtime, no target, a blocked address, a timeout, a dead driver or browser.  A
\* browser whose context or page could not be opened is in no table.
Fails(t) ==
    /\ task[t].at \in {"driver", "launch", "page", "act"} /\ Over(t)
    /\ UNCHANGED <<playwright, drivers, browsers, started, sessions, managers, files>>

-----------------------------------------------------------------------------
(* collect.                                                                *)

\* _cancel: after two seconds the download is left to the closing browser.
Cancel(f) == files' \in {files} \cup
    {[files EXCEPT ![f].state = IF @ = "running" THEN "cancelled" ELSE @]}

Rest(t) == [task EXCEPT ![t].batch = Tail(@), ![t].partial = None, ![t].at = "collect"]

Reject(t) ==
    /\ task[t].at = "collect" /\ task[t].batch # <<>> /\ managers[t].records >= MaxRecords
    /\ Cancel(Head(task[t].batch)) /\ task' = Rest(t)
    /\ UNCHANGED <<playwright, drivers, browsers, started, sessions, managers, guard>>

\* save_as writes a .partial file ...
Save(t) ==
    /\ task[t].at = "collect" /\ task[t].batch # <<>> /\ managers[t].records < MaxRecords
    /\ task' = [task EXCEPT ![t].at = "save", ![t].partial = Head(task[t].batch)]
    /\ UNCHANGED <<playwright, drivers, browsers, started, sessions, managers, guard, files>>

\* ... which takes the name of the download,
Saved(t) ==
    /\ task[t].at = "save" /\ files[Head(task[t].batch)].state = "running"
    /\ task' = Rest(t) /\ managers' = [managers EXCEPT ![t].records = @ + 1]
    /\ files' = [files EXCEPT ![Head(task[t].batch)].state = "saved"]
    /\ UNCHANGED <<playwright, drivers, browsers, started, sessions, guard>>

\* or the download is too large, too slow or without a file, and is cancelled.
SaveFails(t) ==
    /\ task[t].at = "save" /\ Work(t, "failed")
    /\ UNCHANGED <<playwright, drivers, browsers, started, sessions, managers, guard, files>>
NotSaved(t) ==
    /\ task[t].at = "failed" /\ Cancel(Head(task[t].batch))
    /\ task' = Rest(t) /\ managers' = [managers EXCEPT ![t].records = @ + 1]
    /\ UNCHANGED <<playwright, drivers, browsers, started, sessions, guard>>

\* With a screenshot if one is asked for, which may fail: the call is over either way.
Returns(t) ==
    /\ task[t].at = "collect" /\ task[t].batch = <<>> /\ Over(t)
    /\ UNCHANGED <<playwright, drivers, browsers, started, sessions, managers, files>>

FaultPartialAfter(t) == task[t].partial
\* The `finally` of collect removes the .partial file.
PartialAfter(t) == None

-----------------------------------------------------------------------------
(* The run is stopped in the middle of a call.                             *)

Leaves(t) == [task EXCEPT ![t] = [NoWork EXCEPT !.at = "finish", !.stopped = TRUE, !.partial = PartialAfter(t)]]

\* What was being started may have started: nobody knows it.
Stopped(t) ==
    /\ task[t].at \in Calling \ {"collect", "save"}
    /\ task' = Leaves(t) /\ guard' = None
    /\ \/ UNCHANGED <<drivers, browsers, started>>
       \/ /\ Room /\ started' = started + 1
          /\ \/ task[t].at = "driver" /\ drivers' = drivers \cup {started'} /\ UNCHANGED browsers
             \/ /\ task[t].at = "launch" /\ playwright \in drivers /\ UNCHANGED drivers
                /\ browsers' = browsers \cup {[number |-> started', driver |-> playwright, closing |-> FALSE]}
    /\ UNCHANGED <<playwright, sessions, managers, files>>

\* collect cancels the download it waits for and the rest of its batch, one by one,
\* unless it was already handling a failure.
CollectStopped(t) ==
    /\ task[t].at \in {"collect", "save"}
    /\ task' = [task EXCEPT ![t].at = "abort", ![t].stopped = TRUE]
    /\ UNCHANGED <<playwright, drivers, browsers, started, sessions, managers, guard, files>>

Abort(t) ==
    /\ task[t].at = "abort"
    /\ IF task[t].batch = <<>>
       THEN task' = Leaves(t) /\ guard' = None /\ UNCHANGED files
       ELSE task' = [task EXCEPT ![t].batch = Tail(@)] /\ Cancel(Head(task[t].batch)) /\ UNCHANGED guard
    /\ UNCHANGED <<playwright, drivers, browsers, started, sessions, managers>>

-----------------------------------------------------------------------------
(* cleanup: by the tool's "close" action and at the end of every run.      *)

\* The tables are emptied before the first await.
Cleanup(t) ==
    /\ guard = None /\ guard' = t
    /\ task' = [task EXCEPT ![t].at = "drain", ![t].ends = (@ \/ task[t].at = "finish"), ![t].browser = sessions[t],
                            ![t].batch = IF managers[t] = None THEN <<>> ELSE managers[t].pending]
    /\ sessions' = [sessions EXCEPT ![t] = None] /\ managers' = [managers EXCEPT ![t] = None]
    /\ UNCHANGED <<playwright, drivers, browsers, started, files>>

CloseCall(t) == task[t].at = "idle" /\ Cleanup(t)

RunEnds(t) ==
    /\ task[t].at = "idle"
    /\ \E stop \in BOOLEAN : task' = [task EXCEPT ![t].at = "finish", ![t].stopped = stop]
    /\ UNCHANGED <<playwright, drivers, browsers, started, sessions, managers, guard, files>>

CleanupOfRun(t) == task[t].at = "finish" /\ Cleanup(t)

\* The five seconds of PluginRegistry.cleanup are over, or the task is stopped, before the
\* guard is free; or the guard finds a changed control file and refuses the cleanup.
CleanupSkipped(t) ==
    /\ task[t].at = "finish" /\ Work(t, "ended")
    /\ UNCHANGED <<playwright, drivers, browsers, started, sessions, managers, guard, files>>

\* BrowserDownloads.close.
Drain(t) ==
    /\ task[t].at = "drain"
    /\ IF task[t].batch = <<>> THEN Work(t, "close") /\ UNCHANGED files
       ELSE task' = [task EXCEPT ![t].batch = Tail(@)] /\ Cancel(Head(task[t].batch))
    /\ UNCHANGED <<playwright, drivers, browsers, started, sessions, managers, guard>>

FaultCloses(t) == task[t].browser # None /\ ~task[t].raised
\* The browser is closed in a `finally`.
Closes(t) == task[t].browser # None

\* It closes, or it raises because its driver or the browser itself is gone.
CloseBrowser(t) ==
    /\ task[t].at = "close" /\ Closes(t)
    /\ \/ /\ browsers' = Gone(task[t].browser) /\ files' = Ended(task[t].browser)
          /\ task' = [task EXCEPT ![t].browser = None]
       \/ /\ \A b \in browsers \ Gone(task[t].browser) : b.driver \notin drivers
          /\ task' = [task EXCEPT ![t].browser = None, ![t].raised = TRUE]
          /\ UNCHANGED <<browsers, files>>
    /\ UNCHANGED <<playwright, drivers, started, sessions, managers, guard>>

\* The cleanup is over: the run has ended, or goes on after its "close", or was stopped there.
After(t, stopped) ==
    /\ guard' = None
    /\ task' = [task EXCEPT ![t] =
           IF @.ends THEN [NoWork EXCEPT !.at = "ended", !.clean = TRUE, !.partial = task[t].partial]
           ELSE IF stopped THEN [NoWork EXCEPT !.at = "finish", !.stopped = TRUE] ELSE NoWork]

FaultIdle == TRUE
\* No task has a session: the driver is not needed.
Idle == \A u \in Tasks : sessions[u] = None

StopDriver(t) ==
    /\ task[t].at = "close" /\ ~Closes(t)
    /\ IF ~task[t].raised /\ playwright # None /\ Idle
       THEN Work(t, "stop") /\ drivers' = drivers \ {playwright} /\ UNCHANGED guard
       ELSE After(t, task[t].stopped) /\ UNCHANGED drivers
    /\ UNCHANGED <<playwright, browsers, started, sessions, managers, files>>

\* A stop that fails leaves _playwright as it is.
StopEnds(t) ==
    /\ task[t].at = "stop" /\ playwright' \in {None, playwright} /\ After(t, task[t].stopped)
    /\ UNCHANGED <<drivers, browsers, started, sessions, managers, files>>

\* The stop of the run, or the five seconds of its cleanup: draining ends and the browser
\* is closed all the same; a browser or driver told to close is no longer waited for.
Interrupted(t) ==
    \E stop \in BOOLEAN :
        /\ IF stop THEN ~task[t].stopped ELSE task[t].ends /\ ~task[t].late
        /\ \/ /\ task[t].at = "drain" /\ task[t].batch # <<>>
              /\ task' = [task EXCEPT ![t].at = "close", ![t].batch = <<>>, ![t].raised = TRUE,
                                      ![t].stopped = (@ \/ stop), ![t].late = (@ \/ ~stop)]
              /\ UNCHANGED <<browsers, guard>>
           \/ /\ task[t].at = "close" /\ task[t].browser # None /\ browsers' = Told(task[t].browser)
              /\ task' = [task EXCEPT ![t].browser = None, ![t].raised = TRUE,
                                      ![t].stopped = (@ \/ stop), ![t].late = (@ \/ ~stop)]
              /\ UNCHANGED guard
           \/ task[t].at = "stop" /\ After(t, stop) /\ UNCHANGED browsers
    /\ UNCHANGED <<playwright, drivers, started, sessions, managers, files>>

\* The conversation is continued: a new run with the same id, and with what the last left.
Continued(t) ==
    /\ task[t].at = "ended" /\ task' = [task EXCEPT ![t] = NoWork]
    /\ UNCHANGED <<playwright, drivers, browsers, started, sessions, managers, guard, files>>

Next ==
    \/ BrowserDies \/ OtherCall
    \/ \E t \in Tasks :
        \/ \E f \in Files : Receive(t, f)
        \/ Call(t) \/ StartDriver(t) \/ Launch(t) \/ OpenPage(t) \/ Act(t) \/ Fails(t)
        \/ Reject(t) \/ Save(t) \/ Saved(t) \/ SaveFails(t) \/ NotSaved(t) \/ Returns(t)
        \/ Stopped(t) \/ CollectStopped(t) \/ Abort(t)
        \/ CloseCall(t) \/ RunEnds(t) \/ CleanupOfRun(t) \/ CleanupSkipped(t)
        \/ Drain(t) \/ CloseBrowser(t) \/ StopDriver(t) \/ StopEnds(t) \/ Interrupted(t) \/ Continued(t)

Spec == Init /\ [][Next]_vars

-----------------------------------------------------------------------------
(* Wherever a run was stopped, no download of it is left half written; and *)
(* when its cleanup was reached, however slow its downloads were to cancel *)
(* and wherever the five seconds ended, it has no session, and none of its *)
(* downloads goes on but in a browser that was told to close or whose      *)
(* driver is gone.                                                         *)
EndedIsClean ==
    \A t \in Tasks : task[t].at = "ended" =>
        /\ task[t].partial = None
        /\ task[t].clean =>
            /\ sessions[t] = None
            /\ \A f \in Files : files[f].of = t /\ files[f].state = "running" =>
                   \E b \in browsers : b.number = files[f].in /\ (b.closing \/ b.driver \notin drivers)

(* The end of one task never takes away the browser of another: what the   *)
(* table of the sessions names runs, on the driver in use, and belongs to  *)
(* one task.                                                               *)
SessionRuns ==
    \A t \in Tasks : sessions[t] # None =>
        /\ \E b \in browsers : b.number = sessions[t] /\ b.driver = playwright /\ ~b.closing
        /\ playwright \in drivers
        /\ \A u \in Tasks \ {t} : sessions[u] # sessions[t]

(* Refuted: every run that ends has cleaned up.                            *)
CleanupReached == \A t \in Tasks : task[t].at = "ended" => task[t].clean

(* Refuted: when all runs have ended no process of the tool is left.       *)
NothingRunsOn ==
    (\A t \in Tasks : task[t].at = "ended") => drivers = {} /\ playwright = None
=============================================================================
