------------------------------ MODULE Subagents ------------------------------
(***************************************************************************)
(* SubagentOrchestrator.delegate (subagents.py): the specialists of one    *)
(* task, started together, queued behind a semaphore, joined before the    *)
(* caller goes on.  The caller is stopped either through the shared cancel *)
(* event or by cancelling its asyncio task; task.cancel() makes the next   *)
(* resumption of a coroutine raise, so nothing runs between the request    *)
(* and the handler that takes it.  The model provider is external.         *)
(***************************************************************************)
EXTENDS Naturals, Sequences, FiniteSets, SequencesExt

CONSTANTS
    MaxPerDispatch, \* MAX_PER_DISPATCH
    MaxDispatches,  \* MAX_DISPATCHES
    MaxTotalRuns,   \* MAX_TOTAL_RUNS
    Concurrency     \* MAX_CONCURRENCY

VARIABLES
    runs,   \* task.subagent_runs with the coroutine of each, if it has one
    parent, \* where the call of delegate awaits, or how it ended
    cancel, \* the shared event is set
    stopped \* the caller's own task has been cancelled

vars == <<runs, parent, cancel, stopped>>

\* "none": the run is announced and no coroutine exists for it.
Places == {"none", "queued", "starting", "chat", "reporting", "handling", "over"}
Final == {"completed", "failed", "timed_out", "cancelled"}
Idle == {"idle", "returned", "raised"}

Dispatches == {runs[i].dispatch : i \in DOMAIN runs}

TypeOK ==
    /\ runs \in Seq([dispatch : 1 .. MaxDispatches, place : Places,
                     status : Final \cup {"queued", "running"}])
    /\ Len(runs) <= MaxTotalRuns
    /\ parent \in Idle \cup {"announcing", "waiting", "joining"}
    /\ cancel \in BOOLEAN /\ stopped \in BOOLEAN
    /\ \A i \in DOMAIN runs : runs[i].place \in {"handling", "over"} => runs[i].status \in Final

Init == runs = <<>> /\ parent = "idle" /\ cancel = FALSE /\ stopped = FALSE

Current == {i \in DOMAIN runs : runs[i].dispatch = runs[Len(runs)].dispatch}
Children == {i \in DOMAIN runs : runs[i].place # "none"}
Over(i) == runs[i].place = "over"
AllOver == \A i \in Current : Over(i)
Holding == {i \in DOMAIN runs : runs[i].place \in {"starting", "chat", "reporting"}}
----------------------------------------------------------------------------
\* The caller ------------------------------------------------------------

\* The limits are checked, the runs appended and announced before a child exists.
Delegate == \E n \in 1 .. MaxPerDispatch :
    /\ parent \in {"idle", "returned"} /\ ~stopped
    /\ Cardinality(Dispatches) < MaxDispatches /\ Len(runs) + n <= MaxTotalRuns
    /\ runs' = runs \o [i \in 1 .. n |->
           [dispatch |-> Cardinality(Dispatches) + 1, place |-> "none", status |-> "queued"]]
    /\ parent' = "announcing"
    /\ UNCHANGED <<cancel, stopped>>

Announced ==
    /\ parent = "announcing" /\ parent' = "waiting"
    /\ runs' = [i \in DOMAIN runs |->
           IF i \in Current THEN [runs[i] EXCEPT !.place = "queued"] ELSE runs[i]]
    /\ UNCHANGED <<cancel, stopped>>

\* The event or its audit record cannot be written: the exception leaves delegate.
AnnounceFails ==
    /\ parent = "announcing" /\ parent' = "raised"
    /\ UNCHANGED <<runs, cancel, stopped>>

\* Fault: only a child that has begun records the stop.
FaultThrown(run) ==
    [run EXCEPT !.status = IF run.place \in {"starting", "chat"} THEN "cancelled" ELSE @,
                !.place = IF run.place \in {"handling", "over"} THEN "over" ELSE "handling"]
\* CancelledError in a child: past its try block it ends at once.
Thrown(run) ==
    IF run.place \in {"queued", "starting", "chat", "reporting"}
    THEN [run EXCEPT !.place = "handling", !.status = "cancelled"]
    ELSE [run EXCEPT !.place = IF @ = "none" THEN "none" ELSE "over"]
ChildrenCancelled == [i \in DOMAIN runs |-> IF i \in Current THEN Thrown(runs[i]) ELSE runs[i]]

\* Fault: the caller waits for its children before it looks at the event.
FaultNoticed == /\ parent = "waiting" /\ cancel /\ AllOver
                /\ parent' = "raised" /\ UNCHANGED <<runs, cancel, stopped>>
\* asyncio.wait returns: the event wins over results that came in together with it.
Noticed == /\ parent = "waiting" /\ cancel
           /\ runs' = ChildrenCancelled /\ parent' = "joining"
           /\ UNCHANGED <<cancel, stopped>>
Gathered == /\ parent = "waiting" /\ AllOver
            /\ parent' = "returned"
            /\ UNCHANGED <<runs, cancel, stopped>>
\* The finally block joins the children on every path.
Joined == /\ parent = "joining" /\ AllOver
          /\ parent' = "raised"
          /\ UNCHANGED <<runs, cancel, stopped>>

SetCancel == /\ ~cancel /\ cancel' = TRUE /\ UNCHANGED <<runs, parent, stopped>>
\* A stop or the shutdown cancels the caller, once more while it is joining:
\* gather passes that on to the children that are still in their handlers.
CancelCaller ==
    /\ \/ ~stopped /\ parent \notin {"returned", "raised"}
       \/ parent = "joining"
    /\ stopped' = TRUE
    /\ parent' = CASE parent \in {"idle", "announcing"} -> "raised"
                   [] parent \in {"waiting", "joining"} -> "joining"
    /\ runs' = IF parent \in {"waiting", "joining"} THEN ChildrenCancelled ELSE runs
    /\ UNCHANGED cancel
----------------------------------------------------------------------------
\* A child ---------------------------------------------------------------

Child(i, place, status) ==
    /\ runs' = [runs EXCEPT ![i].place = place, ![i].status = status]
    /\ UNCHANGED <<parent, cancel, stopped>>

\* The semaphore is first come, first served; a waiter that was cancelled has left.
Enter(i) ==
    /\ runs[i].place = "queued" /\ Cardinality(Holding) < Concurrency
    /\ \A j \in 1 .. i - 1 : runs[j].place # "queued"
    /\ IF cancel THEN Child(i, "handling", "cancelled") ELSE Child(i, "starting", "running")
Started(i) == runs[i].place = "starting" /\ Child(i, "chat", "running")
\* The report says completed, failed or blocked; then it is published.
Reports(i) == \E s \in {"completed", "failed"} : runs[i].place = "chat" /\ Child(i, "reporting", s)
Reported(i) == runs[i].place = "reporting" /\ Child(i, "over", runs[i].status)
\* wait_for gives up, or the provider, the report or the store raises.
TimesOut(i) == runs[i].place = "chat" /\ Child(i, "handling", "timed_out")
Fails(i) ==
    /\ runs[i].place \in {"starting", "chat", "reporting"}
    /\ Child(i, "handling", "failed")
\* The handler's own event is written, or that fails and the exception is gathered.
Handled(i) == runs[i].place = "handling" /\ Child(i, "over", runs[i].status)

Work(i) == Enter(i) \/ Started(i) \/ Reported(i) \/ Handled(i)
Provider(i) == Reports(i) \/ TimesOut(i) \/ Fails(i)
Caller == Announced \/ AnnounceFails \/ Noticed \/ Gathered \/ Joined

Next ==
    \/ Delegate \/ Caller
    \/ \E i \in DOMAIN runs : Work(i) \/ Provider(i)
    \/ SetCancel \/ CancelCaller

\* The event loop runs what is ready and the store answers; nothing is assumed
\* of the provider.
Fairness ==
    /\ WF_vars(Announced) /\ WF_vars(Noticed) /\ WF_vars(Gathered) /\ WF_vars(Joined)
    /\ \A i \in 1 .. MaxTotalRuns : WF_vars(i \in DOMAIN runs /\ Work(i))
Spec == Init /\ [][Next]_vars
FairSpec == Spec /\ Fairness
----------------------------------------------------------------------------
\* Once delegate has returned or raised, no child of it runs any more (no stream
\* of the provider outlives its parent) and each child that existed has left its
\* run in a final state (the handlers 646-684 and the finally 701-712).
EndedIsSettled ==
    parent \in Idle => \A i \in Children : Over(i) /\ runs[i].status \in Final

\* However the caller is stopped, it is told: a call that waits for children
\* ends, even if the provider never answers any of them.
StopEndsCall == (cancel \/ stopped) ~> (parent \in Idle)

\* The promise of the test of a parent's stop, for every run in the record: it is
\* refuted by a stop while the dispatch is being announced.
EveryRunMarked ==
    (parent \in Idle /\ (cancel \/ stopped)) =>
        \A i \in DOMAIN runs : runs[i].status \in Final
=============================================================================
