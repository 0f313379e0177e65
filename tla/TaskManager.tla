----------------------------- MODULE TaskManager -----------------------------
(***************************************************************************)
(* Conversations, their runs and their rows: TaskManager and the outer     *)
(* boundary of AgentEngine (engine.py) over TaskStore (task_store.py),     *)
(* driven by the task routes and the channel recovery of main.py.          *)
(*                                                                         *)
(* One event loop runs everything except the write itself, which a thread  *)
(* does: a mutation takes the lock, prepares a snapshot, the thread        *)
(* commits it, the loop publishes it to memory (persistence_work.py).      *)
(* Status fields, cancellation and registries change on the loop without   *)
(* the lock, at any of those points; a cancelled owner finishes the write  *)
(* it began, publishes, and only then sees its CancelledError.             *)
(***************************************************************************)
EXTENDS Naturals, FiniteSets

CONSTANTS
    Conv,        \* conversation ids (uuid4: never used twice)
    Remote,      \* those of a message channel, recovered after a restart
    Gates,       \* statuses in which a run waits for a person
    MaxObj,      \* task objects one process makes (model checking only)
    MaxNew,      \* conversations users start (model checking only)
    MaxMsg,      \* follow-ups and new titles sent in all (model checking only)
    MaxFaults,   \* writes that fail (model checking only)
    MaxRestarts, \* crashes and restarts (model checking only)
    MaxStops,    \* 2: shutdown and its timeout, 0: the process only crashes
    MaxCalls,    \* requests waiting at once (model checking only)
    CacheLimit,  \* of these rows load_recent caches at most so many
    None

Obj == 1 .. MaxObj
Msg == 1 .. MaxMsg

ASSUME BoundAssumption ==
    /\ Remote \subseteq Conv /\ IsFiniteSet(Conv)
    /\ Gates \subseteq {"waiting", "waiting_user"}
    /\ {MaxObj, MaxNew, MaxMsg, MaxFaults, MaxRestarts, MaxStops, MaxCalls, CacheLimit} \subseteq Nat
    /\ None \notin Conv \cup Obj

VARIABLES
    rows,        \* table tasks: conversation -> row
    fence,       \* TaskStore._deleted_ids
    heap,        \* the AgentTask objects of this process, each with its worker
    tasks,       \* TaskManager.tasks: conversation -> object
    background,  \* .background, .cancel_events and .steering_queues, which
                 \* gain and lose a conversation together: the worker's object
    writing,     \* the mutation lock: what its holder writes
    calls,       \* requests that read their task and now want the lock
    listed,      \* rows list_restart_interrupted returned and not taken up yet;
                 \* None before that scan, which a process makes once
    recovering,  \* the row the channel recovery works on
    stopping,    \* 0: serving, 1: shutdown cancelled the workers, 2: again
    used,        \* history: ids ever given to a conversation
    deleted,     \* history: conversations whose deletion committed
    accepted,    \* history: follow-ups answered with success
    heirs,       \* history: conversation -> the parent its committed rows named
    announced,   \* history: rows whose recovery was announced
    sent, faults, restarts

memory == <<heap, tasks, background>>
recovery == <<listed, recovering, announced>>
history == <<used, deleted, accepted, heirs>>
budget == <<sent, faults, restarts>>
vars == <<rows, fence, memory, writing, calls, recovery, stopping, history, budget>>

Active == {"queued", "running", "waiting", "waiting_user"}
Terminal == {"completed", "failed", "cancelled"}

\* The fields of a row that the properties tell apart: the turns of the
\* conversation, its status, the instructions of the user, what the error text
\* says of a restart, parent_task_id.
Row == [turn : Nat, status : Active \cup Terminal, said : SUBSET Msg,
        mark : {"none", "interrupted", "recovered"}, parent : Conv \cup {None}]

\* Where a worker is: managed_run ("new", "mcancelled", "mfailed", "done",
\* "died"), the engine's setup, its loop and its handlers; "none" is an object
\* read from the store, which has no worker.
Emits == {"starting", "busy", "final", "completed", "failing", "cancelled",
          "mcancelled", "mfailed"}
Live == Emits \cup {"new", "setup", "run", "closing", "unwinding", "cleanup"}
Place == Live \cup {"none", "done", "died"}

Object == [conv : Conv, row : Row, pc : Place, hit : BOOLEAN, stop : BOOLEAN,
           queue : SUBSET Msg]

Write == [kind : {"run", "resume", "steer", "emit", "rename", "mark", "delete"},
          conv : Conv, obj : Obj \cup {None}, row : Row \cup {None}, saved : BOOLEAN]

Call == [op : {"continue"}, conv : Conv, obj : Obj]
        \cup [op : {"delete"}, conv : Conv, obj : {None}]

Recovering == [conv : Conv, obj : Obj \cup {None}, row : Row, heir : Conv \cup {None}]

ASSUME NoneAssumption ==
    None \notin Row \cup Object \cup Write \cup Recovering \cup [Conv -> Row \cup {None}]

TypeOK ==
    /\ rows \in [Conv -> Row \cup {None}]
    /\ fence \subseteq Conv /\ used \subseteq Conv /\ deleted \subseteq Conv
    /\ heap \in [Obj -> Object \cup {None}]
    /\ tasks \in [Conv -> Obj \cup {None}]
    /\ background \in [Conv -> Obj \cup {None}]
    /\ writing \in Write \cup {None}
    /\ calls \subseteq Call
    /\ listed \in [Conv -> Row \cup {None}] \cup {None}
    /\ recovering \in Recovering \cup {None}
    /\ accepted \in [Conv -> SUBSET Msg] /\ announced \subseteq Conv
    /\ heirs \in [Conv -> Conv \cup {None}]
    /\ stopping \in 0..2 /\ sent \in 0..MaxMsg
    /\ faults \in 0..MaxFaults /\ restarts \in 0..MaxRestarts

NoRows == [c \in Conv |-> None]

Init ==
    /\ rows = NoRows /\ fence = {}
    /\ heap = [o \in Obj |-> None] /\ tasks = NoRows /\ background = NoRows
    /\ writing = None /\ calls = {}
    /\ listed = None /\ recovering = None /\ announced = {}
    /\ stopping = 0
    /\ used = {} /\ deleted = {} /\ accepted = [c \in Conv |-> {}] /\ heirs = NoRows
    /\ sent = 0 /\ faults = 0 /\ restarts = 0

Objects == {o \in Obj : heap[o] # None}
Alive == {o \in Objects : heap[o].pc \in Live}

\* asyncio.Task.done() of the worker registered for a conversation.
Idle(c) == background[c] = None \/ background[c] \notin Alive

NewObj == CHOOSE o \in Obj : heap[o] = None
Room == \E o \in Obj : heap[o] = None

Stored(c, row) == [conv |-> c, row |-> row, pc |-> "none", hit |-> FALSE,
                   stop |-> FALSE, queue |-> {}]

-----------------------------------------------------------------------------
(* The mutation boundary: lock, snapshot, commit in a thread, publication. *)

Serving == stopping = 0

\* The lock is free and this mutation takes it with a snapshot of row.
Begin(kind, c, o, row) ==
    /\ writing = None
    /\ writing' = [kind |-> kind, conv |-> c, obj |-> o, row |-> row, saved |-> FALSE]

\* The object's next state; the done callback of a worker that ended drops it
\* from the registries before anything that waited for the loop runs.
Become(o, t) ==
    /\ heap' = [heap EXCEPT ![o] =
           IF t.pc \in Live THEN t ELSE [t EXCEPT !.hit = FALSE, !.stop = FALSE, !.queue = {}]]
    /\ background' = IF t.pc \notin Live /\ background[t.conv] = o
                     THEN [background EXCEPT ![t.conv] = None] ELSE background

\* TaskStore._write_prepared and delete: one SQLite transaction.
FaultCommit ==   \* fault: a late write does not see the deletion fence
    /\ writing # None /\ ~writing.saved
    /\ IF writing.kind = "delete"
       THEN /\ rows' = [rows EXCEPT ![writing.conv] = None]
            /\ fence' = fence \cup {writing.conv}
            /\ deleted' = deleted \cup {writing.conv}
            /\ UNCHANGED heirs
       ELSE /\ rows' = [rows EXCEPT ![writing.conv] = writing.row]
            /\ heirs' = [heirs EXCEPT ![writing.conv] = writing.row.parent]
            /\ UNCHANGED <<fence, deleted>>
    /\ writing' = [writing EXCEPT !.saved = TRUE]
    /\ UNCHANGED <<memory, calls, recovery, stopping, used, accepted, budget>>

Commit ==
    /\ writing # None /\ ~writing.saved
    /\ IF writing.kind = "delete"
       THEN /\ rows' = [rows EXCEPT ![writing.conv] = None]
            /\ fence' = fence \cup {writing.conv}
            /\ deleted' = deleted \cup {writing.conv}
            /\ UNCHANGED heirs
       ELSE /\ IF writing.conv \in fence THEN UNCHANGED <<rows, heirs>>
               ELSE /\ rows' = [rows EXCEPT ![writing.conv] = writing.row]
                    /\ heirs' = [heirs EXCEPT ![writing.conv] = writing.row.parent]
            /\ UNCHANGED <<fence, deleted>>
    /\ writing' = [writing EXCEPT !.saved = TRUE]
    /\ UNCHANGED <<memory, calls, recovery, stopping, used, accepted, budget>>

\* Where a worker goes on once its event is out.
After == [starting |-> "run", busy |-> "run", final |-> "completed",
          completed |-> "closing", failing |-> "cleanup",
          cancelled |-> "unwinding", mcancelled |-> "done", mfailed |-> "done"]

Emitted(t) ==
    [t EXCEPT !.pc = After[t.pc],
              !.row.status = IF t.pc = "final" THEN "completed" ELSE @]

\* Where a failed write takes it: the engine's handler, then managed_run's,
\* then nowhere.
Broken(t) ==
    IF t.pc \in {"mcancelled", "mfailed"} THEN [t EXCEPT !.hit = FALSE, !.pc = "died"]
    ELSE [t EXCEPT !.hit = FALSE, !.row.status = "failed",
                   !.pc = IF t.pc \in {"run", "busy", "final", "completed", "closing"}
                          THEN "failing" ELSE "mfailed"]

\* Nobody refers to the ended object of the conversation once it is replaced.
Dropped(c) ==
    [o \in Obj |-> IF tasks[c] = o /\ o \notin Alive /\ (\A call \in calls : call.obj # o)
                      /\ (recovering # None => recovering.obj # o)
                   THEN None ELSE heap[o]]

\* _publish_created, with its worker.
PublishRun ==
    /\ heap' = [Dropped(writing.conv) EXCEPT
           ![NewObj] = [Stored(writing.conv, writing.row) EXCEPT !.pc = "new"]]
    /\ tasks' = [tasks EXCEPT ![writing.conv] = NewObj]
    /\ background' = [background EXCEPT ![writing.conv] = NewObj]
    /\ accepted' = [accepted EXCEPT ![writing.conv] = @ \cup writing.row.said]
    /\ recovering' = IF writing.kind = "resume"
                     THEN [recovering EXCEPT !.heir = writing.conv] ELSE recovering

FaultPublishSteering ==   \* fault: the message is queued, the object not updated
    /\ heap' = [heap EXCEPT ![writing.obj].queue = @ \cup (writing.row.said \ heap[writing.obj].row.said)]
    /\ accepted' = [accepted EXCEPT ![writing.conv] = writing.row.said]
    /\ UNCHANGED <<tasks, background, recovering>>

\* _publish_steering: only the instructions; status and result stay newer.
PublishSteering ==
    /\ heap' = [heap EXCEPT
           ![writing.obj].queue = @ \cup (writing.row.said \ heap[writing.obj].row.said),
           ![writing.obj].row.said = writing.row.said]
    /\ accepted' = [accepted EXCEPT ![writing.conv] = writing.row.said]
    /\ UNCHANGED <<tasks, background, recovering>>

PublishEvent ==
    /\ LET t == heap[writing.obj]
       IN Become(writing.obj, IF t.hit THEN t ELSE Emitted(t))
    /\ UNCHANGED <<tasks, accepted, recovering>>

PublishDeletion ==
    /\ tasks' = [tasks EXCEPT ![writing.conv] = None]
    /\ background' = IF Idle(writing.conv)
                     THEN [background EXCEPT ![writing.conv] = None] ELSE background
    /\ heap' = Dropped(writing.conv)
    /\ UNCHANGED <<accepted, recovering>>

\* A row that was not in the cache enters it with its new title.
PublishRename ==
    \/ writing.obj # None /\ UNCHANGED <<memory, accepted, recovering>>
    \/ /\ writing.obj = None /\ Room
       /\ heap' = [Dropped(writing.conv) EXCEPT ![NewObj] = Stored(writing.conv, writing.row)]
       /\ tasks' = [tasks EXCEPT ![writing.conv] = NewObj]
       /\ UNCHANGED <<background, accepted, recovering>>

PublishMark ==
    /\ heap' = [heap EXCEPT ![writing.obj].row.mark = "recovered"]
    /\ recovering' = None
    /\ UNCHANGED <<tasks, background, accepted>>

\* Synchronous on the loop, after the commit.
Publish ==
    /\ writing # None /\ writing.saved
    /\ \/ writing.kind \in {"run", "resume"} /\ Room /\ PublishRun
       \/ writing.kind = "steer" /\ PublishSteering
       \/ writing.kind = "emit" /\ PublishEvent
       \/ writing.kind = "rename" /\ PublishRename
       \/ writing.kind = "delete" /\ PublishDeletion
       \/ writing.kind = "mark" /\ PublishMark
    /\ announced' = IF writing.kind = "mark" THEN announced \cup {writing.conv}
                    ELSE IF writing.kind = "run" THEN announced \ {writing.conv}
                    ELSE announced
    /\ writing' = None
    /\ UNCHANGED <<rows, fence, calls, listed, stopping, used, deleted, heirs, budget>>

\* The transaction fails: nothing is published, the owner gets the exception.
\* In the channel recovery it ends the whole loop.
WriteFails ==
    /\ writing # None /\ ~writing.saved
    /\ faults < MaxFaults /\ faults' = faults + 1
    /\ writing' = None
    /\ IF writing.kind = "emit"
       THEN LET t == heap[writing.obj]
            IN Become(writing.obj, IF t.hit THEN t ELSE Broken(t))
       ELSE UNCHANGED <<heap, background>>
    /\ IF writing.kind \in {"resume", "mark"}
       THEN listed' = NoRows /\ recovering' = None
       ELSE UNCHANGED <<listed, recovering>>
    /\ UNCHANGED <<rows, fence, tasks, calls, announced, stopping, history, sent, restarts>>

-----------------------------------------------------------------------------
(* The worker: managed_run around AgentEngine.run.                         *)

\* A worker whose next step is its own: not cancelled, not in its write.
InWrite(o) == writing # None /\ writing.kind = "emit" /\ writing.obj = o
Free(o) == o \in Alive /\ ~InWrite(o) /\ ~heap[o].hit

Turn(o, t) ==
    /\ Become(o, t)
    /\ UNCHANGED <<rows, fence, tasks, writing, calls, recovery, stopping, history, budget>>

At(t, place) == [t EXCEPT !.pc = place]
With(t, status, place) == [t EXCEPT !.row.status = status, !.pc = place]

\* The first time slice; a stop that came before it is honoured here.
StartRun(o) ==
    /\ Free(o) /\ heap[o].pc = "new"
    /\ Turn(o, IF heap[o].stop THEN With(heap[o], "cancelled", "mcancelled")
               ELSE At(heap[o], "setup"))

\* The engine sets a status on the live object, then emits it.
SetStatus(o) ==
    /\ Free(o)
    /\ \/ heap[o].pc = "setup" /\ Turn(o, With(heap[o], "running", "starting"))
       \/ /\ heap[o].pc = "run" /\ heap[o].row.status = "running"
          /\ \E s \in {"running"} \cup Gates : Turn(o, With(heap[o], s, "busy"))
       \/ /\ heap[o].pc = "run" /\ heap[o].row.status \in {"waiting", "waiting_user"}
          /\ Turn(o, With(heap[o], "running", "busy"))

\* drain_steering_messages, at each step and on a final answer.
Drain(o) ==
    /\ Free(o) /\ heap[o].pc = "run" /\ heap[o].row.status = "running" /\ heap[o].queue # {}
    /\ Turn(o, [heap[o] EXCEPT !.queue = {}, !.pc = "busy"])

\* The answer is final: nothing was queued when it was looked at.
Answer(o) ==
    /\ Free(o) /\ heap[o].pc = "run" /\ heap[o].row.status = "running" /\ heap[o].queue = {}
    /\ Turn(o, At(heap[o], "final"))

\* An exception of the setup, the loop or the audit of a completion.
Raise(o) ==
    /\ Free(o) /\ heap[o].pc \in {"setup", "run", "closing"}
    /\ Turn(o, Broken(heap[o]))

\* emit_async: a deleted or superseded worker does not write.
Emit(o) ==
    /\ Free(o) /\ heap[o].pc \in Emits /\ writing = None
    /\ IF tasks[heap[o].conv] # o
       THEN Turn(o, Emitted(heap[o]))
       ELSE /\ Begin("emit", heap[o].conv, o, heap[o].row)
            /\ UNCHANGED <<rows, fence, memory, calls, recovery, stopping, history, budget>>

\* Audit and plugin cleanup after the outcome.
Close(o) ==
    /\ Free(o)
    /\ \/ heap[o].pc \in {"closing", "unwinding"} /\ Turn(o, At(heap[o], "cleanup"))
       \/ heap[o].pc = "cleanup" /\ Turn(o, At(heap[o], "done"))

\* Where a CancelledError takes a worker: the engine's handler around its loop,
\* managed_run's around everything else, which leaves an outcome alone; in
\* managed_run's own handlers it is the end.
FaultCancelled(t) ==   \* fault: a stop during setup is not persisted
    LET pc == t.pc IN
    CASE pc \in {"setup", "starting", "cancelled", "unwinding"} -> With(t, "cancelled", "done")
      [] pc \in {"run", "busy", "final", "completed", "closing"} -> With(t, "cancelled", "cancelled")
      [] pc \in {"failing", "cleanup"} ->
            IF t.row.status \in {"completed", "failed"} THEN At(t, "done")
            ELSE With(t, "cancelled", "mcancelled")
      [] OTHER -> At(t, "died")

Cancelled(t) ==
    LET pc == t.pc IN
    CASE pc \in {"setup", "starting", "cancelled", "unwinding"} -> With(t, "cancelled", "mcancelled")
      [] pc \in {"run", "busy", "final", "completed", "closing"} -> With(t, "cancelled", "cancelled")
      [] pc \in {"failing", "cleanup"} ->
            IF t.row.status \in {"completed", "failed"} THEN At(t, "done")
            ELSE With(t, "cancelled", "mcancelled")
      [] OTHER -> At(t, "died")

Interrupt(o) ==
    /\ o \in Alive /\ heap[o].hit /\ ~InWrite(o)
    /\ Turn(o, Cancelled([heap[o] EXCEPT !.hit = FALSE]))

Worker(o) ==
    \/ StartRun(o) \/ SetStatus(o) \/ Drain(o) \/ Answer(o) \/ Raise(o)
    \/ Emit(o) \/ Close(o) \/ Interrupt(o)

-----------------------------------------------------------------------------
(* Requests: the task routes and the channel events.                       *)

Request == UNCHANGED <<rows, fence, tasks, background, recovery, stopping, deleted, accepted,
                       heirs, faults, restarts>>

Fresh(c) == [turn |-> 1, status |-> "queued", said |-> {}, mark |-> "none", parent |-> None]

\* create_async: the row first, the task and its worker after the commit.
Create(c) ==
    /\ Serving /\ c \notin used /\ Cardinality(used) < MaxNew /\ Room
    /\ used' = used \cup {c}
    /\ Begin("run", c, None, Fresh(c))
    /\ UNCHANGED <<heap, calls, sent>> /\ Request

\* get_async of a row outside the cache, then setdefault.
Load(c) ==
    /\ Serving /\ writing = None /\ Room
    /\ tasks[c] = None /\ rows[c] # None
    /\ heap' = [heap EXCEPT ![NewObj] = Stored(c, rows[c])]
    /\ tasks' = [tasks EXCEPT ![c] = NewObj]
    /\ UNCHANGED <<rows, fence, background, writing, calls, recovery, stopping, history, budget>>

\* TaskManager.cancel: once per run; a worker that has not had its first time
\* slice is only told through its event.
Stopped(c) ==
    LET o == background[c]
    IN IF o = None \/ o \notin Alive \/ heap[o].stop THEN heap
       ELSE [heap EXCEPT ![o].stop = TRUE, ![o].hit = heap[o].pc # "new"]

Cancel(c) ==
    /\ Serving /\ tasks[c] # None
    /\ heap' = Stopped(c) /\ heap' # heap
    /\ UNCHANGED <<writing, calls, used, sent>> /\ Request

Wait(call) ==
    /\ call \notin calls /\ Cardinality(calls) < MaxCalls
    /\ calls' = calls \cup {call}

\* continue_task holds its previous task while it waits for the old worker.
AskContinue(c) ==
    /\ Serving /\ tasks[c] # None /\ sent < MaxMsg
    /\ Wait([op |-> "continue", conv |-> c, obj |-> tasks[c]])
    /\ UNCHANGED <<heap, writing, used, sent>> /\ Request

FaultMayContinue(o) ==   \* fault: the previous worker is not waited for
    /\ tasks[heap[o].conv] = o
    /\ heap[o].row.status \in Terminal

\* _prepare_create on replace_task.
MayContinue(o) ==
    /\ tasks[heap[o].conv] = o /\ Idle(heap[o].conv)
    /\ heap[o].row.status \in Terminal

\* continue_from_async with the same conversation.
Continue(call) ==
    /\ call \in calls /\ call.op = "continue" /\ writing = None
    /\ calls' = calls \ {call}
    /\ \/ /\ MayContinue(call.obj) /\ Room /\ sent < MaxMsg
          /\ sent' = sent + 1
          /\ LET row == heap[call.obj].row
             IN Begin("run", call.conv, None,
                      [row EXCEPT !.turn = @ + 1, !.status = "queued", !.mark = "none",
                                  !.said = @ \cup {sent + 1}])
       \/ ~MayContinue(call.obj) /\ UNCHANGED <<writing, sent>>
    /\ UNCHANGED <<heap, used>> /\ Request

\* delete_task stops an active task, waits three seconds at most, and deletes.
AskDelete(c) ==
    /\ Serving /\ (tasks[c] # None \/ (writing = None /\ rows[c] # None))
    /\ heap' = IF tasks[c] # None /\ heap[tasks[c]].row.status \in Active
               THEN Stopped(c) ELSE heap
    /\ Wait([op |-> "delete", conv |-> c, obj |-> None])
    /\ UNCHANGED <<writing, used, sent>> /\ Request

Delete(call) ==
    /\ call \in calls /\ call.op = "delete"
    /\ calls' = calls \ {call}
    /\ Begin("delete", call.conv, None, None)
    /\ UNCHANGED <<heap, used, sent>> /\ Request

\* _prepare_steer, under the lock.
Steer(c) ==
    /\ Serving /\ sent < MaxMsg
    /\ tasks[c] # None /\ ~Idle(c)
    /\ heap[tasks[c]].row.status \in {"queued", "running", "waiting"}
    /\ sent' = sent + 1
    /\ Begin("steer", c, tasks[c], [heap[tasks[c]].row EXCEPT !.said = @ \cup {sent + 1}])
    /\ UNCHANGED <<heap, calls, used>> /\ Request

\* rename_async, by the user or by the title generator.
Rename(c) ==
    /\ Serving /\ sent < MaxMsg /\ sent' = sent + 1
    /\ \/ tasks[c] # None /\ Begin("rename", c, tasks[c], heap[tasks[c]].row)
       \/ tasks[c] = None /\ rows[c] # None /\ Room /\ Begin("rename", c, None, rows[c])
    /\ UNCHANGED <<heap, calls, used>> /\ Request

UserRequest ==
    \/ \E c \in Conv : \/ Create(c) \/ Load(c) \/ Cancel(c) \/ AskContinue(c)
                       \/ AskDelete(c) \/ Steer(c) \/ Rename(c)
    \/ \E call \in calls : Continue(call) \/ Delete(call)

-----------------------------------------------------------------------------
(* Restart, and the recovery of channel tasks.                             *)

\* _recover_interrupted_tasks
Interrupted(row) ==
    IF row = None \/ row.status \notin Active THEN row
    ELSE [row EXCEPT !.status = "failed", !.mark = "interrupted"]

\* The process dies, with or without a shutdown; the next one terminalises
\* every active row and caches the most recent ones (load_recent); rows that
\* are not modelled may be more recent.
Restart ==
    /\ restarts < MaxRestarts /\ restarts' = restarts + 1
    /\ rows' = [c \in Conv |-> Interrupted(rows[c])]
    /\ LET kept == {c \in Conv : rows[c] # None}
       IN \E cache \in SUBSET kept : \E place \in [cache -> Obj] :
            /\ Cardinality(cache) <= CacheLimit
            /\ \A c, d \in cache : c # d => place[c] # place[d]
            /\ {place[c] : c \in cache} = 1 .. Cardinality(cache)
            /\ tasks' = [c \in Conv |-> IF c \in cache THEN place[c] ELSE None]
            /\ heap' = [o \in Obj |-> IF \E c \in cache : place[c] = o
                            THEN LET c == CHOOSE c \in cache : place[c] = o
                                 IN Stored(c, Interrupted(rows[c]))
                            ELSE None]
    /\ background' = NoRows /\ fence' = {} /\ writing' = None /\ calls' = {}
    /\ listed' = None /\ recovering' = None /\ stopping' = 0
    /\ UNCHANGED <<history, announced, sent, faults>>

\* list_restart_interrupted, in a thread, without the lock.
List ==
    /\ Serving /\ listed = None
    /\ listed' = [c \in Conv |->
           IF c \in Remote /\ rows[c] # None
              /\ rows[c].status = "failed" /\ rows[c].mark = "interrupted"
           THEN rows[c] ELSE None]
    /\ UNCHANGED <<rows, fence, memory, writing, calls, recovering, announced, stopping,
                   history, budget>>

\* setdefault(previous.id, previous): the listed object enters the cache only
\* if the conversation has none there.
TakeUp(c) ==
    /\ Serving /\ listed # None /\ listed[c] # None /\ recovering = None
    /\ listed' = [listed EXCEPT ![c] = None]
    /\ IF tasks[c] = None
       THEN /\ Room
            /\ heap' = [heap EXCEPT ![NewObj] = Stored(c, listed[c])]
            /\ tasks' = [tasks EXCEPT ![c] = NewObj]
            /\ recovering' = [conv |-> c, obj |-> NewObj, row |-> listed[c], heir |-> None]
       ELSE /\ recovering' = [conv |-> c, obj |-> None, row |-> listed[c], heir |-> None]
            /\ UNCHANGED <<heap, tasks>>
    /\ UNCHANGED <<rows, fence, background, writing, calls, announced, stopping, history, budget>>

\* continue_from_async, as a new conversation.
Resume(d) ==
    /\ recovering # None /\ recovering.heir = None
    /\ d \in Remote \ used /\ Room
    /\ used' = used \cup {d}
    /\ Begin("resume", d, None,
             [Fresh(d) EXCEPT !.said = recovering.row.said, !.parent = recovering.conv])
    /\ UNCHANGED <<rows, fence, memory, calls, recovery, stopping, deleted, accepted, heirs, budget>>

FaultMarkEarly ==   \* fault: the mark is written before the task that resumes it
    /\ recovering # None /\ recovering.obj # None
    /\ tasks[recovering.conv] = recovering.obj
    /\ Begin("mark", recovering.conv, recovering.obj,
             [recovering.row EXCEPT !.mark = "recovered"])
    /\ UNCHANGED <<rows, fence, memory, calls, recovery, stopping, history, budget>>

FaultMark ==   \* fault: the mark does not ask whether the row is still this task's
    /\ recovering # None /\ recovering.heir # None
    /\ \/ /\ tasks[recovering.conv] # None
          /\ Begin("mark", recovering.conv, tasks[recovering.conv],
                   [recovering.row EXCEPT !.mark = "recovered"])
          /\ UNCHANGED <<recovering, announced>>
       \/ /\ tasks[recovering.conv] = None /\ writing = None
          /\ recovering' = None /\ announced' = announced \cup {recovering.conv}
          /\ UNCHANGED writing
    /\ UNCHANGED <<rows, fence, memory, calls, listed, stopping, history, budget>>

\* mark_recovered_async, then the announcement in the channel.
Mark ==
    /\ recovering # None /\ recovering.heir # None
    /\ \/ /\ recovering.obj # None /\ tasks[recovering.conv] = recovering.obj
          /\ Begin("mark", recovering.conv, recovering.obj,
                   [recovering.row EXCEPT !.mark = "recovered"])
          /\ UNCHANGED <<recovering, announced>>
       \/ /\ recovering.obj = None \/ tasks[recovering.conv] # recovering.obj
          /\ writing = None
          /\ recovering' = None /\ announced' = announced \cup {recovering.conv}
          /\ UNCHANGED writing
    /\ UNCHANGED <<rows, fence, memory, calls, listed, stopping, history, budget>>

\* lifespan: requests are over, the channel recovery is cancelled, and
\* TaskManager.shutdown cancels every worker, after its timeout once more.
Shutdown ==
    /\ \/ stopping = 0 /\ calls = {} /\ (writing # None => writing.kind = "emit")
       \/ stopping = 1 /\ Alive # {}
    /\ stopping < MaxStops /\ stopping' = stopping + 1
    /\ heap' = [o \in Obj |->
           IF o \in Alive /\ background[heap[o].conv] = o
              /\ (stopping = 1 \/ ~heap[o].stop)
           THEN [heap[o] EXCEPT !.stop = TRUE, !.hit = heap[o].pc # "new" \/ stopping = 1]
           ELSE heap[o]]
    /\ listed' = NoRows /\ recovering' = None
    /\ UNCHANGED <<rows, fence, tasks, background, writing, calls, announced, history, budget>>

Next ==
    \/ Commit \/ Publish \/ WriteFails
    \/ \E o \in Obj : Worker(o)
    \/ UserRequest
    \/ Restart \/ List \/ \E c \in Conv : TakeUp(c) \/ Resume(c)
    \/ Mark \/ Shutdown

Spec == Init /\ [][Next]_vars

-----------------------------------------------------------------------------
(* Properties.                                                             *)

\* "Never overlap two executions of the same ID" (continue_task): at most one
\* worker of a conversation has not ended, whatever continues, deletes and
\* recoveries were admitted while an earlier one was unwinding.
OneRunPerConversation ==
    \A o, p \in Alive : heap[o].conv = heap[p].conv => o = p

\* A deleted conversation does not come back: no late event of its worker, no
\* continuation, rename or recovery mark puts its row into the table again,
\* in this process or a later one.
DeletedStaysDeleted == \A c \in deleted : rows[c] = None

\* The run a conversation shows has ended with this status in one of these
\* places, and the table still holds its turn as active.
Unrecorded(c, status, places) ==
    LET t == heap[tasks[c]]
    IN /\ tasks[c] # None /\ t.row.status = status /\ t.pc \in places
       /\ rows[c].turn = t.row.turn /\ rows[c].status \in Active

\* A run that ended completed says so in the table, and so does one that ended
\* cancelled, whatever follow-ups, renames and failed writes met its last
\* events; a restart does not take it for an interrupted one.  A run whose
\* worker died in the last handler of managed_run is excepted as far as this
\* handler can be broken off: by a failing write, or by the cancellation that
\* shutdown repeats after its timeout (StopIsDurable, a finding).
OutcomeIsDurable ==
    \A c \in Conv \ deleted :
        /\ ~Unrecorded(c, "completed", {"done", "died"})
        /\ ~Unrecorded(c, "cancelled", {"done"})
        /\ faults = 0 /\ stopping < 2 => ~Unrecorded(c, "cancelled", {"died"})

\* Every cancelled run says so: "It still needs a durable terminal state
\* instead of disappearing" (managed_run).
StopIsDurable ==
    \A c \in Conv \ deleted : ~Unrecorded(c, "cancelled", {"done", "died"})

\* The same of a run that failed.
FailureIsDurable ==
    \A c \in Conv \ deleted : ~Unrecorded(c, "failed", {"done"})

\* An accepted follow-up is never lost from the record: neither an event that
\* the worker was writing meanwhile nor a later turn, a rename or a restart
\* writes the conversation back without it.
InstructionsKept ==
    \A c \in Conv \ deleted :
        /\ rows[c] # None => accepted[c] \subseteq rows[c].said
        /\ tasks[c] # None => accepted[c] \subseteq heap[tasks[c]].row.said

\* Nothing undoes what the table says of a turn: a snapshot of an earlier turn
\* never replaces a later one, and an outcome is never followed by an active
\* status of the same turn.
OutcomeNotUndone ==
    [][\A c \in Conv :
        rows[c] # None /\ rows'[c] # None =>
            /\ rows'[c].turn >= rows[c].turn
            /\ rows'[c].turn = rows[c].turn /\ rows[c].status \in Terminal
               => rows'[c].status \in Terminal]_rows

\* An interrupted task is marked as recovered only when a task that carries it
\* on, one whose row names it as its parent, is in the table, or was there and
\* was deleted since: a crash in between repeats the recovery but never skips
\* it.
HeirBeforeMark ==
    \A c \in Conv :
        rows[c] # None /\ rows[c].mark = "recovered" =>
            \E d \in used : /\ heirs[d] = c
                            /\ IF d \in deleted THEN rows[d] = None
                               ELSE rows[d] # None /\ rows[d].parent = c

\* An interrupted task whose recovery was announced is not taken up by the
\* recovery of a later process ("已由任务 ... 自动恢复", mark_recovered_async and
\* the filter of list_restart_interrupted).
RecoveredOnce ==
    listed # None => \A c \in announced : listed[c] = None

\* A worker whose conversation was deleted was told to stop; only one that is
\* "still unwinding" outlives its deletion (delete_task).
DeletedIsStopped ==
    \A o \in Alive : heap[o].conv \in deleted /\ heap[o].row.status \in Active
                     => heap[o].stop
=============================================================================
