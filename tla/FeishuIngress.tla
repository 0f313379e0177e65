---------------------------- MODULE FeishuIngress ----------------------------
(***************************************************************************)
(* How a Feishu message becomes a task: the reservation of its event id    *)
(* (feishu.py), the attachments that wait for a text (feishu_pending.py)   *)
(* and the admission that joins them (main.py).                            *)
(*                                                                         *)
(* The platform and its worker process are external: an event may be       *)
(* delivered again at any time, also while it is being processed.  One     *)
(* conversation is modelled.  A delivery awaits at its place; the code     *)
(* between two awaits is one step, and admission is not cancelled with its *)
(* request (run_owned_async).                                              *)
(***************************************************************************)
EXTENDS Naturals, Sequences, FiniteSets, SequencesExt

CONSTANTS
    Events,        \* event ids
    Contents,      \* [Events -> SUBSET {"text", "files"}]
    Handlers,      \* requests in progress at once (model checking only)
    MaxLeases,     \* _MAX_EVENT_RESERVATIONS
    Remembered,    \* _MAX_COMMITTED_EVENT_IDS
    MaxDeliveries, \* deliveries (model checking only)
    MaxFaults,     \* crashes and expired leases (model checking only)
    None

\* More ids are remembered (4096) than there are reservations at once (2048): what
\* one task commits is never forgotten by that commit itself.
ASSUME IngressAssumption ==
    /\ IsFiniteSet(Events)
    /\ Contents \in [Events -> (SUBSET {"text", "files"}) \ {{}}]
    /\ {MaxLeases, Remembered, Handlers} \subseteq Nat \ {0} /\ MaxLeases <= Remembered
    /\ {MaxDeliveries, MaxFaults} \subseteq Nat

VARIABLES
    requests, \* the deliveries in progress
    leases,   \* _event_reservations: event id -> token
    seen,     \* _seen_events: committed ids, the oldest first
    saved,    \* the file feishu-event-dedup.json
    pending,  \* PendingFeishuAttachments._pending of the conversation
    flushing, \* entries a timer has taken: their callbacks still run
    closed,   \* PendingFeishuAttachments._closed
    used,     \* deliveries and faults so far
    tasks,    \* history: the events each created task stands for
    lapsed,   \* history: the leases that expired
    doubtful, \* history: events a fault deprived of the memory of their task
    kept      \* history: events the queue or a committed task answers for

memory == <<requests, leases, seen, pending, flushing, closed>>
vars == <<memory, saved, used, tasks, lapsed, doubtful, kept>>

Lease(e, t) == [event |-> e, token |-> t]
AllLeases == [event : Events, token : Nat]

\* What waits for a text: the events its files came with, and their leases.
Entry == [files : SUBSET Events, leases : SUBSET AllLeases]

ASSUME NoneAssumption == None \notin Nat \cup Entry

\* A delivery, or an entry that waits: what its task will be made of.
Place == {"download", "launch", "commit", "notify"}

TypeOK ==
    /\ requests \subseteq [event : Events, token : 1 .. MaxDeliveries, place : Place,
                          files : SUBSET Events, leases : SUBSET AllLeases]
    /\ \A e \in Events : leases[e] # None => leases[e] \in 1 .. MaxDeliveries
    /\ seen \in Seq(Events) /\ Len(seen) <= Remembered /\ IsInjective(seen)
    /\ saved \in Seq(Events) /\ Len(saved) <= Remembered
    /\ pending # None => pending \in Entry /\ pending.files # {}
    /\ closed \in BOOLEAN /\ doubtful \subseteq Events /\ kept \subseteq Events

Init ==
    /\ requests = {}
    /\ leases = [e \in Events |-> None]
    /\ pending = None /\ flushing = {} /\ closed = FALSE
    /\ seen = <<>> /\ saved = <<>>
    /\ used = [deliveries |-> 0, faults |-> 0]
    /\ tasks = <<>> /\ lapsed = {} /\ doubtful = {} /\ kept = {}

-----------------------------------------------------------------------------
(* The reservations.                                                       *)

\* A lease is current while the reservation carries its token.
Owns(lease) == leases[lease.event] = lease.token

\* Fault: a reservation is looked up by its event only.
FaultReleased(ls) == [e \in Events |-> IF \E l \in ls : l.event = e THEN None ELSE leases[e]]

\* rollback_event_ids: only what the caller still owns.
Released(ls) == [e \in Events |-> IF \E l \in ls : l.event = e /\ Owns(l) THEN None ELSE leases[e]]

\* commit_event_ids: all of them or none.
Committable(ls) == \A l \in ls : Owns(l) \/ (leases[l.event] = None /\ l.event \in ToSet(seen))

Newly(ls) == {l.event : l \in ls} \ ToSet(seen)

\* A deque of bounded length drops its oldest ids.
Latest(ids) == IF Len(ids) > Remembered
               THEN SubSeq(ids, Len(ids) - Remembered + 1, Len(ids)) ELSE ids

\* The leases end and the ids are remembered before the file is written; when
\* that fails the ids stay in memory.
Commit(ls) ==
    /\ leases' = [e \in Events |-> IF \E l \in ls : l.event = e THEN None ELSE leases[e]]
    /\ seen' = Latest(seen \o SetToSeq(Newly(ls)))
    /\ doubtful' = doubtful \cup (ToSet(seen) \ ToSet(seen'))
    /\ \/ saved' = IF Newly(ls) = {} THEN saved ELSE seen'
       \/ Newly(ls) # {} /\ UNCHANGED saved

-----------------------------------------------------------------------------
(* The attachments that wait.                                              *)

\* Fault: a second attachment forgets the first.
FaultStaged(files, ls) == [files |-> files, leases |-> ls]

\* stage: a new entry replaces the one before and takes over its files; the
\* caller carries the leases over.
Staged(files, ls) ==
    IF pending = None THEN [files |-> files, leases |-> ls]
    ELSE [files |-> pending.files \cup files, leases |-> pending.leases \cup ls]

\* _expire: the sleep is over and the entry is still the one that waits.
TimerFires ==
    /\ pending # None
    /\ flushing' = flushing \cup {[place |-> "launch", files |-> pending.files, leases |-> pending.leases]}
    /\ pending' = None
    /\ UNCHANGED <<requests, leases, seen, closed, saved, used, tasks, doubtful, kept, lapsed>>

\* flush_pending_feishu_attachments up to the creation of the task, which may
\* be refused (no model key) or fail.
FlushLaunch(entry) ==
    /\ entry \in flushing /\ entry.place = "launch"
    /\ \/ /\ tasks' = Append(tasks, entry.files)
          /\ flushing' = (flushing \ {entry}) \cup {[entry EXCEPT !.place = "commit"]}
          /\ UNCHANGED <<leases, kept>>
       \/ /\ leases' = Released(entry.leases)
          /\ flushing' = flushing \ {entry}
          /\ kept' = kept \ entry.files
          /\ UNCHANGED tasks
    /\ UNCHANGED <<requests, seen, pending, closed, saved, used, doubtful, lapsed>>

FlushCommit(entry) ==
    /\ entry \in flushing /\ entry.place = "commit"
    /\ IF Committable(entry.leases) THEN Commit(entry.leases)
       ELSE leases' = Released(entry.leases) /\ doubtful' = doubtful \cup entry.files /\ UNCHANGED <<seen, saved>>
    /\ flushing' = flushing \ {entry}
    /\ UNCHANGED <<requests, pending, closed, used, tasks, kept, lapsed>>

\* close: the queue is dropped, callbacks that run are awaited.
Close ==
    /\ ~closed
    /\ closed' = TRUE /\ pending' = None
    /\ kept' = IF pending = None THEN kept ELSE kept \ pending.files
    /\ UNCHANGED <<requests, leases, seen, flushing, saved, used, tasks, doubtful, lapsed>>

-----------------------------------------------------------------------------
(* Admission of one delivery: commit_feishu_event.                         *)

\* The text takes the attachments that wait, with their leases.
Joined(r) ==
    IF "text" \in Contents[r.event] /\ pending # None
    THEN [r EXCEPT !.place = "launch", !.files = @ \cup pending.files, !.leases = @ \cup pending.leases]
    ELSE [r EXCEPT !.place = "launch"]

Take(others, r) ==
    /\ requests' = others \cup {Joined(r)}
    /\ pending' = IF "text" \in Contents[r.event] THEN None ELSE pending

\* Fault: a delivery in progress does not count.
FaultKnown(e) == e \in ToSet(seen)

\* reserve_event_id
Known(e) == e \in ToSet(seen) \/ leases[e] # None

\* A duplicate is answered at once; a full table asks the platform to retry.
Deliver(e) ==
    /\ Cardinality(requests) < Handlers /\ used.deliveries < MaxDeliveries
    /\ used' = [used EXCEPT !.deliveries = @ + 1]
    /\ LET token == used.deliveries + 1
           r == [event |-> e, token |-> token, place |-> "download", files |-> {e}, leases |-> {Lease(e, token)}]
       IN IF \/ Known(e)
             \/ Cardinality({d \in Events : leases[d] # None}) >= MaxLeases
          THEN UNCHANGED <<leases, requests, pending>>
          ELSE /\ leases' = [leases EXCEPT ![e] = token]
               /\ IF "files" \in Contents[e] THEN requests' = requests \cup {r} /\ UNCHANGED pending
                                             ELSE Take(requests, r)
    /\ UNCHANGED <<seen, flushing, closed, saved, tasks, doubtful, kept, lapsed>>

\* A resource could not be fetched: the sender is told, the lease released.
DownloadFails(r) ==
    /\ r \in requests /\ r.place = "download"
    /\ leases' = Released(r.leases)
    /\ requests' = requests \ {r}
    /\ UNCHANGED <<seen, pending, flushing, closed, saved, used, tasks, doubtful, kept, lapsed>>

\* Files with a text go on; files alone wait, and the first of them is
\* announced to the sender (an await) before the platform gets its answer.
Downloaded(r) ==
    /\ r \in requests /\ r.place = "download"
    /\ \/ /\ "text" \in Contents[r.event]
          /\ Take(requests \ {r}, r) /\ UNCHANGED <<leases, kept>>
       \/ /\ Contents[r.event] = {"files"} /\ ~closed
          /\ pending' = Staged(r.files, r.leases)
          /\ IF pending = None
             THEN requests' = (requests \ {r}) \cup {[r EXCEPT !.place = "notify", !.leases = {}]}
             ELSE requests' = requests \ {r}
          /\ kept' = kept \cup {r.event} /\ UNCHANGED leases
       \/ /\ Contents[r.event] = {"files"} /\ closed
          /\ leases' = Released(r.leases)
          /\ requests' = requests \ {r} /\ UNCHANGED <<pending, kept>>
    /\ UNCHANGED <<seen, flushing, closed, saved, used, tasks, doubtful, lapsed>>

Notified(r) ==
    /\ r \in requests /\ r.place = "notify"
    /\ requests' = requests \ {r}
    /\ UNCHANGED <<leases, seen, pending, flushing, closed, saved, used, tasks, doubtful, kept, lapsed>>

\* launch_feishu_task: refused or failed, the leases are released, also those
\* of the attachments the text had taken.
Launch(r) ==
    /\ r \in requests /\ r.place = "launch"
    /\ \/ /\ tasks' = Append(tasks, r.files)
          /\ requests' = (requests \ {r}) \cup {[r EXCEPT !.place = "commit"]}
          /\ UNCHANGED <<leases, kept>>
       \/ /\ leases' = Released(r.leases)
          /\ requests' = requests \ {r}
          /\ kept' = kept \ r.files
          /\ UNCHANGED tasks
    /\ UNCHANGED <<seen, pending, flushing, closed, saved, used, doubtful, lapsed>>

\* After the acknowledgement was sent (an await).
CommitTask(r) ==
    /\ r \in requests /\ r.place = "commit"
    /\ IF Committable(r.leases)
       THEN Commit(r.leases) /\ kept' = kept \cup r.files
       ELSE /\ leases' = Released(r.leases) /\ doubtful' = doubtful \cup r.files
            /\ UNCHANGED <<seen, saved, kept>>
    /\ requests' = requests \ {r}
    /\ UNCHANGED <<pending, flushing, closed, used, tasks, lapsed>>

-----------------------------------------------------------------------------
(* Time and crashes.                                                       *)

\* Two hours passed: _prune_event_reservations_locked.
Expire(e) ==
    /\ leases[e] # None /\ used.faults < MaxFaults
    /\ used' = [used EXCEPT !.faults = @ + 1]
    /\ leases' = [leases EXCEPT ![e] = None]
    /\ lapsed' = lapsed \cup {Lease(e, leases[e])}
    /\ doubtful' = doubtful \cup {e}
    /\ UNCHANGED <<requests, seen, pending, flushing, closed, saved, tasks, kept>>

\* The process ends and starts again: what was not written is gone.
Uncommitted == UNION {r.files : r \in {q \in requests : q.place = "commit"} \cup {f \in flushing : f.place = "commit"}}

Restart ==
    /\ used.faults < MaxFaults
    /\ used' = [used EXCEPT !.faults = @ + 1]
    /\ requests' = {} /\ leases' = [e \in Events |-> None]
    /\ pending' = None /\ flushing' = {} /\ closed' = FALSE /\ seen' = saved
    /\ doubtful' = doubtful \cup Uncommitted \cup (ToSet(seen) \ ToSet(saved))
    /\ kept' = {e \in kept : \E i \in DOMAIN tasks : e \in tasks[i]}
    /\ UNCHANGED <<saved, tasks, lapsed>>

Next ==
    \/ TimerFires \/ Close \/ Restart
    \/ \E entry \in flushing : FlushLaunch(entry) \/ FlushCommit(entry)
    \/ \E r \in requests : DownloadFails(r) \/ Downloaded(r) \/ Notified(r) \/ Launch(r) \/ CommitTask(r)
    \/ \E e \in Events : Deliver(e) \/ Expire(e)

Spec == Init /\ [][Next]_vars

-----------------------------------------------------------------------------
(* What the ingress promises.                                              *)

\* However often an event is delivered, its content becomes part of one task,
\* unless a crash, an expired lease or the bound on remembered ids took away
\* the memory of the first (commit_feishu_event, commit_event_ids).
OneTaskPerEvent ==
    \A e \in Events \ doubtful : Cardinality({i \in DOMAIN tasks : e \in tasks[i]}) <= 1

\* A reservation, which makes every other delivery of its event a duplicate,
\* has exactly one owner that will end it: a delivery, the entry that waits or
\* one that is being flushed; a leaked one would swallow retries for hours.
\* And an owner loses its reservation only to time: nobody else ends it.
Owners == requests \cup flushing \cup (IF pending = None THEN {} ELSE {pending})

LeasesOwned ==
    /\ ~closed => \A e \in Events : leases[e] # None =>
           Cardinality({o \in Owners : Lease(e, leases[e]) \in o.leases}) = 1
    /\ \A o \in Owners : \A l \in o.leases : Owns(l) \/ l \in lapsed

\* An event is kept while it waits, is being flushed or has its task.
Held(e) == \/ pending # None /\ e \in pending.files
           \/ \E f \in flushing : e \in f.files
           \/ \E r \in requests : r.place # "notify" /\ e \in r.files
           \/ \E i \in DOMAIN tasks : e \in tasks[i]

\* What the platform is told is accepted stays in the queue or has its task,
\* until a failed launch, the close or a crash ends it: no second attachment
\* and no race between timer and text loses it.
AcceptedIsHeld == \A e \in kept : Held(e)

\* However often and late an event is delivered it becomes part of one task, what was
\* accepted is held until it is part of one or a failed launch, the close of the bridge
\* or a crash gives it up, and a reservation has one owner (the reservations of
\* feishu.py, feishu_pending.py and commit_feishu_event together).
EventsAreKept == TypeOK /\ OneTaskPerEvent /\ AcceptedIsHeld /\ LeasesOwned
=============================================================================
