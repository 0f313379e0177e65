--------------------------- MODULE TelegramIngress ---------------------------
(***************************************************************************)
(* How a Telegram update becomes a task: the long poll with its offset and *)
(* its bounded retries (telegram.py), and the admission of an update with  *)
(* the attachments that wait for a text (main.py, feishu_pending.py).      *)
(*                                                                         *)
(* The server is external: it keeps the updates of a bot in order of their *)
(* ids until a request names a higher offset.  Ids of different bots are   *)
(* unrelated numbers; the bots stand for what the user enters as a token.  *)
(***************************************************************************)
EXTENDS Naturals, Sequences, FiniteSets

CONSTANTS
    Bots,         \* tokens
    Updates,      \* [Bots -> SUBSET Nat]: the ids that each bot receives
    Content(_),   \* of an update: "text", "files", "voice" or "foreign"
    MaxAttempts,  \* TELEGRAM_LOCAL_UPDATE_MAX_ATTEMPTS
    MaxRestarts,  \* restarts of the process (model checking only)
    MaxChanges    \* new tokens (model checking only)

TelegramAssumption ==
    /\ \A b \in Bots : Updates[b] \subseteq Nat \ {0} /\ IsFiniteSet(Updates[b])
    /\ MaxAttempts \in Nat \ {0}

VARIABLES
    bot,       \* bot_token
    server,    \* per bot, the lowest id the server still keeps
    offset,    \* _offset
    poller,    \* the poll task: "off", "poll", "batch", "accept", "launch", "backoff"
    batch,     \* the updates of the last answer not yet accepted
    attempts,  \* _negative_ack_attempts
    notified,  \* telegram_failure_notices
    pending,   \* files that wait for a text, as updates
    flushing,  \* the entries a timer took
    taken,     \* the files the update under way took from the queue
    leaving,   \* a stop is "asked" for by new settings; "last": the task ends after this update
    used,      \* restarts and changes so far
    tasks,     \* history: the updates each created task stands for
    doubtful,  \* history: updates admitted that the server may send again
    lost,      \* history: updates that nobody remembers, although confirmed
    ended      \* history: updates ignored, or given up with a diagnostic

polling == <<offset, poller, batch, attempts, taken, leaving>>
queue == <<pending, flushing>>
vars == <<bot, server, polling, notified, queue, used, tasks, ended, doubtful, lost>>

Update == {u \in [bot : Bots, id : UNION {Updates[b] : b \in Bots}] : u.id \in Updates[u.bot]}

Pollers == {"off", "poll", "batch", "accept", "launch", "backoff"}

TypeOK ==
    /\ bot \in Bots /\ server \in [Bots -> Nat] /\ offset \in Nat
    /\ poller \in Pollers /\ leaving \in {"no", "asked", "last"}
    /\ batch \in Seq(Update)
    /\ \A id \in DOMAIN attempts : attempts[id] \in 0 .. MaxAttempts - 1
    /\ pending \subseteq Update /\ taken \subseteq Update /\ flushing \subseteq SUBSET Update
    /\ (ended \cup lost \cup doubtful \cup notified) \subseteq Update

AllIds == UNION {Updates[b] : b \in Bots}
NoAttempts == [id \in AllIds |-> 0]

Init ==
    /\ bot \in Bots /\ server = [b \in Bots |-> 1]
    /\ offset = 0 /\ poller = "off" /\ batch = <<>> /\ attempts = NoAttempts
    /\ notified = {} /\ pending = {} /\ flushing = {} /\ taken = {} /\ leaving = "no"
    /\ used = [restarts |-> 0, changes |-> 0]
    /\ tasks = <<>> /\ ended = {} /\ doubtful = {} /\ lost = {}

-----------------------------------------------------------------------------
(* The poll loop.                                                          *)

\* start_polling: at start-up, and again after a change of the settings.
StartPolling ==
    /\ poller = "off" /\ leaving = "no"
    /\ poller' = "poll"
    /\ UNCHANGED <<bot, server, offset, batch, attempts, taken, leaving, notified, queue, used, tasks, ended, doubtful, lost>>

\* getUpdates: the offset tells the server what it need not keep any longer.
\* It answers with the first of those it keeps, as many as have arrived.
Ascending(us) == {s \in [1 .. Cardinality(us) -> us] :
                    /\ us = {s[i] : i \in DOMAIN s}
                    /\ \A i, j \in DOMAIN s : i < j => s[i].id < s[j].id}

GetUpdates ==
    /\ poller = "poll"
    /\ LET kept == IF offset > server[bot] THEN offset ELSE server[bot]
       IN /\ server' = [server EXCEPT ![bot] = kept]
          /\ LET waiting == {u \in Update : u.bot = bot /\ kept <= u.id}
             IN IF waiting = {} THEN UNCHANGED <<batch, poller>>
                ELSE /\ \E newest \in waiting : batch' \in Ascending({u \in waiting : u.id <= newest.id})
                     /\ poller' = "batch"
    /\ UNCHANGED <<bot, offset, attempts, taken, leaving, notified, queue, used, tasks, ended, doubtful, lost>>

\* The request fails, or an update is deferred: the loop sleeps, then asks.
PollFails ==
    /\ poller = "poll"
    /\ poller' = "backoff"
    /\ UNCHANGED <<bot, server, offset, batch, attempts, taken, leaving, notified, queue, used, tasks, ended, doubtful, lost>>

BackedOff ==
    /\ poller = "backoff"
    /\ poller' = "poll"
    /\ UNCHANGED <<bot, server, offset, batch, attempts, taken, leaving, notified, queue, used, tasks, ended, doubtful, lost>>

\* The next update of the answer; its acceptance is not cancelled any more.
NextUpdate ==
    /\ poller = "batch"
    /\ poller' = IF batch = <<>> THEN "poll" ELSE "accept"
    /\ UNCHANGED <<bot, server, offset, batch, attempts, taken, leaving, notified, queue, used, tasks, ended, doubtful, lost>>

\* After an update: a cancelled poll task ends here.
Resumes(place) == IF leaving = "last" THEN poller' = "off" /\ leaving' = "no" /\ batch' = <<>>
                  ELSE poller' = place /\ UNCHANGED leaving /\ batch' = IF place = "batch" THEN Tail(batch) ELSE <<>>

Current == Head(batch)
Larger(a, b) == IF a > b THEN a ELSE b

\* Fault: the offset follows an update that is only deferred.
FaultDeferred(u) == Larger(offset, u.id + 1)

Deferred(u) == offset

\* Fault: the offset names the update itself, not the one behind it.
FaultPassed(u) == Larger(offset, u.id)

\* The offset passes the update; it never goes back.
Passed(u) == Larger(offset, u.id + 1)

Acknowledge ==
    /\ offset' = Passed(Current)
    /\ attempts' = [attempts EXCEPT ![Current.id] = 0]
    /\ Resumes("batch")

\* Fault: the attempts of an update are not counted.
FaultCounted(u) == attempts

Counted(u) == [attempts EXCEPT ![u.id] = @ + 1]

Exhausted(u) == attempts[u.id] + 1 >= MaxAttempts

\* A negative answer defers the update, a bounded number of times.
Refuse ==
    IF Exhausted(Current)
    THEN Acknowledge /\ ended' = ended \cup {Current}
    ELSE /\ attempts' = Counted(Current)
         /\ offset' = Deferred(Current) /\ Resumes("backoff") /\ UNCHANGED ended

-----------------------------------------------------------------------------
(* The admission of an update: accept_telegram_update.                     *)

\* A chat that is not bound is ignored silently.
Ignore ==
    /\ poller = "accept" /\ Content(Current) = "foreign"
    /\ Acknowledge /\ ended' = ended \cup {Current}
    /\ UNCHANGED <<bot, server, taken, notified, queue, used, tasks, doubtful, lost>>

\* A text, also a voice that was understood, takes the files that wait.
TakeFiles ==
    /\ poller = "accept" /\ Content(Current) \in {"text", "voice"}
    /\ taken' = pending /\ pending' = {} /\ poller' = "launch"
    /\ UNCHANGED <<bot, server, offset, batch, attempts, leaving, notified, flushing, used, tasks, ended, doubtful, lost>>

\* A download or the transcription of a voice fails; the sender is told once
\* per update, and what cannot get better is acknowledged when he was told.
FetchFails(permanent) ==
    /\ poller = "accept" /\ Content(Current) \in {"files", "voice"}
    /\ \E told \in BOOLEAN :
          /\ Current \in notified => told
          /\ notified' = IF told THEN notified \cup {Current} ELSE notified
          /\ IF permanent /\ told THEN Acknowledge /\ ended' = ended \cup {Current} ELSE Refuse
    /\ UNCHANGED <<bot, server, taken, queue, used, tasks, doubtful, lost>>

Staged(u) == pending \cup {u}

StageFiles ==
    /\ poller = "accept" /\ Content(Current) = "files"
    /\ pending' = Staged(Current)
    /\ Acknowledge
    /\ UNCHANGED <<bot, server, taken, notified, flushing, used, tasks, ended, doubtful, lost>>

\* launch_telegram_task.  Without a model key the update is consumed.  When
\* the creation fails the update is deferred; the files it took are gone.
Launch ==
    /\ poller = "launch" /\ taken' = {}
    /\ \/ /\ tasks' = Append(tasks, taken \cup {Current})
          /\ Acknowledge /\ UNCHANGED ended
       \/ /\ Acknowledge /\ ended' = ended \cup taken \cup {Current} /\ UNCHANGED tasks
       \/ /\ Refuse /\ UNCHANGED tasks
    /\ lost' = lost \cup (taken \ (ended' \cup UNION {tasks'[i] : i \in DOMAIN tasks'}))
    /\ UNCHANGED <<bot, server, notified, queue, used, doubtful>>

\* No text came in time.
TimerFires ==
    /\ pending # {}
    /\ flushing' = flushing \cup {pending} /\ pending' = {}
    /\ UNCHANGED <<bot, server, polling, notified, used, tasks, ended, doubtful, lost>>

Flush(files) ==
    /\ files \in flushing /\ flushing' = flushing \ {files}
    /\ \/ tasks' = Append(tasks, files) /\ UNCHANGED ended
       \/ ended' = ended \cup files /\ UNCHANGED tasks
    /\ UNCHANGED <<bot, server, polling, notified, pending, used, doubtful, lost>>

-----------------------------------------------------------------------------
(* Settings and restarts.                                                  *)

\* The updates with a task, and those that have one or wait for it.
InTasks == UNION {tasks[i] : i \in DOMAIN tasks}
Admitted == pending \cup (UNION flushing) \cup taken \cup InTasks

\* Those of some updates that the server still keeps.
Unconfirmed(us) == {u \in us : u.id >= server[u.bot]}

\* set_credentials with another token.  The loop runs on until its restart is
\* reached among the activations.
ChangeToken(b) ==
    /\ b # bot /\ used.changes < MaxChanges /\ leaving = "no"
    /\ used' = [used EXCEPT !.changes = @ + 1]
    /\ bot' = b /\ offset' = 0 /\ attempts' = NoAttempts
    /\ leaving' = "asked"
    /\ doubtful' = doubtful \cup Unconfirmed(Admitted)
    /\ UNCHANGED <<server, poller, batch, taken, notified, queue, tasks, ended, lost>>

\* restart_polling cancels the task; an update being accepted is finished.
StopPolling ==
    /\ leaving = "asked"
    /\ IF poller \in {"accept", "launch"} THEN leaving' = "last" /\ UNCHANGED <<poller, batch>>
       ELSE leaving' = "no" /\ poller' = "off" /\ batch' = <<>>
    /\ UNCHANGED <<bot, server, offset, attempts, taken, notified, queue, used, tasks, ended, doubtful, lost>>

\* The process ends and starts again: it remembers nothing.
Restart ==
    /\ used.restarts < MaxRestarts
    /\ used' = [used EXCEPT !.restarts = @ + 1]
    /\ offset' = 0 /\ poller' = "off" /\ batch' = <<>> /\ attempts' = NoAttempts
    /\ notified' = {} /\ pending' = {} /\ flushing' = {} /\ taken' = {} /\ leaving' = "no"
    /\ doubtful' = doubtful \cup Unconfirmed(InTasks)
    /\ lost' = lost \cup pending \cup (UNION flushing) \cup taken
    /\ UNCHANGED <<bot, server, tasks, ended>>

Admission == \/ Ignore \/ TakeFiles \/ \E permanent \in BOOLEAN : FetchFails(permanent)
             \/ StageFiles \/ Launch

Loop == StartPolling \/ StopPolling \/ GetUpdates \/ PollFails \/ BackedOff \/ NextUpdate \/ Admission

Next == Loop \/ TimerFires \/ (\E files \in flushing : Flush(files))
        \/ (\E b \in Bots : ChangeToken(b)) \/ Restart

\* The poll task runs, its calls end, and the server can be reached again and
\* again.
Fairness == WF_vars(Loop) /\ SF_vars(GetUpdates)

Spec == Init /\ [][Next]_vars /\ Fairness

-----------------------------------------------------------------------------
(* What the ingress promises.                                              *)

\* An update becomes part of one task, unless the process ended or the token
\* changed before the server learned of the offset that passes it.
OneTaskPerUpdate ==
    \A u \in Update \ doubtful : Cardinality({i \in DOMAIN tasks : u \in tasks[i]}) <= 1

\* telegram.py:266: "Commit only after the normalized event has been handled
\* successfully."  What the server discards has a task, waits for one, or was
\* ended with a diagnostic.
Handled == Admitted \cup ended

ConfirmedIsHandled == \A u \in Update : u.id < server[u.bot] => u \in Handled

\* The same with what the code gives up: files in the queue when the process
\* ends, files taken by a text whose task could not be created (both in lost),
\* and everything after a change of the token, whose offset may pass updates
\* of the new bot (ConfirmedIsHandled).
DeferredIsKept ==
    \A u \in Update : (u.id < server[u.bot] \/ (u.bot = bot /\ u.id < offset))
                          => u \in Handled \cup lost \/ used.changes > 0

\* An update that fails does not block the ones behind it: after every restart
\* and every change of the token all updates of the bot are passed again.
AllPassed == \A id \in Updates[bot] : offset > id \/ server[bot] > id

QueueMoves == []<>AllPassed
=============================================================================
