--------------------------- MODULE FeishuListener ---------------------------
(***************************************************************************)
(* The long connection of Feishu: FeishuBridge starts, stops and restarts  *)
(* one worker process (feishu.py, feishu_ws_worker.py), a supervisor and   *)
(* settings saves restart it (main.py), and a service that died leaves its *)
(* worker behind.                                                          *)
(*                                                                         *)
(* A worker is its number; credentials are numbered by the save that       *)
(* entered them, 0 before the first.  Every await of the bridge is a step  *)
(* of its own.  Feishu and the network are external: a worker connects,    *)
(* loses its connection and dies at any time, a token request may fail.    *)
(* The operating system lets a service read the environment of the workers *)
(* of its own user and kill them.                                          *)
(***************************************************************************)
EXTENDS Naturals, FiniteSets

CONSTANTS
    Threshold,  \* unhealthy checks before a restart (3 in the code)
    MaxSaves,   \* settings saves that change the credentials (model checking only)
    MaxSpawns,  \* workers started (model checking only)
    MaxCrashes, \* services that die (model checking only)
    None

VARIABLES
    service,  \* "down", "up", "stopping"
    creds,    \* the credentials of the bridge; 0 if it has none
    address,  \* whether _listener_callback_url is known
    token,    \* whose tenant token is cached, or None
    lock,     \* who holds _listener_lock
    op,       \* what each caller of the bridge is doing
    listener, \* _listener: the worker whose handle the bridge has
    accepts,  \* whether _listener_token is set: the callback of a worker is accepted
    workers,  \* worker processes that run, and their credentials
    report,   \* feishu-worker-status.json, or None
    checks,   \* unhealthy_checks of the supervisor
    spawned, crashes

vars == <<service, creds, address, token, lock, op, listener, accepts, workers, report, checks, spawned, crashes>>

Starters == {"boot", "monitor", "settings"}
Callers == Starters \cup {"send", "shutdown"}
Idle == [at |-> "idle", old |-> None, asked |-> None]

TypeOK ==
    /\ service \in {"down", "up", "stopping"} /\ creds \in 0..MaxSaves /\ address \in BOOLEAN
    /\ token \in 0..MaxSaves \cup {None} /\ lock \in Callers \cup {None}
    /\ \A c \in Callers : op[c].at \in {"idle", "wait", "stop", "token", "reap", "spawn", "settle"}
    /\ listener \in 1..MaxSpawns \cup {None} /\ accepts \in BOOLEAN
    /\ DOMAIN workers \subseteq 1..MaxSpawns
    /\ checks \in 0..Threshold

Init ==
    /\ service = "down" /\ creds \in 0..1 /\ address = FALSE
    /\ token = None /\ lock = None
    /\ op = [c \in Callers |-> Idle] /\ listener = None /\ accepts = FALSE
    /\ workers = [w \in {} |-> 0] /\ report = None /\ checks = 0
    /\ spawned = 0 /\ crashes = 0

-----------------------------------------------------------------------------
(* The bridge.                                                             *)

Running(w) == w \in DOMAIN workers
Configured == creds # 0
Without(gone) == [w \in DOMAIN workers \ gone |-> workers[w]]
At(c, at) == op' = [op EXCEPT ![c].at = at]
Done(c) == lock' = None /\ op' = [op EXCEPT ![c] = Idle]
World == UNCHANGED <<service, creds, report, checks, crashes>>
Same == World /\ UNCHANGED address

\* Under the lock: the handle and the callback's token are taken away first, then the
\* process is ended.
Acquire(c) ==
    /\ op[c].at = "wait" /\ lock = None
    /\ lock' = c /\ listener' = None /\ accepts' = FALSE
    /\ op' = [op EXCEPT ![c] = [Idle EXCEPT !.at = "stop", !.old = listener]]
    /\ UNCHANGED <<token, workers, spawned>> /\ Same

\* terminate, and kill after four seconds; then a start keeps the address and, with
\* credentials, asks for a tenant token unless one is cached.
Terminated(c) ==
    /\ op[c].at = "stop"
    /\ workers' = Without({op[c].old})
    /\ address' = (address \/ c # "shutdown")
    /\ IF c = "shutdown" \/ ~Configured THEN Done(c)
       ELSE /\ op' = [op EXCEPT ![c] = IF token # None THEN [Idle EXCEPT !.at = "reap"]
                                       ELSE [Idle EXCEPT !.at = "token", !.asked = creds]]
            /\ UNCHANGED lock
    /\ UNCHANGED <<token, listener, accepts, spawned>> /\ World

\* The answer is kept without a look at the credentials of now.
TokenArrives(c) ==
    /\ op[c].at = "token" /\ token' = op[c].asked
    /\ IF c = "send" THEN op' = [op EXCEPT ![c] = Idle] ELSE At(c, "reap")
    /\ UNCHANGED <<lock, listener, accepts, workers, spawned>> /\ Same

TokenRefused(c) ==
    /\ op[c].at = "token"
    /\ IF c = "send" THEN op' = [op EXCEPT ![c] = Idle] /\ UNCHANGED lock ELSE Done(c)
    /\ UNCHANGED <<token, listener, accepts, workers, spawned>> /\ Same

\* A token expires, and _send_message drops one that was answered with 401.
TokenDropped ==
    /\ token # None /\ token' = None
    /\ UNCHANGED <<lock, op, listener, accepts, workers, spawned>> /\ Same

FaultReaped == {}
\* _terminate_stale_listeners: every worker whose status file is this workspace's.
Reaped == DOMAIN workers

Reap(c) == /\ op[c].at = "reap"
           /\ workers' = Without(Reaped) /\ At(c, "spawn")
           /\ UNCHANGED <<token, lock, listener, accepts, spawned>> /\ Same

\* The callback's token of this workspace, which outlives the service, and a worker with
\* the credentials of now; the old status file goes first.
Spawn(c) ==
    /\ op[c].at = "spawn" /\ spawned < MaxSpawns
    /\ spawned' = spawned + 1 /\ listener' = spawned' /\ accepts' = TRUE
    /\ workers' = [w \in DOMAIN workers \cup {spawned'} |-> IF w = spawned' THEN creds ELSE workers[w]]
    /\ report' = None /\ At(c, "settle")
    /\ UNCHANGED <<service, creds, address, token, lock, checks, crashes>>

\* The vault of the callback's token fails, the log cannot be opened or the process not
\* be made.
SpawnFails(c) == /\ op[c].at = "spawn" /\ Done(c) /\ accepts' \in BOOLEAN
                 /\ UNCHANGED <<token, listener, workers, spawned>> /\ Same

Settle(c) ==
    /\ op[c].at = "settle"
    /\ IF Running(listener) THEN UNCHANGED <<listener, accepts>> ELSE listener' = None /\ accepts' = FALSE
    /\ Done(c)
    /\ UNCHANGED <<token, workers, spawned>> /\ Same

\* send_text and the other calls of the API.
Send ==
    /\ service = "up" /\ op["send"].at = "idle" /\ token = None /\ Configured
    /\ op' = [op EXCEPT !["send"] = [Idle EXCEPT !.at = "token", !.asked = creds]]
    /\ UNCHANGED <<token, lock, listener, accepts, workers, spawned>> /\ Same

-----------------------------------------------------------------------------
(* Who calls it.                                                           *)

FaultActivation(busy) == IF busy THEN op["settings"] ELSE [Idle EXCEPT !.at = "wait"]
\* The restart waits for the lock behind one that is under way.
Activation(busy) == [Idle EXCEPT !.at = "wait"]

\* A settings save that changes the credentials: set_credentials in the body and a restart
\* after the commit, which does nothing as long as no start has left the address.  There
\* is no await before the restart waits for the lock.
SaveSettings ==
    /\ service = "up" /\ op["settings"].at = "idle" /\ creds < MaxSaves
    /\ creds' = creds + 1 /\ token' = None
    /\ op' = IF address THEN [op EXCEPT !["settings"] = Activation(lock # None)] ELSE op
    /\ UNCHANGED <<service, address, lock, listener, accepts, workers, report, checks, spawned, crashes>>

\* The status file counts only if the worker of the handle wrote it.
OwnReport == report # None /\ report.worker = listener
Healthy == /\ listener # None /\ Running(listener)
           /\ OwnReport => report.state \in {"connected", "event_received"} /\ report.fresh

\* _monitor_feishu_connection.
Check ==
    /\ service = "up" /\ op["monitor"].at = "idle" /\ op["boot"].at = "idle"
    /\ IF ~Configured \/ Healthy THEN checks' = 0 /\ UNCHANGED op
       ELSE IF checks + 1 < Threshold THEN checks' = checks + 1 /\ UNCHANGED op
       ELSE checks' = 0 /\ At("monitor", "wait")
    /\ UNCHANGED <<service, creds, address, token, lock, listener, accepts, workers, report, spawned, crashes>>

Begin == /\ service = "down" /\ service' = "up"
         /\ op' = [op EXCEPT !["boot"].at = "wait"]
         /\ UNCHANGED <<creds, address, token, lock, listener, accepts, workers, report, checks, spawned, crashes>>

\* Shutdown cancels the bootstrap and the supervisor wherever they are, and a settings
\* request that takes more than five seconds; a process being ended may go on, the thread
\* that reaps finishes, and a process being made is killed.
Shutdown ==
    /\ service = "up" /\ service' = "stopping"
    /\ op' = [c \in Callers |-> IF c = "shutdown" THEN [Idle EXCEPT !.at = "wait"]
                               ELSE IF c \in Starters THEN Idle ELSE op[c]]
    /\ lock' = None
    /\ \/ UNCHANGED workers
       \/ (\E c \in Starters : op[c].at = "reap") /\ workers' = Without(Reaped)
    /\ UNCHANGED <<creds, address, token, listener, accepts, report, checks, spawned, crashes>>

Gone == /\ service' = "down" /\ address' = FALSE /\ token' = None /\ lock' = None
        /\ listener' = None /\ accepts' = FALSE /\ checks' = 0
        /\ op' = [c \in Callers |-> Idle]
        /\ UNCHANGED <<creds, workers, report, spawned>>
Stopped == service = "stopping" /\ op["shutdown"].at = "idle" /\ Gone /\ UNCHANGED crashes
\* The worker outlives the service.
Crash == service # "down" /\ crashes < MaxCrashes /\ Gone /\ crashes' = crashes + 1

-----------------------------------------------------------------------------
(* The workers (feishu_ws_worker.py).                                      *)

\* Its state, and every five seconds a heartbeat.
Reports(w, state) ==
    /\ Running(w) /\ report' = [worker |-> w, state |-> state, fresh |-> TRUE]
    /\ UNCHANGED <<service, creds, address, token, lock, op, listener, accepts, workers, checks, spawned, crashes>>

\* Twenty seconds without a heartbeat.
GoesStale == /\ report # None /\ report.fresh /\ report' = [report EXCEPT !.fresh = FALSE]
             /\ UNCHANGED <<service, creds, address, token, lock, op, listener, accepts, workers, checks, spawned, crashes>>

Dies(w) == /\ Running(w) /\ workers' = Without({w})
           /\ UNCHANGED <<service, creds, address, token, lock, op, listener, accepts, report, checks, spawned, crashes>>

Next ==
    \/ \E c \in Starters \cup {"shutdown"} : Acquire(c) \/ Terminated(c)
    \/ \E c \in Starters \cup {"send"} : TokenArrives(c) \/ TokenRefused(c)
    \/ \E c \in Starters : Reap(c) \/ Spawn(c) \/ SpawnFails(c) \/ Settle(c)
    \/ Send \/ TokenDropped \/ SaveSettings \/ Check \/ Begin \/ Shutdown \/ Stopped \/ Crash
    \/ \E w \in DOMAIN workers : Dies(w) \/ \E s \in {"connected", "callback_error"} : Reports(w, s)
    \/ GoesStale

Spec == Init /\ [][Next]_vars

-----------------------------------------------------------------------------
(* Two workers never consume the events of one workspace, whatever service *)
(* died, was stopped in the middle of a start or left a worker behind: "a  *)
(* launcher crash or forced restart can orphan the SDK's blocking worker". *)
OneWorker == Cardinality(DOMAIN workers) <= 1

(* When no restart is under way or waiting the worker the bridge holds has *)
(* the credentials of the last save, however the save met other restarts;  *)
(* and the callback accepts the events of a worker the bridge holds.       *)
WorkerIsCurrent ==
    listener # None /\ Running(listener) =>
        /\ accepts
        /\ (service = "up" /\ \A c \in Starters : op[c].at = "idle") => workers[listener] = creds

(* Refuted: the cached tenant token is of the credentials of now.          *)
TokenIsCurrent == token # None => token = creds

(* Refuted: "If an old worker survives a forced launcher restart for a few *)
(* seconds, it can still hand the event to the new service instead of      *)
(* losing it with a 403."                                                  *)
OldWorkerDelivers == service = "up" /\ Configured /\ DOMAIN workers # {} => accepts
=============================================================================
