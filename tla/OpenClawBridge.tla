--------------------------- MODULE OpenClawBridge ---------------------------
(***************************************************************************)
(* The bridge to the OpenClaw Gateway (openclaw_bridge.py): one child      *)
(* Gateway started on demand and stopped at shutdown, one that somebody    *)
(* else started and that is only used, the command line children of single *)
(* calls, the redacted log of the Gateway, and the credentials that older  *)
(* versions left in OpenClaw's JSON files.                                 *)
(*                                                                         *)
(* The calls are coroutines; the settings save and the migration run       *)
(* without an await, so that no call moves inside them, but the thread     *)
(* that pumps the log does, and so does a crash.                           *)
(***************************************************************************)
EXTENDS Naturals, FiniteSets

CONSTANTS
    Calls,     \* tool calls and requests that use the bridge
    Keys,      \* provider credentials
    Files,     \* the managed JSON files; Root is openclaw.json
    Root,
    FreshLog,  \* no Gateway ever ran on this state directory
    ReadFails, \* openclaw.json may be unreadable for a moment
    MaxPolls,  \* polls of a starting Gateway, 30 in the code
    MaxChanges, \* settings saves, edits of the files, Elren's crashes (model checking only)
    None

VARIABLES
    bridge,  \* the attributes of OpenClawBridge
    own,     \* the child Gateway: state, the key in its environment
    other,   \* a Gateway that the bridge did not start has the port
    log,     \* gateway-startup.log: the keys in it
    pump,    \* the log thread: the line it has read, whether its file is the log
    token,   \* the Gateway's token in .env and in its vault, the address it goes with
    vault,   \* the two fields of ProviderSecrets
    files,
    loop,    \* what runs without an await
    calls,
    changes,
    kept     \* history: the key that the files or the vault must still have

gateway == <<own, other, log, pump>>
store == <<token, vault, files, kept>>
vars == <<bridge, gateway, store, loop, calls, changes>>

Idle == [at |-> "idle", kind |-> "gateway", child |-> FALSE, message |-> FALSE, polls |-> 0]
NoProcess == [state |-> "none", key |-> None]
NoPump == [on |-> FALSE, line |-> None, attached |-> FALSE]
Unlocked == None
Down == [up |-> FALSE, key |-> None, history |-> {}, ownership |-> "none", lastReady |-> FALSE,
         lock |-> Unlocked, cached |-> FALSE]

Alive == own.state \in {"starting", "listening"}
Answers == other \/ own.state = "listening"
FaultKnown == {bridge.key} \ {None}
Known == bridge.history \cup ({bridge.key} \ {None})

TypeOK ==
    /\ bridge.key \in Keys \cup {None} /\ bridge.history \subseteq Keys
    /\ bridge.ownership \in {"none", "owned", "adopted_existing"} /\ bridge.lock \in Calls \cup {Unlocked}
    /\ own.state \in {"none", "starting", "listening", "dead"} /\ own.key \in Keys \cup {None}
    /\ log.keys \subseteq Keys /\ pump.line \in Keys \cup {None} /\ files \in [Files -> Keys \cup {None}]
    /\ loop.at \in {"free", "cleared", "token", "env", "policy", "parse", "vault", "scrub", "skills", "stopping"}
    /\ \A c \in Calls : calls[c].at \in {"idle", "lock", "probe", "wait", "run"} /\ calls[c].polls \in 0..MaxPolls

Init ==
    /\ bridge = Down /\ own = NoProcess /\ pump = NoPump /\ other \in BOOLEAN
    /\ log = [exists |-> ~FreshLog, keys |-> {}]
    /\ files \in [Files -> Keys \cup {None}]
    /\ token \in [env : BOOLEAN, vault : {FALSE}, url : {None}]
    /\ vault \in [own : {None}, primary : Keys \cup {None}]
    /\ kept = {files[f] : f \in Files} \ {None}
    /\ loop = [at |-> "free", starting |-> FALSE, parsed |-> <<>>]
    /\ calls = [c \in Calls |-> Idle] /\ changes = 0

Free == bridge.up /\ loop.at = "free"
Changes == changes < MaxChanges /\ changes' = changes + 1

-----------------------------------------------------------------------------
(* The log.  Redacted is every key that a child of the bridge was given;   *)
(* the history only grows when the log or the output of a child is         *)
(* redacted.                                                               *)

\* _sanitize_gateway_log returns early without a log; a rewritten log is a
\* new file, and the thread goes on writing to the one it has open.
Sanitized ==
    IF log.exists THEN log.keys \ Known ELSE log.keys
Learned == IF log.exists THEN Known ELSE bridge.history
Attached == pump.attached /\ (log.exists => log.keys \cap Known = {})

GatewayPrints ==
    /\ Alive /\ pump.on /\ pump.line = None /\ own.key # None
    /\ pump' = [pump EXCEPT !.line = own.key]
    /\ UNCHANGED <<bridge, own, other, log, store, loop, calls, changes>>

\* Between clear() and update() of a rollback the attributes are missing: the
\* thread ends with an AttributeError and closes the pipe.
PumpWrites ==
    /\ pump.line # None
    /\ IF loop.at = "cleared"
       THEN pump' = NoPump /\ UNCHANGED <<bridge, log>>
       ELSE /\ pump' = [pump EXCEPT !.line = None]
            /\ bridge' = [bridge EXCEPT !.history = Known]
            /\ log' = IF pump.attached THEN [log EXCEPT !.keys = @ \cup ({pump.line} \ Known)] ELSE log
    /\ UNCHANGED <<own, other, store, loop, calls, changes>>

PumpEnds ==
    /\ pump.on /\ ~Alive /\ pump.line = None
    /\ pump' = NoPump
    /\ UNCHANGED <<bridge, own, other, log, store, loop, calls, changes>>

-----------------------------------------------------------------------------
(* The Gateway process and the other one (external).                       *)

GatewayListens ==
    /\ own.state = "starting" /\ ~other /\ own' = [own EXCEPT !.state = "listening"]
    /\ UNCHANGED <<bridge, other, log, pump, store, loop, calls, changes>>
GatewayDies ==
    /\ Alive /\ Changes /\ own' = [own EXCEPT !.state = "dead"]
    /\ UNCHANGED <<bridge, other, log, pump, store, loop, calls>>
OtherChanges ==
    /\ Changes /\ (~other => own.state # "listening") /\ other' = ~other
    /\ UNCHANGED <<bridge, own, log, pump, store, loop, calls>>

-----------------------------------------------------------------------------
(* ensure_ready.                                                           *)

At(c, at) == Free /\ calls[c].at = at
Go(c, at) == calls' = [calls EXCEPT ![c].at = at]
Ends(c) == calls' = [calls EXCEPT ![c] = Idle]
FaultOwner == "adopted_existing"
Owner == IF Alive THEN "owned" ELSE "adopted_existing"

\* A catalog younger than a minute is answered from the cache.
Call(c, kind) ==
    /\ At(c, "idle")
    /\ IF kind = "agent"
       THEN /\ calls' = [calls EXCEPT ![c] = [@ EXCEPT !.at = "run", !.kind = kind,
                                               !.child = TRUE, !.message = TRUE]]
            /\ bridge' = [bridge EXCEPT !.history = Known]
       ELSE /\ ~(kind = "catalog" /\ bridge.cached) /\ UNCHANGED bridge
            /\ calls' = [calls EXCEPT ![c] = [@ EXCEPT !.at = "lock", !.kind = kind]]
    /\ UNCHANGED <<gateway, store, loop, changes>>

Lock(c) ==
    /\ At(c, "lock") /\ bridge.lock = Unlocked
    /\ bridge' = [bridge EXCEPT !.lock = c] /\ Go(c, "probe")
    /\ UNCHANGED <<gateway, store, loop, changes>>

\* The child of a catalog call is given the key; its output is redacted.
Ready(c, ownership) ==
    /\ bridge' = [bridge EXCEPT !.lock = Unlocked, !.ownership = ownership, !.lastReady = TRUE,
                                !.history = IF calls[c].kind = "catalog" THEN Known ELSE @]
    /\ calls' = [calls EXCEPT ![c] = [@ EXCEPT !.at = "run", !.child = (calls[c].kind = "catalog")]]
    /\ UNCHANGED <<gateway, store, loop, changes>>
Fails(c) ==
    /\ bridge' = [bridge EXCEPT !.lock = Unlocked, !.lastReady = FALSE] /\ Ends(c)

\* _start_gateway: nothing while the child lives.
StartGateway(c) ==
    IF Alive
    THEN bridge' = [bridge EXCEPT !.lastReady = FALSE] /\ UNCHANGED <<own, pump, log>>
    ELSE /\ bridge' = [bridge EXCEPT !.lastReady = FALSE, !.history = Learned, !.ownership = "owned"]
         /\ own' = [state |-> "starting", key |-> bridge.key]
         /\ pump' = [on |-> TRUE, line |-> None, attached |-> TRUE]
         /\ log' = [exists |-> TRUE, keys |-> Sanitized]

Probe(c) ==
    /\ At(c, "probe")
    /\ IF Answers
       THEN Ready(c, Owner)
       ELSE /\ StartGateway(c) /\ calls' = [calls EXCEPT ![c].at = "wait", ![c].polls = 0]
            /\ UNCHANGED <<other, store, loop, changes>>

\* A dead child ends the wait; so does the last poll.
Poll(c) ==
    /\ At(c, "wait")
    /\ IF Answers
       THEN Ready(c, "owned")
       ELSE /\ IF calls[c].polls = MaxPolls \/ ~Alive
               THEN Fails(c)
               ELSE /\ calls' = [calls EXCEPT ![c].polls = @ + 1]
                    /\ bridge' = [bridge EXCEPT !.lastReady = FALSE]
            /\ UNCHANGED <<gateway, store, loop, changes>>

\* The answer, an error or the timeout of the child, which is killed.
Returns(c) ==
    /\ At(c, "run") /\ Ends(c)
    /\ bridge' = [bridge EXCEPT !.cached = @ \/ calls[c].kind = "catalog"]
    /\ UNCHANGED <<gateway, store, loop, changes>>

FaultReaped(c) == [Idle EXCEPT !.child = calls[c].child]
\* _communicate_process kills the child, a finally removes the message file.
Reaped(c) == Idle

Cancelled(c) ==
    /\ Free /\ calls[c].at # "idle"
    /\ calls' = [calls EXCEPT ![c] = Reaped(c)]
    /\ bridge' = [bridge EXCEPT !.lock = IF @ = c THEN Unlocked ELSE @]
    /\ UNCHANGED <<gateway, store, loop, changes>>

\* status: with a probe of /healthz, or from what was seen last.
Status(probe) ==
    /\ Free
    /\ LET ready == IF probe THEN Answers ELSE bridge.lastReady \/ Alive
       IN bridge' = [bridge EXCEPT !.lastReady = IF probe THEN Answers ELSE @,
                                   !.ownership = IF ready THEN Owner ELSE @]
    /\ UNCHANGED <<gateway, store, loop, calls, changes>>

CacheExpires ==
    /\ Free /\ bridge.cached /\ bridge' = [bridge EXCEPT !.cached = FALSE]
    /\ UNCHANGED <<gateway, store, loop, calls, changes>>

-----------------------------------------------------------------------------
(* Shutdown: every caller has ended or been cancelled before.              *)

StopBegins ==
    /\ Free /\ \A c \in Calls : calls[c].at = "idle"
    /\ loop' = [loop EXCEPT !.at = "stopping"]
    /\ own' = IF Alive /\ bridge.ownership = "owned" THEN [own EXCEPT !.state = "dead"] ELSE own
    /\ UNCHANGED <<bridge, other, log, pump, store, calls, changes>>
StopEnds ==
    /\ loop.at = "stopping" /\ (pump.on => Alive)
    /\ bridge' = Down /\ loop' = [loop EXCEPT !.at = "free"]
    /\ own' = IF Alive THEN own ELSE NoProcess
    /\ pump' = NoPump
    /\ UNCHANGED <<other, log, store, calls, changes>>

\* A Gateway may outlive an Elren that dies; it keeps the port.
Crash ==
    /\ bridge.up /\ Changes
    /\ bridge' = Down /\ loop' = [at |-> "free", starting |-> FALSE, parsed |-> <<>>]
    /\ own' = NoProcess /\ pump' = NoPump
    /\ other' \in {other, other \/ own.state = "listening"}
    /\ calls' = [c \in Calls |-> [Idle EXCEPT !.message = calls[c].message]]
    /\ UNCHANGED <<log, store>>

-----------------------------------------------------------------------------
(* The start, the settings save and the migration of credentials.          *)

RuntimeKey == IF vault.own # None THEN vault.own ELSE vault.primary
Continue(at) == loop' = [loop EXCEPT !.at = at]

\* The default address is taken as it is only with a configured token.
IsolatedUrl == IF token.env THEN "default" ELSE "isolated"

\* The constructor removes stale message files and redacts the old log.
Start ==
    /\ ~bridge.up /\ own = NoProcess
    /\ LET key == RuntimeKey
           new == [Down EXCEPT !.up = TRUE, !.key = key]
           redacts == {key} \ {None}
       IN /\ bridge' = [new EXCEPT !.history = IF log.exists THEN redacts ELSE {}]
          /\ log' = [log EXCEPT !.keys = IF log.exists THEN @ \ redacts ELSE @]
    /\ calls' = [c \in Calls |-> Idle]
    /\ loop' = [at |-> "token", starting |-> TRUE, parsed |-> <<>>]
    /\ token' = [token EXCEPT !.url = IsolatedUrl]
    /\ UNCHANGED <<own, other, pump, vault, files, kept, changes>>

\* _resolve_gateway_token: the configured one or the stored one or a new one, in
\* the vault first; then the copy in .env is blanked.
StoreToken ==
    /\ loop.at = "token" /\ Continue("env") /\ token' = [token EXCEPT !.vault = TRUE]
    /\ UNCHANGED <<bridge, gateway, vault, files, kept, calls, changes>>
ScrubToken ==
    /\ loop.at = "env" /\ Continue("policy") /\ token' = [token EXCEPT !.env = FALSE]
    /\ UNCHANGED <<bridge, gateway, vault, files, kept, calls, changes>>

\* _update_config: what cannot be read or parsed is taken for an empty file.
UpdateConfig(from, to) ==
    /\ loop.at = from /\ Continue(to)
    /\ \/ UNCHANGED files
       \/ ReadFails /\ files' = [files EXCEPT ![Root] = None]
    /\ UNCHANGED <<bridge, gateway, token, vault, kept, calls, changes>>

\* _apply_settings_patch_body, the commit and then the activation.
SaveSettings(k) ==
    /\ Free /\ Changes
    /\ vault' = [vault EXCEPT !.primary = k]
    /\ bridge' = [bridge EXCEPT !.key = IF vault.own # None THEN vault.own ELSE k]
    /\ loop' = [at |-> "parse", starting |-> FALSE, parsed |-> <<>>]
    /\ UNCHANGED <<gateway, token, files, kept, calls>>
RollbackClears ==
    /\ Free /\ Changes /\ Continue("cleared")
    /\ UNCHANGED <<bridge, gateway, store, calls>>
RollbackRestores ==
    /\ loop.at = "cleared" /\ Continue("free")
    /\ UNCHANGED <<bridge, gateway, store, calls, changes>>

Parse ==
    /\ loop.at = "parse"
    /\ loop' = [loop EXCEPT !.at = "vault", !.parsed = files]
    /\ UNCHANGED <<bridge, gateway, store, calls, changes>>

\* An error ends the start, and is a warning after a settings save.
Raises ==
    /\ loop' = [at |-> "free", starting |-> FALSE, parsed |-> <<>>]
    /\ bridge' = IF loop.starting THEN Down ELSE bridge
Credentials == {loop.parsed[f] : f \in Files} \ {None}

FaultMayScrub == TRUE
\* Conflicting credentials stop the migration; the update of the vault is
\* verified before the first file is rewritten.
MayScrub == Cardinality(Credentials) <= 1
Vaulted ==
    /\ loop.at = "vault"
    /\ IF MayScrub
       THEN LET found == IF Credentials = {} THEN vault.own ELSE CHOOSE k \in Credentials : TRUE
            IN /\ vault' = [vault EXCEPT !.own = found]
               /\ kept' = IF Credentials = {} THEN kept ELSE Credentials
               /\ bridge' = [bridge EXCEPT !.key = IF found # None THEN found ELSE @]
               /\ Continue("scrub")
       ELSE Raises /\ UNCHANGED <<vault, kept>>
    /\ UNCHANGED <<gateway, token, files, calls, changes>>
VaultFails ==
    /\ loop.at = "vault" /\ Credentials # {} /\ Changes /\ Raises
    /\ UNCHANGED <<gateway, store, calls>>

Scrub(f) ==
    /\ loop.at = "scrub" /\ loop.parsed[f] # None
    /\ files' = [files EXCEPT ![f] = None] /\ loop' = [loop EXCEPT !.parsed[f] = None]
    /\ UNCHANGED <<bridge, gateway, token, vault, kept, calls, changes>>
\* Ends with _sanitize_gateway_log.
Scrubbed ==
    /\ loop.at = "scrub" /\ Credentials = {} /\ Continue("skills")
    /\ log' = [log EXCEPT !.keys = Sanitized]
    /\ pump' = [pump EXCEPT !.attached = Attached]
    /\ bridge' = [bridge EXCEPT !.history = Learned]
    /\ UNCHANGED <<own, other, store, calls, changes>>

\* The user puts a key into one of OpenClaw's files.
UserEdits(f, k) ==
    /\ loop.at = "free" /\ Changes /\ files[f] = None
    /\ files' = [files EXCEPT ![f] = k] /\ kept' = kept \cup {k}
    /\ UNCHANGED <<bridge, gateway, token, vault, loop, calls>>

Log == GatewayPrints \/ PumpWrites \/ PumpEnds
Process == GatewayListens \/ GatewayDies \/ OtherChanges
Work(c) ==
    \/ \E kind \in {"invoke", "catalog", "agent"} : Call(c, kind)
    \/ Lock(c) \/ Probe(c) \/ Poll(c) \/ Returns(c) \/ Cancelled(c)
Lifecycle == Start \/ StoreToken \/ ScrubToken \/ StopBegins \/ StopEnds \/ Crash \/ CacheExpires \/ \E b \in BOOLEAN : Status(b)
Settings == (\E k \in Keys : SaveSettings(k)) \/ RollbackClears \/ RollbackRestores
Migration ==
    \/ UpdateConfig("policy", "parse") \/ UpdateConfig("skills", "free")
    \/ Parse \/ Vaulted \/ VaultFails \/ Scrubbed
    \/ \E f \in Files : Scrub(f) \/ \E k \in Keys : UserEdits(f, k)

Next == Log \/ Process \/ (\E c \in Calls : Work(c)) \/ Lifecycle \/ Settings \/ Migration
Spec == Init /\ [][Next]_vars

-----------------------------------------------------------------------------
\* The Gateway that the bridge started is always one that stop() will stop, and a
\* stop leaves none behind (stop: "Stop only the Gateway process tree created by
\* this bridge instance").
OwnIsStopped ==
    /\ Alive => bridge.up /\ (loop.at # "stopping" => bridge.ownership = "owned")
    /\ loop.at = "stopping" => ~Alive

\* A call that is over has left no child process and no file with its prompt.
NothingLeft == bridge.up => \A c \in Calls : calls[c].at = "idle" => ~calls[c].child /\ ~calls[c].message

\* No line of the log has a key that a Gateway of this bridge was ever given.
LogIsRedacted == log.keys = {}

\* A key from OpenClaw's files is, at any moment and after any failure, still in
\* its file or already in the vault.
CredentialsMigrated == \A k \in kept : vault.own = k \/ \E f \in Files : files[f] = k

\* A configured token is never lost on its way from .env to the vault, and a
\* restart with nothing changed talks to the same Gateway as before.
SameGateway ==
    [][/\ token.env => token'.env \/ token'.vault
       /\ token.url # None => token'.url = token.url]_vars

\* A Gateway that runs has somebody who empties its pipe.
PumpRuns == Alive => pump.on
=============================================================================
