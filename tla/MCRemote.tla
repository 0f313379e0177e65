------------------------------ MODULE MCRemote ------------------------------
(***************************************************************************)
(* The clients of remote services: the model client with its failover, the *)
(* assembly of a streamed reply, and the poll loop of Telegram.  They      *)
(* share no state; a behaviour moves one of them, its subject.  The        *)
(* properties are those of the models, with their type invariants.         *)
(***************************************************************************)
EXTENDS ModelClient, TLC

CONSTANTS MaxTools, Pieces, Bots, Updates, Content(_), MaxAttempts, MaxRestarts, MaxTokens

VARIABLES
    subject,
    stream, sent, acc, phase, reply,
    bot, server, offset, poller, batch, attempts, notified, pending, flushing, taken, leaving,
    turns, tasks, doubtful, lost, ended

\* DeepSeek with two keys, a relay for GPT, a custom route for Claude, Gemini
\* and a local model.
MCProvider == ("ds" :> "deepseek") @@ ("gpt" :> "openai") @@ ("cl" :> "anthropic") @@ ("lo" :> "local") @@ ("gem" :> "google")
MCProtocol == ("ds" :> "chat") @@ ("gpt" :> "responses") @@ ("cl" :> "messages") @@ ("lo" :> "chat") @@ ("gem" :> "gemini")
MCScore == ("ds" :> 2) @@ ("gpt" :> 4) @@ ("cl" :> 3) @@ ("lo" :> 1) @@ ("gem" :> 5)

\* Two bots whose ids overlap; files that wait for the voice or text behind them.
MCUpdates == ("a" :> {1, 2}) @@ ("b" :> {1, 2})
MCContent(u) == IF u.bot = "a" THEN (IF u.id = 1 THEN "files" ELSE "voice")
              ELSE (IF u.id = 1 THEN "foreign" ELSE "text")

Stream == INSTANCE StreamAssembly WITH MaxCalls <- MaxTools, Cuts <- Pieces
Telegram == INSTANCE TelegramIngress WITH MaxChanges <- MaxTokens, used <- turns

ASSUME RemoteAssumption == Telegram!TelegramAssumption /\ Stream!StreamAssumption

assembly == <<stream, sent, acc, phase, reply>>
telegram == <<bot, server, offset, poller, batch, attempts, notified, pending, flushing, taken, leaving,
              turns, tasks, doubtful, lost, ended>>
allVars == <<subject, vars, assembly, telegram>>

NoStream == stream = None /\ sent = None /\ acc = None /\ phase = None /\ reply = None
\* A loop that is never started.
NoTelegram ==
    /\ bot = None /\ server = None /\ offset = None /\ poller = None /\ batch = None /\ attempts = None
    /\ notified = None /\ pending = None /\ flushing = None /\ taken = None /\ leaving = None
    /\ turns = None /\ tasks = None /\ doubtful = None /\ lost = None /\ ended = None

RemoteInit ==
    /\ Init
    /\ \/ subject = "models" /\ NoStream /\ NoTelegram
       \/ subject = "stream" /\ Stream!Init /\ bound["t"] = "ds" /\ NoTelegram
       \/ subject = "telegram" /\ Telegram!Init /\ bound["t"] = "ds" /\ NoStream
RemoteNext ==
    /\ UNCHANGED subject
    /\ \/ subject = "models" /\ Next /\ UNCHANGED <<assembly, telegram>>
       \/ subject = "stream" /\ Stream!Next /\ UNCHANGED <<vars, telegram>>
       \/ subject = "telegram" /\ Telegram!Next /\ UNCHANGED <<vars, assembly>>
\* No fair action of a component is enabled where another one is the subject.
Answering(t) == subject = "models" /\ Client(t)
Looping == subject = "telegram" /\ Telegram!Loop
Polling == subject = "telegram" /\ Telegram!GetUpdates
RemoteSpec == /\ RemoteInit /\ [][RemoteNext]_allVars
              /\ \A t \in Tasks : WF_vars(Answering(t))
              /\ WF_telegram(Looping) /\ SF_telegram(Polling)

\* However a stream is cut into events, the reply is what the model said.
AssembledIsSent == subject = "stream" => Stream!TypeOK /\ Stream!AssembledIsSent
\* An update becomes part of one task, unless the process ended or the token changed
\* before its offset was confirmed; and none is passed over unhandled, except files that
\* waited when the process ended or were taken by a text whose task could not be
\* created, and anything after a change of the token.
UpdatesAreKept == subject = "telegram" => Telegram!TypeOK /\ Telegram!OneTaskPerUpdate /\ Telegram!DeferredIsKept
\* A call of the model ends whatever providers answer, and an update that fails does
\* not block the ones behind it.
RequestsEnd == CallEnds /\ []<>(subject = "telegram" => Telegram!AllPassed)
=============================================================================
