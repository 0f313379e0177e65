# A verification project for Elren

Elren is a local AI agent: one Python process (`deepdesk/main.py`, FastAPI on one
event loop) that keeps conversations and their runs, schedules, settings and
credentials on disk, is reached from a browser, from Feishu and from Telegram, and
drives tools, child agents, the desktop, a gateway and a phone.  This directory holds
TLA+ models of the parts where several actors share state or where a crash can fall
between two writes, the TLC runs that check them, and machine-checked proofs (TLAPS)
about each of them: every invariant and every safety property of steps that the runs
check is also a theorem; only liveness is left to TLC alone.

## Contents

| file | what it is |
| --- | --- |
| `Scheduler.tla` | the schedules table and the actors that claim, fence, dispatch and acknowledge (`scheduler.py`) |
| `SchedulerProofs.tla` | proofs about `Scheduler`: all of its invariants and action properties |
| `AtomicSettings.tla` | abstract specification: settings change as one, and the answer says whether they did |
| `SettingsTransaction.tla` | the journal, file by file (`settings_transaction.py`, `main.py`); refines `AtomicSettings` |
| `SettingsProofs.tla` | proofs: the journal implements `AtomicSettings`, memory agrees with the disk |
| `TaskManager.tla` | conversations, workers, rows, deletion, restart and channel recovery (`engine.py`, `task_store.py`, `persistence_work.py`, `main.py`) |
| `TaskManagerProofs.tla` | proofs about `TaskManager`: all of its invariants and its action property |
| `AgentLoop.tla` | one run of the agent: team, tool loop, gates, host checks, compaction (`engine.py`) |
| `AgentLoopProofs.tla` | proofs about `AgentLoop`: all of its invariants and its action property |
| `ModelClient.tla` | keys, circuits and failover of the model client (`deepseek.py`) |
| `StreamAssembly.tla` | a streamed answer put together (`deepseek.py`) |
| `TelegramIngress.tla` | poll loop and admission of Telegram updates (`telegram.py`, `main.py`, `feishu_pending.py`) |
| `FeishuIngress.tla` | event reservations and admission of Feishu events (`main.py`, `feishu.py`, `feishu_pending.py`) |
| `FeishuListener.tla` | the long-connection worker and its supervisor (`feishu.py`, `feishu_ws_worker.py`, `main.py`) |
| `Subagents.tla` | the specialists of a task (`subagents.py`) |
| `MobileBridge.tla` | pairing, sockets and commands of the phone (`mobile_bridge.py`) |
| `LiveControl.tla` | sessions on the user's desktop (`live_computer_use.py`, `live_control_*.py`) |
| `ControlFiles.tla` | the guard of the control files (`control_files.py`) |
| `SecretStores.tla` | master key, vault, migration of plaintext credentials (`secret_storage.py`, `provider_secrets.py`, `runtime_settings.py`) |
| `TaskStoreUpgrade.tla` | the purge and migration passes of the task database (`task_store.py`) |
| `OpenClawBridge.tla` | the gateway process, its credentials and its log (`openclaw_bridge.py`) |
| `MediaGeneration.tla` | free media providers, jobs, cooldowns (`media_generation.py`) |
| `BackgroundBrowser.tla` | the isolated browser of each task (`background_browser.py`, `browser_downloads.py`) |
| `RemoteProofs.tla` | proofs about `ModelClient`, `StreamAssembly` and `TelegramIngress`: the invariants of `MCRemote` |
| `ServicesProofs.tla` | proofs about `FeishuIngress`, `FeishuListener`, `MobileBridge`, `MediaGeneration` and `BackgroundBrowser`: the invariants of `MCServices` |
| `BackgroundProofs.tla` | proofs about `LiveControl` and `Subagents`: the invariants of `MCBackground` |
| `FilesProofs.tla` | proofs about `ControlFiles`, `OpenClawBridge`, `TaskStoreUpgrade` and `SecretStores`: the invariants of `MCFiles` |
| `MC*.tla`, `MC*.cfg` | the instances for TLC |
| `PROJECT.json` | components, runs, mutants, the map from definitions to source lines, findings, hazards, theorems |

To run: `tlc -config MCScheduler.cfg MCScheduler` (likewise for every cfg, with the
module that `PROJECT.json` names) and `tlapm SchedulerProofs.tla`.

In the modules, a definition whose name begins with `Fault` is a mutated form of the
definition behind it: the bug that a property is there to catch.  No action uses it.

## Inventory

The parts that keep state, what makes them hard, and when they are correct; each has a
section below.

| part | state | hard | correct when |
| --- | --- | --- | --- |
| Scheduler | SQLite table shared by processes; a worker thread per tick | leases judged with stale clocks, a crash between creating work and recording it | work is started once per due time unless a person asks, nothing blocks silently |
| Settings transaction | three files, a receipt, live objects | a crash or an ambiguous failure between any two file operations | the surviving settings are old or new, and the answer says which |
| Task manager and store | table, tombstones, object cache, a worker, event and queue per conversation, the mutation lock | cancellation at every await, late snapshots, recovery after a restart | one run per conversation, outcomes and instructions in the table, deleted stays deleted |
| Agent run | conversation, gates, counters of recoveries, follow-up queue | host retries, compaction and follow-ups rewrite the same conversation; a stop at every await | the conversation stays well formed, nothing runs without approval or after the stop, the run ends |
| Model client | keys, remembered key, circuits, bound route, provider state | settings change and other tasks call while a request is under way | a call fails only when all is exhausted, and no state of one provider goes to another |
| Channels (Feishu, Telegram) | reservations, remembered ids, offset, queue of attachments, listener process | redelivery, lapsed leases, timers, restarts, new credentials | every event becomes part of one task; one listener with the credentials of now |
| Specialists | runs, semaphore, shared event | a stop while they are announced, queued or reporting | none outlives its call |
| Phone | keys and records in two files, sockets, pending commands | reconnection, timeout, failing writes | a waiting call can be woken, the files say what was answered |
| Desktop session | current session, stop event, action lock, kernel lease | Esc, expiry, banner and cancellation race with an input | no late input, the lease comes back |
| Control file guard | baseline, its file, lease, protected files | tools write at any time; watchdog, saves and calls write the baseline | what tools change is undone, never trusted |
| Credentials | keychain, vault, three plaintext sources | crash or failing write at each step of a migration | none lost, none sent elsewhere, none left in plaintext |
| Task database passes | rows, free pages, markers | crash between passes, other programs | a marker is true |
| Gateway | child process, log pump, token files, `.env` | starts, polls, stops and settings overlap | stopped with its owner, log without keys |
| Media | cooldowns, catalog, jobs in threads | prices and credentials change while calls wait | only free services, and all of them before giving up |
| Background browser | shared driver, a browser and downloads per task | calls and cleanups wait for the guard's lock; a stop at every await; a cleanup gives up after its timeout | an ended task leaves nothing that its cleanup reached |

*Interactions.*  The scheduler's dispatcher calls `TaskManager.create_async` on the event
loop; the routes and both channels call create, continue, steer, cancel, rename and
delete; `AgentEngine.run` (`AgentLoop`) calls the model client, the tools, the gates
and `delegate`, and emits its events through the manager; the settings route rewrites
the objects that engine, channels, media and model client read; the control guard
checks before and after each tool call and shares the preferences file with the
settings; shutdown stops channels, scheduler, timers and workers in this order.  The
contracts at these seams appear in the models as outcomes: a launch that fails, a
write that fails, a tool that returns or not, new keys at any time.

## Scheduler

*State.*  `row` is the table (one record per schedule with the columns that decide
anything); `op[a]` is the worker thread `a`: where it is in `run_due`, `_dispatch` or a
request, its clock reading `now`, the row it has read (`snap`), its claim token and
whether it was told to stop.  `clock` is the wall clock; an actor reads it once, when it
starts.  `open`, `waived` and `lastDue` are history.

*Actions.*  One per transaction: `Create`, `Edit`, `Skip`, `Retry`, `RetryManual`,
`Refresh`, `RunNow`, `Delete`; `StartTick`, `ClaimNextDue` (both sweeping UPDATEs,
the selection and the claim, as in the code's one transaction); `Release`, `Fence`,
`CallDispatch`, `Acknowledged`, `DispatchFails`, `Settle`; `Cancel` (Stop) and `Crash`
at every point.  A refused request is `Refused`.

*Abstractions.*  Texts, policies and profiles are left out.  A cron expression and a
daily schedule are grids of one `Period`; daylight saving and cron sets are not
modelled.  The limit of 100 rows per tick only ends a tick early.  `Crash` also stands
for a failing database write, since nothing of the operation survives it.

*Checked* (`scheduler`: one row, two actors, an interval and a one-shot with an end,
lease 2, period 2, clock to 3, three claims; 1.2 million states).
`RowsAgree`, `OpenCallIsFenced`, `NoUnapprovedOverlap`, `NextAfterLastDue`,
`FenceLiftedByOwnerOrUser`, `OneShotNotLost`.  `RowsAgree` relates the columns that
several transactions write one after another: an armed row has a due time (a tick never
selects one without, and nothing would report it), `claim_token` and `claim_until` are
NULL together, a fence names its claim.  Two actors suffice for an owner and a
rival; a third claim lets both and a user's retry meet; the clock passes a lease, a due
time and an end.  One row is enough for these: rows do not interact except in the order
of a tick.

*Live* (`scheduler_live`: one actor, all four kinds of timetable).
`AbandonedFenceSurfaces` and `DueIsTaken`.  Fairness: `_loop` starts a tick every
second and survives every exception (`scheduler.py:921-928`), a worker thread that runs
goes on running (WF on its next step), and an application that is stopped or crashes
again and again is started again and completes some tick (SF on `StartTick` and on an
uncancelled `ClaimNextDue`).  Nothing is assumed of users, of the dispatcher's answer
or of crashes.  `DueIsTaken` says "or the claims are used up" because of the bound.

*Proved* (`SchedulerProofs.tla`, for every finite or infinite set of schedules, actors and
timetables, every lease, period, delay and bound, from the ASSUMEs of `Scheduler`):
`TypeCorrect`, `ColumnsAgree` (`RowsAgree`; its invariant `Agreed` adds that the row an
actor has read arms soundly, since the acknowledgement computes the plan from it),
`AtMostOneOutcome` (`OpenCallIsFenced`), `NoOverlap`
(`NoUnapprovedOverlap`), `DueOnce` (`NextAfterLastDue`), `FenceLifting`
(`FenceLiftedByOwnerOrUser`) and `OneShotKept` (`OneShotNotLost`).  `OpenCallIsFenced` is not inductive: it says nothing of the
actor that is about to create work.  The invariant `IInv` adds what each phase of an operation has in hand (`OpTyped`: a
schedule, a row it read), that every token in use
has been drawn (`TokensIssued`), that no two actors hold the same one
(`TokensDistinct`), and that an actor between fence and acknowledgement whose token was
not waived finds its own token on a fenced row (`CallerIsFenced`).  The proof groups
steps by their effect on fences: `QuietStep` (no fence changes), `VacatedStep` (a fence
is lifted by its owner or a user), `FreshClaim` (a new token on an unfenced row), and
then goes action by action.  Note what the proof does not use: no relation between
clocks, so the fence, not the lease, carries the guarantee.

`NextAfterLastDue` needs a second invariant on top, `DueInv`: the due time a row will
take next, and the one its claimant has read or is about to write while it still owns
the row, lie after the last one that was taken (`RowAhead`, `ClaimAhead`).  The
arithmetic it rests on is a lemma of its own (`PeriodsBeyond`: one period more than fit
into a span is longer than the span).  The two action properties follow from `IInv`
action by action.

*Only model-checked*: the liveness properties.

## Settings transaction

*State.*  `file` and `receipt` are the disk, by generation instead of content; `live` is
memory; `pc`, `mode` and `left` say where the process is; `before` is
`self.snapshot`.  `stray` is history: a target whose update outside a request failed or
met a pending receipt, for which memory and disk are allowed to differ.

*Actions.*  One per file operation, which succeeds, fails before or fails after its
replacement (`Fail(n)` counts n failing operations); `Start`, `Recover`, `Restore`,
`Unlink`, `Ask`, `Snapshot`, `WriteReceipt`, `Body`, `Commit`, `Rollback`, `Learn` (a
Feishu event) and `Crash`.  The order of the files in a loop is left open.  Loading a
store at start copies the file to memory; activations after the commit are left out.

*Checked* (`settings`: three targets, up to two failures per request or start, three
generations; 55 thousand states).  `AllOrNothing`: the journal implements
`AtomicSettings` with "the settings that survive a restart" as refinement mapping: the
before-images while the receipt is pending, the files otherwise.  `LiveIsDurable`:
between requests, memory is what a restart would load.  Two failures are what the code
is written for (an operation and the one that resolves it); with three, see Findings.
Three generations let a request follow a failed one whose receipt is still pending.

*Proved* (`SettingsProofs.tla`, for every finite set of targets, every number of
generations and faults): `Refinement` (`AllOrNothing`), initial states to initial states
and each step to a step of `AtomicSettings` or a stutter.  `IInv` says in every phase
what the step may rely on: which targets may differ from the before-images (`Served`),
and whether the receipt is pending, gone or committed (`Journal`) for the request, start
or recovery under way (`Phases`).  `MemoryAgrees` (`LiveIsDurable`) has the hypothesis
`MaxFaults <= 2`, for the reason above: the third failure leaves a committed receipt
behind an answer that says "not committed" (`NotCommitted`), and then memory and disk
differ.  Its invariant `Memory` adds that memory is, target by target, what the request
wants where it was rewritten and what it was elsewhere.

## Task manager

*State.*  `rows` and `fence` are `TaskStore`; `heap` holds the task objects of the
process, since the code compares identities (`is not task`), each with the place of its
worker; `tasks` and `background` are the registries; `writing` is the mutation lock with
the snapshot its holder writes; `calls` are requests that have read their task and
wait; `listed` and `recovering` are the channel recovery.  The cancel event and the
steering queue of a conversation enter and leave with `background` and live in the
worker's object (`stop`, `queue`); `hit` is a `CancelledError` that is due at the next await.

*Actions.*  `Begin` takes the lock and the snapshot, `Commit` is the transaction in the
thread, `Publish` the synchronous publication, `WriteFails` the failed transaction with
where the exception goes.  The worker: `StartRun`, `SetStatus`, `Drain`, `Answer`,
`Raise`, `Emit`, `Close`, `Interrupt` (a cancellation, by the handler around the place
where it lands: the engine's or `managed_run`'s).  Requests: `Create`, `Load`, `Cancel`,
`AskContinue`/`Continue`, `AskDelete`/`Delete`, `Steer`, `Rename`; then `Restart`,
`List`, `TakeUp`, `Resume`, `Mark`, `Shutdown`.  A write that began is finished and
published before its owner sees its cancellation, as `run_owned_commit` does.  `Rename`
writes a conversation that is in the cache or, as `rename_async` does, one it reads from
the table.  `heirs` is history: the parent that the committed rows of a conversation
named.

*Abstractions.*  The model loop is one nondeterministic choice here (`AgentLoop` has it); event contents, titles,
attachments and results are left out; a follow-up is a number; approval and human
action are statuses.  The branch for an engine that returns without a terminal status
is left out because the modelled engine always sets one.  The audit write inside the
handlers does not fail.

*Checked.*  `turns`: one conversation, four objects, two follow-ups or new titles, one
failing write, a shutdown and its timeout, two waiting requests, both gates (300 thousand
states): `OneRunPerConversation`, `OutcomeIsDurable`, `InstructionsKept`.  Four objects
allow a run, its continuation, and a reload between them.  `restart`: two channel
conversations (one started by a user, one by the recovery), three objects per process,
one follow-up or new title, one crash at any point, cache of one row (1 million states):
`DeletedStaysDeleted`, `HeirBeforeMark`, `OutcomeNotUndone`.  The small cache stands for
the hundred newest rows, others of which may be newer than these two.  The two
conversations are symmetric.

*Proved* (`TaskManagerProofs.tla`, for every finite set of conversations and any number of
objects, follow-ups, faults, stops, requests and restarts): all five invariants and the
action property.  None of them is inductive.  `IInv` has the parts: who refers to whom
(`Registered`: a worker that is alive is the one its conversation has registered), ids are
handed out once (`Known`), a deleted conversation is fenced or unknown to the process
(`Buried`), the holder of the mutation lock and the snapshot it prepared (`Locked`,
`Prepared`), what a shutdown has already ended (`Stopping`), a committed write is in the
table until it is published (`Saved`), memory and table agree as far as the lock allows
(`Agreed`), what the recovery read is still there unless it was taken over (`Listed`), and
every row marked as recovered has an heir (`Marked`).  The argument for a late snapshot
is `Prepared`: the lock is held from the snapshot to the publication, so what is written
carries every follow-up and outcome that memory or the table has.  `OutcomeIsDurable` does
not speak of a cancelled run whose last handler (`managed_run`) was itself broken off;
the theorem `Halting` (invariant `Halted`) shows that this takes a failing write or the
second round of shutdown, and `StopIsDurable` is the finding.  `HeirBeforeMark` follows an
heir by `heirs`: it is in the table with the marked row as its parent, or was committed so
and deleted since.

## How the runs are composed

The number of components is larger than the number of runs, so four runs check several
models each: `MCRemote` (model client, stream, Telegram), `MCFiles` (control files,
credentials, task database, gateway), `MCServices` (Feishu events, Feishu listener,
phone, media, browser) and `MCBackground` (specialists, desktop, control files under
fairness).  These components share no variable in the code, so nothing is lost by
moving one at a time: a behaviour chooses its `subject` at the start, only the subject
takes steps, and the variables of the others hold a dummy value (in `MCBackground`
their initial values, so that the fairness formulas of all three can be conjoined: no
fair action is enabled in a component that has not begun to move).  A property of a
composite is `subject = "..." => Model!Property`, or a conjunction of such, and
includes the model's type invariant.  The state counts are sums over the subjects.
`MCServices` extends `FeishuIngress`, `MCBackground` extends `LiveControl` and `MCFiles`
extends `ControlFiles`, whose properties they check under their own names (a component
at rest satisfies them); the other components are instances.

What really couples components is in one model: follow-ups and stops with the worker
(`AgentLoop`, `TaskManager`), attachments with the event reservations
(`FeishuIngress`) and with the poll offset (`TelegramIngress`), the settings journal
with the guard's baseline (`ControlFiles` has the receipt and the shared preferences
file), the log pump with the settings rollback (`OpenClawBridge`).

Deadlock is checked in `settings` only.  Elsewhere the system may rest: nobody has to
send a message, and the counters of users and faults are bounded.

## Agent run

*State* (`AgentLoop`).  `messages` is the conversation sent to the provider, by role
and by what a message refers to; `batch` the calls of the last reply without a result;
`queue` the follow-ups that wait, `ledger` those the cumulative ledger still retells and
`archives` those each archive file of a compaction holds; `tries` and `overflow` the counters of
the host's recoveries; `gate` the one entry a run can have in `ApprovalGate` or
`HumanActionGate`; `advice` the members of a team; `stop` an accepted Stop.  `log`,
`granted` and `applied` are history: tools that ran or were denied, calls a person
approved, follow-ups that were taken.

*Actions.*  The engine is one coroutine on one loop, so others act only where it
awaits: a value of `pc` is such a place and a worker action is the code from one await
to the next.  `Setup`, the team (`Propose`, `AskMember`, `Advise`, `Decide`),
`LoopHead` (drain, compaction), the provider's answers (`Overflow`, `ProviderFails`,
`EmptyReply`, `BrokenContract`, `MissingArtifact`, `MissingPreview`, `BadSlides`,
`Accept`), `Retry`, the tools (`HostAnswers`, `StartTool`, `AskApproval`, `OfferHuman`,
`RegisterHuman`, `ApprovalDecided`, `HumanDecided`, `ToolReturns`, `BatchDone`), the
end (`Complete`, `Close`, `ReportFailure`, `Interrupted`, `Cleanup`), and the user
(`Steer`, `DecideApproval`, `TakeOver`, `CompleteHuman`, `Stop`).

*Compaction* (`Compact`).  The conversation goes to a new archive file (`ArchiveFails` is
that write failing, which ends the run), its follow-ups into the ledger, and one
checkpoint takes its place.  The ledger keeps its last 400 entries, and the checkpoint
tells the newest that fit its size: both depend on the number and the length of all
entries, which are not modelled, so `Compact` cuts the ledger and what is told of it
anywhere.  What the checkpoint does keep is the list of all archives.
`FollowUpsKept` is stated of that: a follow-up is in the conversation or in an archive that
the conversation names; whether the model opens the file is its own affair, and what
redaction takes out of it is not modelled.  That the ledger itself does not keep them, as its
heading says, is the finding `LedgerIsCumulative`.

*Approval and preview.*  `Required` has both reasons: the policy against the risk of the
call, and `mandatory_dispatch_resolution`, the cron update that settles an interrupted
dispatch (`resolve`), which is asked for under any policy.  A `preview` only looks (safe);
a `visit` acts on the page (click, fill, drag: moderate), so it can be denied.  A call of
the browser ends with the page asked for (`shown`), another page (`ok`, which changes
nothing) or an error; an error and a denial both set `background_preview_failed`, and both
let a run complete without a preview.  `PreviewedAfterLastChange` says so; that the event of
such a completion claims that the browser was tried is the finding
`PreviewFailureWasTried`.

*Checked* (`agent_loop`; 870 thousand states).  Six tasks, one for each feature: a
planner with invalid calls, approvals with a json contract, slides with a declared
file, a cautious web page with its preview, the settling of a dispatch in a short phone
task with a follow-up, a team with delegation.  Attempts are 1 and 2
instead of 2 and 6 so that each budget runs out; two tool turns and one compaction
let every retry meet a compaction.  `ToolResultsComplete`, `FollowUpsKept`,
`ExecutedOnlyIfAllowed`, `PreviewedAfterLastChange`, `StopEndsSideEffects`, and
`RunEnds` under weak fairness of the worker: the loop schedules it, and provider and
tools answer or time out; nobody has to answer a gate, so a run may wait there.

*Proved* (`AgentLoopProofs.tla`, for every set of tasks, every budget, every sequence of
calls and conversations of any length): `ToolResults`, `FollowUps`, `Allowed`, `Preview`
and `StopTheorem` (`StopEndsSideEffects`), with `TypeCorrect`.  `ToolResultsComplete` speaks of requests only; the
invariant says what the conversation is at every other await.  Between requests it is
`Conversing` (a system prompt first, and each reply followed by exactly its results);
while calls are taken it is `Calling` (all before the last reply is paired, the results
after it answer a prefix of its calls, `batch` is the rest).  The lemmas show that
`Append`, the follow-ups of a queue, a popped reply and a compaction keep the one, and a
result the other, until an empty batch turns the second into the first.  A popped
message must be a reply without calls, which is why `Shape` says so of the place
`retry`.  `Gated` says that the entry of a gate is the call at the head of the batch and
that an answer that lets it go on is an approval of this call; with it `Executed` proves
`ExecutedOnlyIfAllowed`: what ran in the reply under way belongs to it, was of a kind not
seen before, and not beside a delegation.  `Previewed` relates the two flags of the loop
to the tools that ran or were denied.  `Named` says that a checkpoint names archives that
exist, so the next compaction, which names all of them, loses none.

*Only model-checked*: `RunEnds`.

## Model client and streams

*State* (`ModelClient`).  Shared: `catalog` (the generation of a route's keys),
`active` (the key that answered last), `tripped` (circuits).  Of a task: `bound` (its
route), `told` (the identity note), `history` (provider states in its conversation),
`call` (the request in progress).  `Chat` begins a call; `Reply`, `TransientError`,
`FinalError`, `RelayRefuses`, `Overflows`, `RecoveredByResponses` are what a provider
may do; `Failover`, `Announced`, `GiveUp`, `Failed` are the client's; `ChangeKeys`,
`ProbeLocals`, `CoolsDown` happen at any time.  A call that starts, or goes on after a
failover, on a route without keys ends at once (`unconfigured`), whatever other routes
there are; so does one on a custom route that was removed, or on a retired selector
(`Custom`), while any other selector that vanished is asked as a DeepSeek model (`NoKeys`).

*Checked* (`remote`; 487 thousand states).  Five routes of five companies and four protocols, a relay, a
custom route, a backup key, two attempts instead of three, two changes, three calls, one task (calls
of other tasks change only `active` and `tripped`, which changes and cooldowns
disturb too).  `FailsOnlyWhenExhausted`, `IdentityMatches`, `StatesStayHome`; a call
ends (part of `RequestsEnd`), since every request has a timeout (WF on the client).

*Proved* (`RemoteProofs.tla`, for any finite set of routes, with any relays and
backup keys, any distinct scores, any number of tasks, attempts, changes
and calls): `TypeCorrect`, `Exhaustion` (`FailsOnlyWhenExhausted`), `Identity` (`IdentityMatches`)
and `StatesAtHome` (`StatesStayHome`).  A call fails when there is nothing left to try, so
`Keyed` says what is left: the keys in its list and those it asked are all keys of its
route, every route in `failed` was asked with each of its keys unless it is a relay whose circuit
was open or opened (`skipped`), and what a call that gave up left untried was not configured
all the time.  Of a call that ends `unconfigured` the theorem says only that the route it
was on had lost its keys; others may be untried, and its error does not name the routes
that failed before (`HistoryIsReported`, a finding).
`Named` says which step of an announcement has changed the binding and which the note.
`Clean` holds outside team mode: the states in a conversation are those of its route
except between a failover and its cleanup.  `StatesAtHome` has the hypothesis `~Team`,
because in team mode it is false (Findings).  That there is a best route at all needs
induction over scores, which the lemma `Minimum` takes from the well-foundedness of the
natural numbers, stated of a set.

`StreamAssembly` is one answer: chunks of up to `MaxTools` calls, a text and a thought,
in every style a provider or relay uses (by index, whole array, by id, by turn, by block;
ids, names and signatures once, repeated, cut or cumulative), in any order and with a
cut or failing end.  The calls of one event are placed together, each by its index or its
position in the event (`deepseek.py:300-306`).  `AssembledIsSent`: a finished answer has
exactly the calls sent, each with its own id, arguments and signature.  Two calls in two
pieces are the least that can be mixed up.

*Proved* (`RemoteProofs.tla`, for any number of calls and of pieces, in every style):
`AssemblyIsWhole`, that is `AssembledIsSent`.  `Owned`: each call that has begun owns one
place of the accumulator, no two share one, and the place holds just what was received of
that call.  `InBlocks` and `InTurn` say why this is so for providers that send no index: a
call's pieces are one block, or come while it is the last place.  A finished
answer has received every piece, so its places are the calls.

## Channels

*Telegram* (`TelegramIngress`; in `remote`).  The server keeps updates until an offset
passes them; `poller` is where the poll task is, `batch` the last answer, `attempts`
the retries of an update, `pending` and `flushing` the files that wait and those a
timer took.  Two bots with overlapping ids, files followed by a voice message, a
foreign chat and a text; two attempts instead of the code's bound, one restart, one new
token.  `UpdatesAreKept`: an update becomes part of one task at most once unless the
process ended or the token changed, and none is passed over unhandled as long as the
token stays (files that waited when the process ended, and those of a text whose task could
not be created, `main.py:2706`, are given up: `lost`); `RequestsEnd`:
the queue moves (WF on the loop, SF on `GetUpdates`: the server can be reached again
and again; failures that repeat for ever are the server's).

*Proved* (`RemoteProofs.tla`, for any bots, any updates of theirs, any number of attempts,
restarts and token changes): `UpdatesStay`, that is `UpdatesAreKept`.  The server hands
updates out in the order of their ids, so the offset separates those that may still come
from those that were taken.  `Once`: an update that was admitted is passed and is not
polled again by the process that admitted it.  `Places`: it waits in one place (the batch, the
pending files, a flush) or has its task.  `Kept`: what is passed is in one of these, has
its task, was ended with a diagnostic, or belongs to a bot whose token changed at the wrong
moment.  TLC also checked the invariant with two token changes.

*Feishu events* (`FeishuIngress`; in `services`).  `leases` are the reservations,
`seen` and `saved` the committed ids in memory and in their file, `requests` the
deliveries in progress.  A text and two interchangeable attachments, three deliveries,
two handlers, two reservations and two remembered ids (both limits are met), one crash
or lapsed lease.  `EventsAreKept`: one task per event, accepted attachments are held
until they have a task (or a failed launch, the close or a crash gives them up), a
reservation has one owner and ends only with it.

*Proved* (`ServicesProofs.tla`, for any finite set of events and any numbers of
reservations, remembered ids, files and faults): `Ingress`, that is `EventsAreKept` with
all its parts.  The invariant follows the reservation: no two owners share one (`Apart`),
the current one of an event has an owner that names it (`HasOwner`), whoever works on an event has
its reservation unless that lapsed (`Covered`), and an event that is remembered has none
(`Remembering`).  So the owner that commits an event is the only one that made a task of it
(`Answered`, `Once`).  The assumption
`MaxLeases <= Remembered` (2048 and 4096 in the code) is needed: a commit that names as many
events as there are reservations must not push out the ids it has just put in.

*Feishu listener* (`FeishuListener`; in `services`).  `op` is where each caller of the
bridge is (boot, monitor, settings, send, shutdown), `workers` the processes that run,
`report` the status file, `accepts` whether the callback has a token to accept events with
(only while the bridge holds a worker: see `OldWorkerDelivers`).  Two saves, four workers, one service that dies and leaves
its worker, two unhealthy checks instead of three.  `ListenerIsOurs`: at most one
worker, with the credentials of the last save when nothing is under way.

*Proved* (`ServicesProofs.tla`, for any number of saves, workers, crashes and unhealthy
checks): `ListenerHolds`, that is `ListenerIsOurs`.  Whoever starts a worker holds the
bridge's lock and has reaped the others, whatever its credentials; a caller that saved newer
credentials is still to take the lock, and until then nothing is said of them.

## Specialists, phone, desktop

*Specialists* (`Subagents`; in `background`, which has 310 thousand states).  A run is announced, queued, and goes
through its events; the caller waits, is stopped through the shared event or cancelled.
Limits 3 per dispatch, 2 dispatches, 4 runs, 2 at once, so that each limit and the
semaphore bite.  `EndedIsSettled` and, under weak fairness of the event loop and the
store (nothing is assumed of providers), "a stopped call ends".

*Proved* (`BackgroundProofs.tla`, for any limits and any number of dispatches):
`AgentsSettle`, that is `EndedIsSettled`.  *Only model-checked*: that a stopped call ends.

*Phone* (`MobileBridge`; in `services`).  One phone, three sockets, one command, two
pairings, one failing write or restart.  Between two awaits the loop runs nothing else,
so the two writes of a request are one step with an outcome for each way they can fail.
`PhoneIsTold`: a waiting call can always be woken by a registered connection, and the
files say what the last pairing or revocation was told.

*Proved* (`ServicesProofs.tla`, for any sockets and commands and any number of pairings):
`PhoneHolds`, that is `PhoneIsTold`.

*Desktop* (`LiveControl`; in `background`).  Threads: the worker, a monitor per
session, stoppers.  Two tasks, two sessions, inputs of two slices, one action id, which
may be a sequence of two inputs (the code allows 16; what one input leaves to the next is
the same from any of them to its successor).  Each input is judged and performed on its
own.  The capture after an input may find a screen that changed or a stop: then the worker
returns without a stop of its own.  `InputIsOurs` (no slice after the session is gone, and
each input of an action id begins at most once), and under fairness of the threads (a call
into Windows returns; nothing is assumed of user or model) a stop completes; where neither
worker nor monitor asks again, this leans on the cleanup at the end of the task, which the
engine's `finally` reaches.  The violation run `lease_leak` uses the same instance.

*Proved* (`BackgroundProofs.tla`, for any set of tasks and actions, any number of
sessions, calls and slices): `Desktop`, that is `InputIsOurs`.  `Holding`: a current
session that nobody stopped has the desktop lease, or the worker is just about to take
it, so an idle worker that finds its session valid finds the lease too.  While input is
sent the worker holds the action lock, and a session leaves `_session` only under that
lock (`LeaveStep`); who closes a session has taken it out before (`Left`), so the lease of
the current one stays.  `Counted` and `Judged`: an action that began in the session that
is current has its receipt, and receipts are dropped only for a session that is stopped.
*Only model-checked*: that a stop completes.

## Control files, credentials, database, gateway

*Control files* (`ControlFiles`; in `files` with two processes for safety, in
`background` with one for liveness).  `surface` the files, `vault` the authenticated
baseline, `settings` the preferences file with the guard's fields and the others,
`lock` the pass in progress, `calls` the tool calls.  `Change` is whoever a tool
started, at any time, also after the tool ended (`orphans`): it may change or remove a
guarded file and, in the preferences, the guard's fields, the other settings (`Lost`) or
both.  `PassFails` is a read or write of a pass that fails: while it compares, the files
count as changed; where it reads the preferences, they count as empty and are rewritten
with the guard's fields only (`_restore_runtime_control`, 886-892); anywhere else the pass
ends with an error, its files restored or not.  External plugins are imported between two
passes, before the watchdog runs; the earlier pass of `load_project_rules` is not separate
from the start's.  `ControlIsHeld`: what a process enforces is what the next start loads,
and the other settings it remembers are those on disk unless one of the two is `Lost`,
both as long as nobody without the lease wrote; one enforcer at a time; a recorded package
is what it says.  "Changes are undone" (in `BackgroundSettles`) needs the watchdog to get the
lock again and again (SF) and passes to end (WF).

*Proved* (`FilesProofs.tla`, for any set of processes and calls, any packages, any
number of starts, changes, saves and crashes): `Guard`, that is `ControlIsHeld`.
`Leased`: a process has the lease exactly in the stages in which it enforces, and only
the pass of a call that outlives `stop` may work without it (then `trampled` says so).
`Agreed`: who has the lease remembers the baseline that is on disk, except within a
migration, where the before-image is in `old`; a process that is up remembers the other
preferences as they are, or as lost; a save's before-image agrees with the files it would restore; a
pass about to replace the preferences has read the ones that are there, or nothing (why
`_restore_runtime_control` must read under the lock).  `Trust`: no stored baseline
(vault, journal, memory, before-images) names a version for a file that is neither that
version, nor the user's, nor absent.  *Only model-checked*: that changes are undone.

*Credentials* (`SecretStores`; in `files`).  Three plaintext sources (`env`, `prefs`,
`legacy`) and the vault, with any initial combination; two processes, one fault.  A
value names where it was first written.  A field is taken from the strongest source that
is not blank; the list of model providers (`entry`: one entry, an empty list, or no list)
from the strongest one that has a list, so an empty list in the vault wins (`Listed`), and
`Normal` leaves out the entries that `_normalize_model_providers` drops (`Retired`:
unknown provider, no model, duplicate, beyond the 25th).  The environment has no list:
`create_app` passes none (`main.py:457`).  `CredentialsAreSafe`: after any failure the
next start finds each credential field, and the entry that this order finds or that was
entered since; no key is stored for another endpoint; a process that is up left no
plaintext behind; it also has the gateway's parts below.  That the order itself drops keys
and then removes the old copies is a finding (`OnlyCopiesAreKept`).  Not modelled: lists of
several entries, the aliases of a field in `.env` (`OPENAI_API_KEY`, ..., blanked with it),
an entry that `normalize_custom_provider` rejects or a file that cannot be parsed (each
ends the start with an error, and nothing is removed), and preferences of an old version
that the guard rewrites because it cannot read them: the credentials in them go with the
other settings.  The violation
run `key_lost` is the same with a keychain that replaces (Linux).

*Proved* (`FilesProofs.tla`, for any processes, fields, endpoints, updates and numbers of
faults): `KeyStays` (`KeyOfTheVaultKept`) under `~Replaces`, and `CredentialsStay`
(`CredentialsAreSafe`) under `~Replaces`, `~FreshLog` and `~ReadFails`.  The three
hypotheses are those under which the property is true: each one dropped is refuted
(Findings).  `~Replaces` is a keychain that refuses to overwrite its key (macOS; Windows
keeps none),
`~FreshLog` an installation whose log exists, `~ReadFails` a configuration that can be read.

*Task database* (`TaskStoreUpgrade`; in `files`).  Rows by the kinds of plaintext they
have, `residue` (free pages), `markers`, prepared writes, another program (`foreign`).
Two rows, one token, one write, no other reader (`Readers = FALSE`).  `MarkersHold`: the
retirement marker is true of rows and free pages, whoever wrote; the others of the rows
as long as other programs write only while this one is down.  A start whose route
protector is unavailable fails before any marker (`Protected`).

*Proved* (`FilesProofs.tla`, for any rows and tokens and any number of writes):
`MarkersStay` (`MarkersHold`) under `~Readers`; `MarkersAreTrueAlways`, the part about the
rows, without a condition.  A program that reads while this one compacts keeps old frames
of the log in place: then `RetiredIsGone` is refuted (Findings).

*Gateway* (`OpenClawBridge`; in `files`).  `own` and `other` processes on the port, the
`log` and its `pump` thread, `token` and `files` with keys, `requests` for the gateway.
`GatewayIsStopped`: what the bridge started it will stop, and a stop leaves nothing;
in `CredentialsAreSafe`: the log has no key, and a key found in a file is in the file
or in the vault at every moment.

*Proved* (`FilesProofs.tla`, for any calls, keys, files and polls): `GatewayStops`, that is
`GatewayIsStopped`; its parts of `CredentialsAreSafe` are in `CredentialsStay`.

`files` has 1.7 million states.  One start more than processes, one change, one save and
one fault suffice for a failure, its recovery and a second actor in between.

## Media and browser

*Media* (`MediaGeneration`; in `services`, which has 1.4 million states).  Two interchangeable calls, two official
spaces that share their quota and a ModelScope Studio, one listed model with a price list, one worker thread, one
change of credentials or cancellation.  A call has `home`, the egress country that
`plugins/builtin/media_generation.py` passes from the engine's network probe: in mainland
China only the ModelScope Studios are candidates, a name that is none of theirs is not
looked up, and no catalog is asked (media_generation.py 1130, 1146, 1212).  `MediaIsFree`:
no request to a model whose price the call did not see as zero; before a call gives up,
every service it may use was asked or cools down; and a call from mainland China asks
nobody but the Studios.  A temporary file that the system refuses to remove stays
(`files.left`), as the code swallows the error.

*Proved* (`ServicesProofs.tla`, for any calls, services, pools, price lists, workers and
changes): `MediaHolds`, that is `MediaIsFree`.

*Browser* (`BackgroundBrowser`; in `services`).  `guard` is the lock of the control guard:
calls and cleanups of all tasks take turns on it, and so does another plugin (`Other`).  Two
tasks, two downloads, three launches, one record; a stop or a deadline may fall on every
await.  `EndedIsClean`: an ended task has finished or removed its downloads (and a media
call its temporary file) and, if its cleanup was reached, has no session and no download
except in a browser that goes; a session's browser has its driver (`SessionRuns`).  A
cleanup that does not get the lock within its five seconds is skipped: see `CleanupReached`.

*Proved* (`ServicesProofs.tla`, for any tasks and downloads and any number of records and
launches): `EndedWorkIsClean`, that is `EndedIsClean`.

## Findings

Two have a violation run, whose counterexample TLC prints:

* `LeaseReleased` (`lease_leak`) - a stop between `self._session = session` and
  `session.desktop_lease = DesktopLease()` leaves the kernel semaphore held for ever.
* `KeyOfTheVaultKept` (`key_lost`) - on Linux a failing lookup is taken for an absent
  key, and the new one replaces the key of the vault.

The others are stated in their modules, most of them at the end under "refuted", and are
shown by putting the definition into the run's cfg in place of its properties, with
the constant named here if the run does not already refute it.

| property | module | what happens |
| --- | --- | --- |
| `EndLimitsStartup` | `Scheduler` | a tick with a stale clock starts a row after its end |
| `NotCommitted` (`MaxFaults = 3`) | `SettingsTransaction` | "not committed" is answered although the receipt says committed |
| `RollbackFirst` | `SettingsTransaction` | a Feishu event writes the vault while a rollback is pending |
| `RecoveredOnce` | `TaskManager` | the mark of a cached row is skipped; the next restart runs it again (two restarts) |
| `FailureIsDurable` | `TaskManager` | a stop while a failure is written leaves the row active |
| `StopIsDurable` | `TaskManager` | the second cancellation of a shutdown breaks off the handler that records a stop: the row stays active |
| `DeletedIsStopped` | `TaskManager` | a run continued during a deletion is deleted but not stopped |
| `NoFalseMissingArtifact` | `AgentLoop` | a file made before a compaction is demanded again, and the run fails |
| `LedgerIsCumulative` | `AgentLoop` | the ledger a checkpoint calls cumulative has lost its older entries |
| `PreviewFailureWasTried` | `AgentLoop` | a preview the user denied is reported as tried and failed |
| `HistoryIsReported` | `ModelClient` | a call whose next route lost its keys during a failover ends at once, and its error hides the routes that failed |
| `CircuitIsCurrent` | `ModelClient` | a request with old keys opens the circuit of the new ones |
| `StatesStayHome` (`Team = TRUE`) | `ModelClient` | provider state reappears in team mode |
| `ReturnedIsFinished` | `StreamAssembly` | a stream cut without an error is returned as complete |
| `ConfirmedIsHandled` | `TelegramIngress` | after a token change, updates of the new bot are confirmed unseen |
| `TokenIsCurrent`, `OldWorkerDelivers` | `FeishuListener` | a token of the old credentials is cached after the change; the event of an old worker is refused |
| `EveryRunMarked` | `Subagents` | a stop during the announcement leaves runs queued |
| `WokenAtOnce` | `MobileBridge` | a command of a replaced socket waits for its timeout |
| `ChangeIsReported`, `RecoversAlone` | `ControlFiles` | the watchdog hides a change; a second start rolls back the first process's transaction |
| `PreferencesAreKept` | `ControlFiles` | an unreadable preferences file is rewritten with the guard's fields only: the other settings are lost |
| `OnlyCopiesAreKept` | `SecretStores` | an empty list in the vault wins, unknown entries are left out, and the old file with their keys is removed |
| `RejectedSentNothing` | `LiveControl` | an input whose later capture is stale is reported as rejected, not sent |
| `SealedIsGone`, `MarkersAlwaysTrue`, `ExactIsClean` | `TaskStoreUpgrade` | a crash before VACUUM, another program, or a late write leaves plaintext |
| `RetiredIsGone` (`Readers = TRUE`) | `TaskStoreUpgrade` | after a crash before VACUUM and a reader during the next one, a retired bearer stays in the file |
| `CleanupReached`, `NothingRunsOn` | `BackgroundBrowser` | a cleanup that does not get the guard's lock in time is skipped; a stop while the driver starts leaks it |
| `SameGateway`, `PumpRuns`, `CredentialsMigrated` (`ReadFails = TRUE`), `LogIsRedacted` (`FreshLog = TRUE`) | `OpenClawBridge` | a restart changes gateways; the pump dies; an unreadable file is overwritten; a key gets into a fresh log |
| `CooldownOfTheToken`, `JobEndsWithCall` | `MediaGeneration` | an old job cools the new token; a job outlives its call |

`PROJECT.json` quotes the text each one disagrees with.

## What is proved and what is model-checked

| module | proved for all values of the constants | only model-checked |
| --- | --- | --- |
| `Scheduler` | `RowsAgree`, `TypeOK`, `OpenCallIsFenced`, `NoUnapprovedOverlap`, `NextAfterLastDue`, `FenceLiftedByOwnerOrUser`, `OneShotNotLost` | `AbandonedFenceSurfaces`, `DueIsTaken` |
| `SettingsTransaction` | `AllOrNothing` (refinement), `LiveIsDurable` (with `MaxFaults <= 2`) | - |
| `TaskManager` | `OneRunPerConversation`, `OutcomeIsDurable`, `InstructionsKept`, `DeletedStaysDeleted`, `HeirBeforeMark`, `OutcomeNotUndone` | - |
| `AgentLoop` | `TypeOK`, `ToolResultsComplete`, `FollowUpsKept`, `ExecutedOnlyIfAllowed`, `PreviewedAfterLastChange`, `StopEndsSideEffects` | `RunEnds` |
| `ModelClient` | `TypeOK`, `FailsOnlyWhenExhausted`, `IdentityMatches`, `StatesStayHome` (with `~Team`) | its part of `RequestsEnd` |
| `StreamAssembly` | `AssembledIsSent` | - |
| `TelegramIngress` | `UpdatesAreKept` | its part of `RequestsEnd` |
| `FeishuIngress` | `EventsAreKept` | - |
| `FeishuListener` | `ListenerIsOurs` | - |
| `Subagents` | `EndedIsSettled` | its part of `BackgroundSettles` |
| `MobileBridge` | `PhoneIsTold` | - |
| `LiveControl` | `InputIsOurs` | its part of `BackgroundSettles` |
| `ControlFiles` | `ControlIsHeld` | its part of `BackgroundSettles` |
| `SecretStores` | `KeyOfTheVaultKept` (with `~Replaces`), `CredentialsAreSafe` (with `~Replaces`, `~FreshLog`, `~ReadFails`) | - |
| `TaskStoreUpgrade` | `MarkersHold` (with `~Readers`), `MarkersAreTrue` | - |
| `OpenClawBridge` | `GatewayIsStopped`; its part of `CredentialsAreSafe` | - |
| `MediaGeneration` | `MediaIsFree` | - |
| `BackgroundBrowser` | `EndedIsClean` | - |

The components of `MCRemote`, `MCServices`, `MCFiles` and `MCBackground` run one at a time
(`subject`), so each theorem about such a module says of a property `P` what it says of the
component alone; the invariants of the other components are not part of the argument.

*Assumptions.*  The theorems use the named ASSUMEs of the modules, which TLC evaluates
on every run: bounds and durations are natural numbers, what the code divides by is
positive, sets the code holds in memory are finite where a count or a choice needs it,
`None` is none of the values it is compared with, no two routes have the same score
(`ClientAssumption`), the ingress remembers at least as many events as it reserves
(`IngressAssumption`), an input has a slice and an action an input (`ControlAssumption`), a package has a version or none
(`GuardAssumption`), the listener may be saved once and has a positive threshold
(`ListenerAssumption`), every media service has a pool and the catalog is finite
(`MediaAssumption`), a download manager keeps a record (`BrowserAssumption`), an installation
has a process (`StartersAssumption`), what is retired is no endpoint of today and no
listed entry is the missing list (`RetiredAssumption`, `EntriesAssumption`), the gateway's files are a finite list
(`FilesAssumption`), a route token is none of the other marks of a payload
(`DatabaseAssumption`), a bot's updates are numbered and an answer has tool places
(`RemoteAssumption`), a schedule's end lies after its start (`TimingAssumption`, which
`valid_window` enforces), a task is a record of `Task` (`TaskAssumption`).  The bounds of
model checking (`MaxTime`, `MaxTokens`,
`MaxChanges`, `task.turns`, ...) are constants like the others, so the theorems hold for
all of them.

*Before a proof.*  Each inductive invariant was first checked by TLC as an invariant of the
run of its module.

*Out of reach of TLAPS here.*  Liveness under fairness and ENABLED: `DueIsTaken`,
`AbandonedFenceSurfaces`, `RunEnds`, `RequestsEnd`, `BackgroundSettles`.  Induction over
data: where a proof needs it, it is an induction over steps instead (conversations and
key lists change by one element at a time), or it is replaced by a least element
(`Minimum`).

## Not modelled

Redaction, command safety and address checks (pure functions on texts); speech, vision,
OCR, sheet music and presentation checks (data transformation without shared state);
the tools themselves, MCP servers and sandboxes (outcomes of `AgentLoop`'s
`ToolReturns`); the audit log (append-only, never read back); the marker files of
`desktop_lifecycle.py` (the other side is the C# launcher); user interface, launcher,
packaging, phone app and vendored code.  Of the modelled parts: pins, paging and search
of the task store, cron sets and daylight saving, prompts and other contents, request
bodies of providers, screenshots and geometry, encryption (a vault is what only the
right key reads), file routes of `main.py`.

## Plan

1. Models: an abstract inbox that both ingresses implement; the scheduler's dispatcher
   composed with task creation; liveness of the task manager (a stopped run ends, a
   listed interrupted task is resumed).
2. Out of reach: liveness in TLAPS; the tools, providers and platforms.
