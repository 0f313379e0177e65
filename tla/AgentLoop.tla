------------------------------ MODULE AgentLoop ------------------------------
(***************************************************************************)
(* One run of an agent: AgentEngine._run_scoped with its team discussion,  *)
(* its completion gates, its tool loop and the two gates at which it waits *)
(* for a person (engine.py).                                               *)
(*                                                                         *)
(* Everything runs on one event loop, so the other actors (the user who    *)
(* sends follow-ups, answers gates and presses Stop) act only where the    *)
(* worker awaits: each value of pc is such a place, and a worker action is *)
(* the code from one await to the next.  The provider and the tools are    *)
(* external: what they return is a nondeterministic choice.                *)
(***************************************************************************)
EXTENDS Naturals, Sequences, FiniteSets, SequencesExt

CONSTANTS
    Tasks,          \* what the user asked for, see Task
    Attempts,       \* HOST_SEMANTIC_RECOVERY_ATTEMPTS
    TotalAttempts,  \* HOST_SEMANTIC_RECOVERY_TOTAL_ATTEMPTS
    OutputAttempts, \* the literal 2 of the artifact and preview checks
    Lanes,          \* asyncio.Semaphore(5) of the team discussion
    Window,         \* the context window, in units of the compaction target
    None

ASSUME LoopAssumption ==
    {Attempts, TotalAttempts, OutputAttempts, Lanes, Window} \subseteq Nat \ {0}

VARIABLES
    task,      \* the AgentTask: the fields of Task that never change
    pc,        \* where the worker awaits
    status,    \* task.status
    why,       \* what made the run fail
    messages,  \* the conversation sent to the provider
    ledger,    \* cumulative_context_ledger: the follow-ups it still retells
    archives,  \* context_checkpoint_archives: the follow-ups each file holds
    batch,     \* the calls of the last reply that have no result yet
    seen,      \* batch_signatures
    queue,     \* steering_queue
    tries,     \* the retry counters of the run
    preview,   \* background_preview_verified, _failed
    overflow,  \* the counters of consecutive context rejections
    speaker,   \* team_execution_index
    advice,    \* the state of each member's advice call
    plan,      \* after a retry event: pop the reply?, the host's note
    gate,      \* the entry of ApprovalGate or HumanActionGate, or None
    stop,      \* the stop was accepted: event set and CancelledError pending
    used,      \* tool turns, follow-ups, compactions so far
    applied,   \* history: follow-ups taken from the queue
    granted,   \* history: calls a person approved
    log        \* history: the tools executed or denied, in order

turnState == <<messages, ledger, archives, batch, seen, queue>>
budgets == <<tries, preview, overflow, plan>>
team == <<speaker, advice>>
history == <<applied, granted, log>>
vars == <<task, pc, status, why, turnState, budgets, team, gate, stop, used, history>>

Member == 1 .. 2

\* The kinds of tool call the loop tells apart.  "write" changes a page which
\* is also a file asked for, "make" makes a document, "observe" is a read;
\* "preview" looks at a page in the background browser and "visit" acts on it
\* (click, fill, drag); "resolve" is the cron update that settles an
\* interrupted dispatch, "risky" any other tool.
EarlyRejected == {"garbled", "misfit"}
LateRejected == {"unknown", "forbidden", "redirected", "outside"}
Catalog == {"search", "specialists"}
Makes == {"write", "make"}
Browsing == {"preview", "visit"}
Executable == Makes \cup Browsing \cup {"observe", "risky", "resolve", "settings", "delegate"}
Kind == EarlyRejected \cup LateRejected \cup Catalog \cup Executable \cup {"human"}

\* policy and agent_profile; the contract of the final text; the file asked
\* for; whether the prompt asks for a browser surface; the team's members; a
\* short phone task; the size under which its context cannot be compacted; the
\* sequences of tool calls its provider comes up with; and the bounds of model
\* checking: replies with calls, follow-ups, compactions before a request (the
\* loop has no limits of its own for these).
Task == [policy : {"cautious", "balanced", "trusted"}, planner : BOOLEAN,
         contract : {"none", "json", "functions"}, output : {"none", "file", "slides"},
         page : BOOLEAN, members : SUBSET Member, mobile : BOOLEAN, core : Nat,
         batches : SUBSET Seq(Kind), turns : Nat,
         followUps : Nat, compactions : Nat]

ASSUME TaskAssumption == Tasks \subseteq Task

Call == [turn : Nat, at : Nat, kind : Kind]

Message(role, ref) == [role |-> role, ref |-> ref]

\* How a call ended: a page of the background browser may be the one asked for
\* or another ("ok").
Ends == {"ok", "shown", "failed"}

Waiting == {"setup", "propose", "advise", "decide", "top", "chat", "retry", "call", "offered",
            "asked", "handed", "run", "final", "closing", "failing", "cleanup", "done"}

TypeOK ==
    /\ task \in Tasks /\ task \in Task
    /\ pc \in Waiting
    /\ status \in {"queued", "running", "waiting", "waiting_user", "completed", "failed", "cancelled"}
    /\ \A i \in DOMAIN messages : messages[i].role \in
          {"system", "user", "followup", "assistant", "tool", "note", "checkpoint"}
    /\ ledger \subseteq 1 .. task.followUps /\ applied \subseteq 1 .. task.followUps
    /\ archives \subseteq SUBSET (1 .. task.followUps)
    /\ batch \in Seq(Call) /\ seen \subseteq Kind /\ queue \in Seq(1 .. task.followUps)
    /\ tries \in [empty : 0 .. Attempts + 1, json : 0 .. Attempts + 1, functions : 0 .. Attempts + 1,
                  total : 0 .. TotalAttempts, output : 0 .. OutputAttempts + 1,
                  preview : 0 .. OutputAttempts + 1]
    /\ preview \in [verified : BOOLEAN, failed : BOOLEAN]
    /\ stop \in BOOLEAN
    /\ \A i \in DOMAIN log : log[i].call \in Call /\ log[i].end \in Ends \cup {"denied"}

Init ==
    /\ task \in Tasks
    /\ pc = "setup" /\ status = "queued" /\ why = "none"
    /\ messages = <<>> /\ ledger = {} /\ archives = {} /\ batch = <<>> /\ seen = {} /\ queue = <<>>
    /\ tries = [empty |-> 0, json |-> 0, functions |-> 0, total |-> 0, output |-> 0, preview |-> 0]
    /\ preview = [verified |-> FALSE, failed |-> FALSE]
    /\ overflow = [count |-> 0, target |-> 0, size |-> 0, stalled |-> 0]
    /\ plan = [pop |-> FALSE, note |-> "none"]
    /\ speaker = 0 /\ advice = [m \in Member |-> "none"]
    /\ gate = None /\ stop = FALSE
    /\ used = [turns |-> 0, sent |-> 0, compactions |-> 0, report |-> FALSE]
    /\ applied = {} /\ granted = {} /\ log = <<>>

-----------------------------------------------------------------------------
(* Endings.                                                                *)

\* Fault: the worker goes on until the CancelledError reaches it.
FaultWorks(place) == pc = place

\* The worker of a stopped run gets its CancelledError where it awaits: it
\* does nothing else any more.
Works(place) == pc = place /\ ~stop

\* An exception inside the guarded loop.
Fail(reason) ==
    /\ pc' = "failing" /\ status' = "failed" /\ why' = reason

\* ... and before it, where the outer boundary of the worker ends the task.
FailSetup ==
    /\ pc' = "done" /\ status' = "failed" /\ why' = "setup"

ReportFailure ==
    /\ Works("failing")
    /\ pc' = "cleanup"
    /\ UNCHANGED <<task, status, why, turnState, budgets, team, gate, stop, used, history>>

\* registry.cleanup, the egress probe and the bindings of the run.
Cleanup ==
    /\ pc = "cleanup"
    /\ pc' = "done"
    /\ UNCHANGED <<task, status, why, turnState, budgets, team, gate, stop, used, history>>

\* The CancelledError at any of the awaits; before the guarded loop the outer
\* boundary handles it.  A failure keeps its status when its handler is
\* interrupted, a completion that is still being reported does not.
Interrupted ==
    /\ stop /\ pc \notin {"cleanup", "done"}
    /\ pc' = IF pc \in {"setup", "propose", "advise", "decide"} THEN "done" ELSE "cleanup"
    /\ status' = IF pc = "failing" THEN status ELSE "cancelled"
    /\ gate' = None
    /\ UNCHANGED <<task, why, turnState, budgets, team, stop, used, history>>

-----------------------------------------------------------------------------
(* Setup and team discussion.                                              *)

IsTeam == task.members # {}

\* Status running, audit, the prompts; the members take part only from a second
\* participant on.
Started ==
    /\ pc' = IF IsTeam THEN "propose" ELSE "top"
    /\ status' = "running" /\ UNCHANGED why
    /\ messages' = <<Message("system", 0), Message("user", 0)>>

\* Model selection and task bindings come first.
Setup ==
    /\ Works("setup")
    /\ (FailSetup /\ UNCHANGED messages) \/ Started
    /\ UNCHANGED <<task, ledger, archives, batch, seen, queue, budgets, team, gate, stop, used, history>>

Propose ==
    /\ Works("propose")
    /\ \/ pc' = "advise" /\ UNCHANGED <<status, why>>
       \/ FailSetup
    /\ UNCHANGED <<task, turnState, budgets, team, gate, stop, used, history>>

\* The members are asked at once, Lanes at a time; one that fails gives none.
AskMember(m) ==
    /\ Works("advise") /\ m \in task.members /\ advice[m] = "none"
    /\ Cardinality({n \in Member : advice[n] = "asked"}) < Lanes
    /\ advice' = [advice EXCEPT ![m] = "asked"]
    /\ UNCHANGED <<task, pc, status, why, turnState, budgets, speaker, gate, stop, used, history>>

Advise(m) ==
    /\ Works("advise") /\ advice[m] = "asked"
    /\ \E answer \in {"given", "failed"} : advice' = [advice EXCEPT ![m] = answer]
    /\ pc' = IF \A n \in task.members : advice'[n] \in {"given", "failed"} THEN "decide" ELSE pc
    /\ UNCHANGED <<task, status, why, turnState, budgets, speaker, gate, stop, used, history>>

\* The leader's plan; the members then work one after the other, and the
\* leader is the last speaker.
Decide ==
    /\ Works("decide")
    /\ \/ pc' = "top" /\ UNCHANGED <<status, why>>
       \/ FailSetup
    /\ advice' = [m \in Member |-> "none"]
    /\ UNCHANGED <<task, turnState, budgets, speaker, gate, stop, used, history>>

LeaderSpeaks == speaker >= Cardinality(task.members)

-----------------------------------------------------------------------------
(* The head of the loop: follow-ups, compaction, the request.              *)

\* drain_steering_messages takes all that are in the queue.
Drained == messages \o [i \in DOMAIN queue |-> Message("followup", queue[i])]

\* Fault: a repair of one kind also forgets the budget of the user's turn.
FaultResetConsecutive(t) == [t EXCEPT !.empty = 0, !.json = 0, !.functions = 0, !.total = 0]

ResetConsecutive(t) == [t EXCEPT !.empty = 0, !.json = 0, !.functions = 0]

FollowUpsOf(ms) == {ms[i].ref : i \in {j \in DOMAIN ms : ms[j].role = "followup"}}

\* Fault: every compaction starts the list of its archives anew.
FaultArchived(ms) == {FollowUpsOf(ms)}

\* The conversation goes to a file of its own; a checkpoint names all of them.
Archived(ms) == archives \cup {FollowUpsOf(ms)}

\* _compact_context_messages: the system prompt and one checkpoint remain.  The
\* ledger takes up what the messages hold and loses its oldest entries (all but
\* the last 400), and the checkpoint tells its newest that fit: which these are
\* depends on number and length of all entries, so any.
Compact(ms) ==
    /\ archives' = Archived(ms)
    /\ \E cut, hidden \in 0 .. task.followUps :
          /\ ledger' = {f \in ledger \cup FollowUpsOf(ms) : f > cut}
          /\ messages' = <<ms[1], Message("checkpoint", [told |-> {f \in ledger' : f > hidden},
                                                        archives |-> archives'])>>

\* The archive cannot be written, and nothing else has changed.
ArchiveFails == Fail("archive") /\ UNCHANGED <<ledger, archives>>

\* A short phone task that took too long gets no tools any more.
LoopHead ==
    /\ Works("top")
    /\ queue' = <<>> /\ applied' = applied \cup ToSet(queue)
    /\ tries' = IF queue = <<>> THEN tries ELSE [ResetConsecutive(tries) EXCEPT !.total = 0]
    /\ \E report \in {used.report, task.mobile} :
       \/ /\ messages' = Drained /\ pc' = "chat"
          /\ used' = [used EXCEPT !.report = report]
          /\ UNCHANGED <<status, why, ledger, archives>>
       \/ /\ used.compactions < task.compactions
          /\ used' = [used EXCEPT !.compactions = @ + 1, !.report = report]
          /\ \/ Compact(Drained) /\ pc' = "chat" /\ UNCHANGED <<status, why>>
             \/ Compact(Drained) /\ Fail("context")
             \/ ArchiveFails /\ messages' = Drained
    /\ UNCHANGED <<task, batch, seen, preview, overflow, plan, team, gate, stop, granted, log>>

\* The provider rejects the request as too long.  The target shrinks with each
\* rejection in a row down to a floor; two rejections of what could not be
\* made smaller end the run.
Target(n) == IF n < Window THEN Window - n ELSE 1

Larger(a, b) == IF a > b THEN a ELSE b

Overflow ==
    /\ Works("chat")
    /\ LET count == overflow.count + 1
           size == Larger(task.core, Target(count))
           stalled == IF overflow.count > 0 /\ overflow.target = Target(count) /\ size >= overflow.size
                      THEN overflow.stalled + 1 ELSE 0
       IN /\ overflow' = [count |-> count, target |-> Target(count), size |-> size, stalled |-> stalled]
          /\ \/ /\ Compact(messages)
                /\ IF stalled >= 2 THEN Fail("context") ELSE pc' = "top" /\ UNCHANGED <<status, why>>
             \/ ArchiveFails /\ UNCHANGED messages
    /\ UNCHANGED <<task, batch, seen, queue, tries, preview, plan, team, gate, stop, used, history>>

Accepted == overflow' = [count |-> 0, target |-> 0, size |-> 0, stalled |-> 0]

\* The client gave up: keys, failover and retries are its own.
ProviderFails ==
    /\ Works("chat")
    /\ Fail("provider")
    /\ UNCHANGED <<task, turnState, budgets, team, gate, stop, used, history>>

-----------------------------------------------------------------------------
(* A reply without tool calls.                                             *)

Texts == {"empty", "progress", "broken", "answer"}

\* A follow-up that came while the provider answered is taken into this run.
AnswerOvertaken ==
    /\ Works("chat") /\ queue # <<>>
    /\ messages' = Append(messages, Message("assistant", <<>>))
                      \o [i \in DOMAIN queue |-> Message("followup", queue[i])]
    /\ queue' = <<>> /\ applied' = applied \cup ToSet(queue)
    /\ tries' = [ResetConsecutive(tries) EXCEPT !.total = 0]
    /\ pc' = "top" /\ Accepted
    /\ UNCHANGED <<task, status, why, ledger, archives, batch, seen, preview, plan, team, gate, stop, used, granted, log>>

\* The report of a team member hands control to the next speaker.
Handoff(text) ==
    /\ Works("chat") /\ queue = <<>> /\ ~LeaderSpeaks /\ text # "empty"
    /\ messages' = Append(messages, Message("assistant", <<>>))
    /\ speaker' = speaker + 1
    /\ tries' = ResetConsecutive(tries)
    /\ pc' = "top" /\ Accepted
    /\ UNCHANGED <<task, status, why, ledger, archives, batch, seen, queue, preview, plan, advice, gate, stop, used, history>>

Final(text) == Works("chat") /\ queue = <<>> /\ (LeaderSpeaks \/ text = "empty")

Replied == messages' = Append(messages, Message("assistant", <<>>))

\* schedule_semantic_recovery: one more try for this category, unless its
\* budget or the one of the user's turn is spent.
Recover(category, pop) ==
    LET attempt == tries[category] + 1
        counted == [ResetConsecutive(tries) EXCEPT ![category] = attempt]
    IN IF attempt > Attempts \/ tries.total >= TotalAttempts
       THEN /\ tries' = counted /\ Fail("recovery") /\ UNCHANGED plan
       ELSE /\ tries' = [counted EXCEPT !.total = @ + 1]
            /\ plan' = [pop |-> pop, note |-> category]
            /\ pc' = "retry" /\ UNCHANGED <<status, why>>

EmptyReply(text) ==
    /\ Final(text) /\ text \in {"empty", "progress"}
    /\ Recover("empty", TRUE)
    /\ Replied /\ Accepted
    /\ UNCHANGED <<task, ledger, archives, batch, seen, queue, preview, team, gate, stop, used, history>>

\* A text that is no JSON value, or lacks a required function.
BrokenContract(text) ==
    /\ Final(text) /\ text = "broken" /\ task.contract # "none"
    /\ Recover(task.contract, task.contract = "json")
    /\ Replied /\ Accepted
    /\ UNCHANGED <<task, ledger, archives, batch, seen, queue, preview, team, gate, stop, used, history>>

Delivered(text) == Final(text) /\ (text = "answer" \/ (text = "broken" /\ task.contract = "none"))

\* Indices of the messages that report a successful call of a kind.
Results(kinds) == {i \in DOMAIN messages :
    messages[i].role = "tool" /\ messages[i].ref.ok /\ messages[i].ref.call.kind \in kinds}

\* _artifact_materialized: a successful call in the messages made the file.
Materialized == task.output = "none" \/ Results(Makes) # {}

\* The checks of a missing or bad output share one counter.
RetryOutput(note, reason) ==
    /\ tries' = [tries EXCEPT !.output = @ + 1]
    /\ IF tries.output < OutputAttempts
       THEN /\ plan' = [pop |-> TRUE, note |-> note] /\ pc' = "retry" /\ UNCHANGED <<status, why>>
       ELSE Fail(reason) /\ UNCHANGED plan

MissingArtifact(text) ==
    /\ Delivered(text) /\ ~Materialized
    /\ RetryOutput("artifact", "artifact")
    /\ Replied /\ Accepted
    /\ UNCHANGED <<task, ledger, archives, batch, seen, queue, preview, team, gate, stop, used, history>>

\* _requires_background_browser_preview: the prompt or a call in the messages.
PreviewRequired ==
    /\ ~task.planner
    /\ \/ task.page
       \/ \E i \in DOMAIN messages : messages[i].role = "assistant"
             /\ \E j \in DOMAIN messages[i].ref : messages[i].ref[j].kind = "write"

PreviewMissing == PreviewRequired /\ ~preview.verified /\ ~preview.failed

MissingPreview(text) ==
    /\ Delivered(text) /\ Materialized /\ PreviewMissing
    /\ tries' = [tries EXCEPT !.preview = @ + 1]
    /\ IF tries.preview < OutputAttempts
       THEN /\ plan' = [pop |-> TRUE, note |-> "preview"] /\ pc' = "retry" /\ UNCHANGED <<status, why>>
       ELSE Fail("preview") /\ UNCHANGED plan
    /\ Replied /\ Accepted
    /\ UNCHANGED <<task, ledger, archives, batch, seen, queue, preview, team, gate, stop, used, history>>

\* _presentation_artifact_candidates: slides made since the last failed check.
Slides == task.output = "slides"
          /\ \E i \in Results(Makes) : \A j \in i .. Len(messages) :
                messages[j].role # "note"

\* The check of the slides runs in a thread and may reject what it cannot repair.
BadSlides(text) ==
    /\ Delivered(text) /\ Materialized /\ ~PreviewMissing /\ task.output = "slides"
    /\ RetryOutput("slides", "slides")
    /\ Replied /\ Accepted
    /\ UNCHANGED <<task, ledger, archives, batch, seen, queue, preview, team, gate, stop, used, history>>

Accept(text) ==
    /\ Delivered(text) /\ Materialized /\ ~PreviewMissing /\ (task.output = "slides" => Slides)
    /\ tries' = ResetConsecutive(tries)
    /\ pc' = "final" /\ Replied /\ Accepted
    /\ UNCHANGED <<task, status, why, ledger, archives, batch, seen, queue, preview, plan, team, gate, stop, used, history>>

\* After the event of a retry: the reply is dropped, the host's note appended.
\* Only the note that Slides looks for is kept here.
Retry ==
    /\ Works("retry")
    /\ LET kept == IF plan.pop THEN Front(messages) ELSE messages
       IN messages' = IF plan.note = "slides" THEN Append(kept, Message("note", "slides")) ELSE kept
    /\ pc' = "top" /\ plan' = [pop |-> FALSE, note |-> "none"]
    /\ UNCHANGED <<task, status, why, ledger, archives, batch, seen, queue, tries, preview, overflow, team, gate, stop, used, history>>

Complete ==
    /\ Works("final")
    /\ status' = "completed" /\ pc' = "closing"
    /\ UNCHANGED <<task, why, turnState, budgets, team, gate, stop, used, history>>

Close ==
    /\ Works("closing")
    /\ pc' = "cleanup"
    /\ UNCHANGED <<task, status, why, turnState, budgets, team, gate, stop, used, history>>

Text(text) == \/ Handoff(text) \/ EmptyReply(text) \/ BrokenContract(text) \/ MissingArtifact(text)
              \/ MissingPreview(text) \/ BadSlides(text) \/ Accept(text)

-----------------------------------------------------------------------------
(* A reply with tool calls, taken one by one.                              *)

ToolReply(kinds) ==
    /\ Works("chat") /\ used.turns < task.turns
    /\ LET calls == [i \in DOMAIN kinds |-> [turn |-> used.turns + 1, at |-> i, kind |-> kinds[i]]]
       IN /\ messages' = Append(messages, Message("assistant", calls))
          /\ IF used.report THEN Fail("mobile") /\ UNCHANGED <<tries, batch, seen>>
             ELSE /\ batch' = calls /\ seen' = {} /\ pc' = "call"
                  /\ tries' = ResetConsecutive(tries) /\ UNCHANGED <<status, why>>
    /\ used' = [used EXCEPT !.turns = @ + 1]
    /\ Accepted
    /\ UNCHANGED <<task, ledger, archives, queue, preview, plan, team, gate, stop, history>>

\* The calls of the reply under way: the last assistant message.
CurrentCalls == LET i == CHOOSE i \in DOMAIN messages : messages[i].role = "assistant"
                             /\ \A j \in i + 1 .. Len(messages) : messages[j].role # "assistant"
                IN ToSet(messages[i].ref)

\* Fault: a delegation may share its reply with anything.
FaultMixedBatch == FALSE

\* delegation_batch_needs_separation: a delegation shares its reply only with
\* searches for specialists and reads.
MixedBatch == LET kinds == {c.kind : c \in CurrentCalls}
              IN "delegate" \in kinds /\ kinds \ {"delegate", "specialists", "observe"} # {}

Risk(kind) == CASE kind \in {"risky", "resolve"} -> "high"
                [] kind \in Makes \cup {"visit"} -> "moderate"
                [] OTHER -> "safe"

\* mandatory_dispatch_resolution, whatever the policy, and ApprovalGate.required
Required(kind) == \/ kind = "resolve"
                  \/ task.policy = "cautious" /\ Risk(kind) # "safe"
                  \/ task.policy = "balanced" /\ Risk(kind) = "high"

Result(call, ok) == Message("tool", [call |-> call, ok |-> ok])

NextCall == Head(batch)

\* Fault: a call that was rejected, denied or failed gets no result.
FaultAnswered(ok) == /\ messages' = IF ok THEN Append(messages, Result(NextCall, ok)) ELSE messages
                     /\ batch' = Tail(batch)

Answered(ok) == /\ messages' = Append(messages, Result(NextCall, ok))
                /\ batch' = Tail(batch)

\* Answered by the loop itself: unusable arguments, a mixed batch, a search of
\* the catalogs, a repetition within the reply, a tool the task may not use.
HostAnswers ==
    /\ Works("call") /\ batch # <<>>
    /\ LET k == NextCall.kind
           early == k \in EarlyRejected \cup Catalog \/ MixedBatch
           repeated == k \in seen
           late == k \in LateRejected \/ (task.planner /\ Risk(k) # "safe")
       IN /\ k # "delegate" \/ MixedBatch
          /\ early \/ repeated \/ late
          /\ seen' = IF early THEN seen ELSE seen \cup {k}
          /\ Answered(k \in Catalog /\ ~MixedBatch)
    /\ UNCHANGED <<task, pc, status, why, ledger, archives, queue, budgets, team, gate, stop, used, history>>

Passes(k) == k \notin EarlyRejected \cup LateRejected \cup Catalog \cup seen
             /\ ~MixedBatch /\ (task.planner => Risk(k) = "safe")

\* A call that needs no approval starts; delegations skip the approvals and
\* the test for repetition.
StartTool ==
    /\ Works("call") /\ batch # <<>>
    /\ LET k == NextCall.kind
       IN /\ k # "human" /\ ~MixedBatch
          /\ k = "delegate" \/ (Passes(k) /\ ~Required(k))
          /\ seen' = IF k = "delegate" THEN seen ELSE seen \cup {k}
    /\ pc' = "run"
    /\ UNCHANGED <<task, status, why, messages, ledger, archives, batch, queue, budgets, team, gate, stop, used, history>>

\* The approval is announced and registered with the gate without an await in
\* between.
AskApproval ==
    /\ Works("call") /\ batch # <<>> /\ NextCall.kind # "human"
    /\ Passes(NextCall.kind) /\ Required(NextCall.kind)
    /\ seen' = seen \cup {NextCall.kind}
    /\ status' = "waiting" /\ pc' = "asked"
    /\ gate' = [kind |-> "approval", call |-> NextCall, taken |-> FALSE, answer |-> None]
    /\ UNCHANGED <<task, why, messages, ledger, archives, batch, queue, budgets, team, stop, used, history>>

\* A request for human action is visible two awaits before it is registered.
OfferHuman ==
    /\ Works("call") /\ batch # <<>> /\ NextCall.kind = "human" /\ Passes("human")
    /\ seen' = seen \cup {"human"}
    /\ status' = "waiting_user" /\ pc' = "offered"
    /\ UNCHANGED <<task, why, messages, ledger, archives, batch, queue, budgets, team, gate, stop, used, history>>

RegisterHuman ==
    /\ Works("offered")
    /\ gate' = [kind |-> "human", call |-> NextCall, taken |-> FALSE, answer |-> None]
    /\ pc' = "handed"
    /\ UNCHANGED <<task, status, why, turnState, budgets, team, stop, used, history>>

\* Fault: a preview stays good when the files change.
FaultPreviewAfter(kind, end) ==
    IF kind \in Browsing THEN [verified |-> preview.verified \/ end = "shown",
                               failed |-> end \in {"failed", "denied"}]
                         ELSE preview

\* What the result of a tool does to the preview: a change of the files makes
\* it stale, the page asked for verifies it, and an attempt that failed or was
\* denied says why it cannot be had.  Another page does nothing.
PreviewAfter(kind, end) ==
    CASE kind = "write" /\ end = "ok" -> [verified |-> FALSE, failed |-> FALSE]
      [] kind \in Browsing /\ end = "shown" -> [verified |-> TRUE, failed |-> FALSE]
      [] kind \in Browsing /\ end \in {"failed", "denied"} -> [preview EXCEPT !.failed = TRUE]
      [] OTHER -> preview

\* The future is done: the worker takes its entry out of the gate.  What a
\* denial does to the preview is what a failure does.
ApprovalDecided ==
    /\ Works("asked") /\ gate.answer # None
    /\ gate' = None /\ status' = "running"
    /\ IF gate.answer
       THEN pc' = "run" /\ UNCHANGED <<messages, batch, preview, log>>
       ELSE /\ pc' = "call" /\ Answered(FALSE)
            /\ preview' = PreviewAfter(NextCall.kind, "denied")
            /\ log' = Append(log, [call |-> NextCall, end |-> "denied"])
    /\ UNCHANGED <<task, why, ledger, archives, seen, queue, tries, overflow, plan, team, stop, used, applied, granted>>

HumanDecided ==
    /\ Works("handed") /\ gate.answer # None
    /\ gate' = None /\ status' = "running"
    /\ pc' = "call" /\ Answered(gate.answer)
    /\ UNCHANGED <<task, why, ledger, archives, seen, queue, budgets, team, stop, used, history>>

\* plugin.execute returns or raises.  The confirmation of a settings change is
\* the final answer itself.
ToolReturns(end) ==
    /\ Works("run")
    /\ LET k == NextCall.kind
       IN /\ end = "shown" => k \in Browsing
          /\ log' = Append(log, [call |-> NextCall, end |-> end])
          /\ preview' = PreviewAfter(k, end)
          /\ \/ pc' = "call" /\ Answered(end # "failed") /\ UNCHANGED status
             \/ /\ k = "settings" /\ end = "ok" /\ pc' = "closing" /\ status' = "completed"
                /\ UNCHANGED <<messages, batch>>
    /\ UNCHANGED <<task, why, ledger, archives, seen, queue, tries, overflow, plan, team, gate, stop, used, applied, granted>>

BatchDone ==
    /\ Works("call") /\ batch = <<>>
    /\ pc' = "top" /\ seen' = {}
    /\ UNCHANGED <<task, status, why, messages, ledger, archives, batch, queue, budgets, team, gate, stop, used, history>>

-----------------------------------------------------------------------------
(* The user.                                                               *)

\* TaskManager.steer
Steer ==
    /\ pc # "done" /\ status \in {"queued", "running", "waiting"}
    /\ used.sent < task.followUps
    /\ used' = [used EXCEPT !.sent = @ + 1]
    /\ queue' = Append(queue, used.sent + 1)
    /\ UNCHANGED <<task, pc, status, why, messages, ledger, archives, batch, seen, budgets, team, gate, stop, history>>

\* POST /api/approvals/{id}
DecideApproval(yes) ==
    /\ gate # None /\ gate.kind = "approval" /\ gate.answer = None
    /\ gate' = [gate EXCEPT !.answer = yes]
    /\ granted' = IF yes THEN granted \cup {gate.call} ELSE granted
    /\ UNCHANGED <<task, pc, status, why, turnState, budgets, team, stop, used, applied, log>>

\* POST /api/human-actions/{id}/takeover
TakeOver ==
    /\ gate # None /\ gate.kind = "human" /\ ~gate.taken
    /\ gate' = [gate EXCEPT !.taken = TRUE]
    /\ UNCHANGED <<task, pc, status, why, turnState, budgets, team, stop, used, history>>

\* POST /api/human-actions/{id}/complete
CompleteHuman(done) ==
    /\ gate # None /\ gate.kind = "human" /\ gate.taken /\ gate.answer = None
    /\ gate' = [gate EXCEPT !.answer = done]
    /\ granted' = IF done THEN granted \cup {gate.call} ELSE granted
    /\ UNCHANGED <<task, pc, status, why, turnState, budgets, team, stop, used, applied, log>>

\* TaskManager.cancel: the event, the entries of both gates, the worker.
Stop ==
    /\ pc # "done" /\ ~stop
    /\ stop' = TRUE
    /\ gate' = IF gate # None /\ gate.answer = None THEN [gate EXCEPT !.answer = FALSE] ELSE gate
    /\ UNCHANGED <<task, pc, status, why, turnState, budgets, team, used, history>>

User == Steer \/ TakeOver \/ Stop \/ \E yes \in BOOLEAN : DecideApproval(yes) \/ CompleteHuman(yes)

Worker ==
    \/ Setup \/ Propose \/ Decide \/ \E m \in Member : AskMember(m) \/ Advise(m)
    \/ LoopHead \/ Overflow \/ ProviderFails \/ AnswerOvertaken \/ \E text \in Texts : Text(text)
    \/ Retry \/ Complete \/ Close
    \/ \E kinds \in task.batches : ToolReply(kinds)
    \/ HostAnswers \/ StartTool \/ AskApproval \/ OfferHuman \/ RegisterHuman
    \/ ApprovalDecided \/ HumanDecided \/ BatchDone \/ \E end \in Ends : ToolReturns(end)
    \/ ReportFailure \/ Cleanup \/ Interrupted

Next == Worker \/ User

-----------------------------------------------------------------------------
(* What a run promises.                                                    *)

\* Every request shows the provider, directly after each reply with calls,
\* exactly one result for each of them, in order: no rejection, denial, retry,
\* follow-up or compaction leaves a call open or a result without its call
\* (a provider refuses such a conversation).
ToolResultsComplete ==
    pc = "chat" =>
    /\ \A i \in DOMAIN messages : messages[i].role = "assistant" =>
          \A j \in DOMAIN messages[i].ref :
              /\ i + j \in DOMAIN messages /\ messages[i + j].role = "tool"
              /\ messages[i + j].ref.call = messages[i].ref[j]
    /\ \A i \in DOMAIN messages : messages[i].role = "tool" =>
          \E j \in 1 .. i - 1 : /\ messages[j].role = "assistant"
                                /\ i <= j + Len(messages[j].ref)

\* A follow-up the run took from its queue stays within reach of the provider:
\* in the conversation, or in an archive that a checkpoint of the conversation
\* names, whatever is popped, compacted again or dropped from the ledger.
FollowUpsKept ==
    \A f \in applied : \E i \in DOMAIN messages :
        \/ messages[i].role = "followup" /\ messages[i].ref = f
        \/ messages[i].role = "checkpoint" /\ \E a \in messages[i].ref.archives : f \in a

\* A tool with effects ran only if no approval is asked for by the policy or by
\* the call itself (the settling of an interrupted dispatch), or a person
\* approved this very call; never in the read-only planning mode, twice in a
\* reply, or beside a delegation.
ExecutedOnlyIfAllowed ==
    \A i \in DOMAIN log :
        LET c == log[i].call IN
        /\ log[i].end # "denied" /\ Required(c.kind) => c \in granted
        /\ Risk(c.kind) # "safe" =>
            /\ ~task.planner
            /\ \A j \in DOMAIN log \ {i} : log[j].call.turn = c.turn
                                    => log[j].call.kind \notin {c.kind, "delegate"}

\* Once Stop was accepted no tool of the run ends its work, no request is left
\* in a gate when the run is over, and the run does not become completed.
StopEndsSideEffects ==
    [][stop => /\ log' = log
               /\ pc' = "done" => gate' = None
               /\ status' = "completed" => status = "completed"]_vars

\* After the last change a run made to the files of a web page it reports done,
\* the background browser showed the page, or a call of the browser failed or
\* was denied by the user: what was seen before the change never counts.
PreviewedAfterLastChange ==
    (status = "completed" /\ task.page /\ ~task.planner
        /\ \A i \in DOMAIN log : log[i].call.kind # "settings")
    => \E i \in DOMAIN log :
          /\ log[i].call.kind \in Browsing /\ log[i].end # "ok"
          /\ \A j \in i .. Len(log) : ~(log[j].call.kind = "write" /\ log[j].end = "ok")

\* A model that stops calling tools cannot keep a run alive: it ends, or it
\* waits for a person.
RunEnds == <>[](pc \in {"done", "asked", "handed"})

\* _artifact_materialized (engine.py:1394): "Return whether a declared
\* artifact-producing tool created the file."
NoFalseMissingArtifact ==
    why = "artifact" => \A i \in DOMAIN log : ~(log[i].call.kind \in Makes /\ log[i].end = "ok")

\* The checkpoint's heading (engine.py:1825): "CUMULATIVE PROGRESS LEDGER (all
\* previous checkpoints plus new work)".
LedgerIsCumulative ==
    \A f \in applied : \E i \in DOMAIN messages :
        \/ messages[i].role = "followup" /\ messages[i].ref = f
        \/ messages[i].role = "checkpoint" /\ f \in messages[i].ref.told

\* The event of a completion without a preview (engine.py:3822): the built-in
\* browser was tried first and returned a definite error.
PreviewFailureWasTried ==
    (pc = "final" /\ PreviewRequired /\ ~preview.verified)
    => \E i \in DOMAIN log : log[i].call.kind \in Browsing /\ log[i].end \in {"shown", "failed"}

\* The worker is scheduled, the provider and the tools answer or time out;
\* nobody has to answer a gate or to press Stop.
Spec == Init /\ [][Next]_vars /\ WF_vars(Worker)
=============================================================================
