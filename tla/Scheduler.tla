------------------------------ MODULE Scheduler ------------------------------
(***************************************************************************)
(* Durable schedules (deepdesk/scheduler.py): rows of an SQLite table that *)
(* several operating-system processes and worker threads share.  A due row *)
(* is claimed (a token and a lease), fenced (dispatch_started_at) and only *)
(* then is work created; the acknowledgement clears claim and fence.       *)
(*                                                                         *)
(* An actor is one worker thread executing one call of run_async: a tick   *)
(* (run_due), or a request (create, update, run_now).  Every operation     *)
(* reads the clock ONCE, when it starts, and keeps using that value: the   *)
(* clock of an actor may be arbitrarily stale (a busy database, a slow     *)
(* earlier dispatch of the same tick, a sleeping laptop).                  *)
(***************************************************************************)
EXTENDS Naturals, FiniteSets

CONSTANTS
    Schedules,   \* identifiers of schedules; an identifier is never reused
    Actors,      \* worker threads, of one or several processes
    Timings,     \* the timetables users ask for: [kind, start, end]
    Lease,       \* _DISPATCH_LEASE_SECONDS
    Period,      \* seconds of an interval, a day or a cron step
    RetryDelay,  \* the 60 seconds after which a one-shot is offered again
    MaxTime,     \* bound of the clock (model checking only)
    MaxTokens,   \* bound of the claims taken (model checking only)
    None,        \* SQL NULL
    Deleted      \* the row of a deleted schedule

Kinds == {"interval", "daily", "cron", "at"}
Timing == [kind : Kinds, start : Nat \cup {None}, end : Nat \cup {None}]

ASSUME TimeAssumption ==
    /\ Lease \in Nat \ {0}
    /\ Period \in Nat \ {0}
    /\ RetryDelay \in Nat \ {0}
    /\ MaxTime \in Nat
    /\ MaxTokens \in Nat

\* valid_window: an end lies after the start, daily and at carry a start.
ASSUME TimingAssumption ==
    /\ Timings \subseteq Timing
    /\ \A t \in Timings : /\ t.kind \in {"daily", "at"} => t.start # None
                          /\ t.start # None /\ t.end # None => t.end > t.start

ASSUME NoneAssumption == None \notin Nat

VARIABLES
    row,      \* the table: identifier -> row, None before creation, or Deleted
    op,       \* actor -> the operation it executes
    clock,    \* the wall clock
    issued,   \* claim tokens drawn so far (each uuid4 is a fresh number)
    open,     \* history: schedule -> tokens of calls that created work and
              \* that are neither acknowledged nor given up by the user
    waived,   \* history: tokens whose fence the user cleared (resolve, delete)
    lastDue   \* history: schedule -> the due time last started automatically
              \* under the present timetable, None if none or if retry was asked

vars == <<row, op, clock, issued, open, waived, lastDue>>

NoToken == 0

Row == [timing   : Timings,
        enabled  : BOOLEAN,
        next     : Nat \cup {None},      \* next_run
        token    : Nat,                  \* claim_token
        until    : Nat \cup {None},      \* claim_until
        started  : BOOLEAN,              \* dispatch_started_at is not NULL
        preserve : BOOLEAN,              \* dispatch_preserve_schedule
        before   : BOOLEAN,              \* dispatch_enabled_before
        uncertain: BOOLEAN]              \* last_error says _DISPATCH_UNCERTAIN

ASSUME RowAssumption == None \notin Row /\ Deleted \notin Row /\ Deleted # None

Exists(s) == row[s] \notin {None, Deleted}

\* pc: what the actor does next.  "request": it has read the clock and has its
\* transaction still ahead of it; "claim" belongs to the loop of run_due.
Phases == {"idle", "request", "claim", "refresh", "fence", "call",
           "running", "acked", "notStarted"}

Op == [pc : Phases, now : Nat, s : Schedules \cup {None}, token : Nat,
       tick : BOOLEAN,                   \* run_due: preserve_schedule=False
       snap : Row \cup {None},           \* the row this operation has read
       cancelled : BOOLEAN]

Idle == [pc |-> "idle", now |-> 0, s |-> None, token |-> NoToken,
         tick |-> FALSE, snap |-> None, cancelled |-> FALSE]

TypeOK ==
    /\ row \in [Schedules -> Row \cup {None, Deleted}]
    /\ op \in [Actors -> Op]
    /\ clock \in Nat
    /\ issued \in Nat
    /\ open \in [Schedules -> SUBSET Nat]
    /\ waived \subseteq Nat
    /\ lastDue \in [Schedules -> Nat \cup {None}]

Init ==
    /\ row = [s \in Schedules |-> None]
    /\ op = [a \in Actors |-> Idle]
    /\ clock = 0
    /\ issued = 0
    /\ open = [s \in Schedules |-> {}]
    /\ waived = {}
    /\ lastDue = [s \in Schedules |-> None]

-----------------------------------------------------------------------------
(* The calendar.                                                           *)

\* The first of start, start + Period, ... that lies after `after`.
NextAnchored(start, after) ==
    IF start > after THEN start
                     ELSE start + ((after - start) \div Period + 1) * Period

NextRun(t, after) ==
    CASE t.kind = "at"   -> t.start
      [] t.kind = "cron" -> NextAnchored(0, after)
      [] t.kind \in {"interval", "daily"} ->
            IF t.start = None THEN after + Period
                              ELSE NextAnchored(t.start, after)

PastEnd(t, time) == t.end # None /\ time > t.end

\* The ValueErrors of next_run: a one-shot in the past, nothing before end_at.
HasNextRun(t, after) ==
    /\ t.kind = "at" => t.start > after
    /\ ~PastEnd(t, NextRun(t, after))

\* _following_run: an interval keeps its grid, whatever start_at says.
FaultFollowingDue(r, now) ==   \* fault: the elapsed steps, not one more
    IF r.timing.kind = "interval" /\ r.next # None
    THEN r.next + ((IF now > r.next THEN now - r.next ELSE 0) \div Period) * Period
    ELSE NextRun(r.timing, now)

FollowingDue(r, now) ==
    IF r.timing.kind = "interval" /\ r.next # None
    THEN r.next + ((IF now > r.next THEN now - r.next ELSE 0) \div Period + 1) * Period
    ELSE NextRun(r.timing, now)

Plan(enabled, next) == [enabled |-> enabled, next |-> next]

Following(r, now) ==
    IF r.timing.kind = "at" \/ PastEnd(r.timing, FollowingDue(r, now))
    THEN Plan(FALSE, None)
    ELSE Plan(TRUE, FollowingDue(r, now))

-----------------------------------------------------------------------------
(* Claims and fences.                                                      *)

\* A claim is live in the eyes of an operation that started at `now`.
Live(r, now) == r.token # NoToken /\ r.until # None /\ r.until > now

Unclaimed(r) == [r EXCEPT !.token = NoToken, !.until = None]

Unfenced(r) ==
    [Unclaimed(r) EXCEPT !.started = FALSE, !.preserve = FALSE, !.before = FALSE]

Claimed(r, token, now) == [r EXCEPT !.token = token, !.until = now + Lease]

Replanned(r, plan) == [r EXCEPT !.enabled = plan.enabled, !.next = plan.next]

Finish(a) == op' = [op EXCEPT ![a] = Idle]

\* run_due goes on to the next due row; every other operation has returned.
Return(a) ==
    op' = [op EXCEPT ![a] =
        IF op[a].tick
        THEN [Idle EXCEPT !.pc = "claim", !.now = op[a].now, !.tick = TRUE,
                          !.cancelled = op[a].cancelled]
        ELSE Idle]

-----------------------------------------------------------------------------
(* Requests.  Each reads the clock, then runs one BEGIN IMMEDIATE          *)
(* transaction; another actor may run in between.  A request the code       *)
(* refuses (404, 409 or a ValueError) changes no row.                       *)

StartRequest(a) ==
    /\ op[a].pc = "idle"
    /\ op' = [op EXCEPT ![a] = [Idle EXCEPT !.pc = "request", !.now = clock]]
    /\ UNCHANGED <<row, clock, issued, open, waived, lastDue>>

Refused(a) ==
    /\ op[a].pc = "request"
    /\ Finish(a)
    /\ UNCHANGED <<row, clock, issued, open, waived, lastDue>>

NewRow(timing, enable, now) ==
    [timing |-> timing, enabled |-> enable,
     next |-> IF enable THEN NextRun(timing, now) ELSE None,
     token |-> NoToken, until |-> None, started |-> FALSE,
     preserve |-> FALSE, before |-> FALSE, uncertain |-> FALSE]

Create(a, s, timing, enable) ==
    /\ op[a].pc = "request"
    /\ row[s] = None
    /\ enable => HasNextRun(timing, op[a].now)
    /\ row' = [row EXCEPT ![s] = NewRow(timing, enable, op[a].now)]
    /\ Finish(a)
    /\ UNCHANGED <<clock, issued, open, waived, lastDue>>

\* The branch of update() without resolve_dispatch, for a patch that changes
\* timing (any other patch writes these columns back as they were).
OnlyEndMoves(r, timing, enable) ==
    /\ enable = r.enabled
    /\ timing = [r.timing EXCEPT !.end = timing.end]
    /\ r.next # None

EditedPlan(r, timing, enable, now) ==
    IF ~enable \/ (OnlyEndMoves(r, timing, enable) /\ PastEnd(timing, r.next))
    THEN Plan(FALSE, None)
    ELSE Plan(TRUE, IF OnlyEndMoves(r, timing, enable) THEN r.next
                                                      ELSE NextRun(timing, now))

Edit(a, s, timing, enable) ==
    LET r == row[s] IN
    /\ op[a].pc = "request"
    /\ Exists(s)
    /\ r.timing # timing \/ r.enabled # enable
    /\ ~r.started /\ ~Live(r, op[a].now)
    /\ enable => OnlyEndMoves(r, timing, enable) \/ HasNextRun(timing, op[a].now)
    /\ row' = [row EXCEPT ![s] =
                 [Replanned(r, EditedPlan(r, timing, enable, op[a].now))
                    EXCEPT !.timing = timing]]
    /\ lastDue' = [lastDue EXCEPT ![s] = None]
    /\ Finish(a)
    /\ UNCHANGED <<clock, issued, open, waived>>

\* resolve_dispatch: the user takes an abandoned fence away.
Resolvable(s, now) == Exists(s) /\ row[s].started /\ ~Live(row[s], now)

Waive(s) ==
    /\ waived' = waived \cup {row[s].token}
    /\ open' = [open EXCEPT ![s] = {}]

FaultRestored(r) == Plan(TRUE, r.next)   \* fault: a paused schedule is armed again

Restored(r) == Plan(r.before, r.next)

Resolved(r, plan) == [Replanned(Unfenced(r), plan) EXCEPT !.uncertain = FALSE]

SkipPlan(r, now) ==
    IF ~r.preserve THEN Following(r, now)
    ELSE IF PastEnd(r.timing, now) THEN Plan(FALSE, None) ELSE Restored(r)

Skip(a, s) ==
    /\ op[a].pc = "request"
    /\ Resolvable(s, op[a].now)
    /\ row' = [row EXCEPT ![s] = Resolved(@, SkipPlan(@, op[a].now))]
    /\ Waive(s)
    /\ Finish(a)
    /\ UNCHANGED <<clock, issued, lastDue>>

Retriable(s, now) == Resolvable(s, now) /\ ~PastEnd(row[s].timing, now)

\* A scheduled run is offered again to every tick ...
Retry(a, s) ==
    /\ op[a].pc = "request"
    /\ Retriable(s, op[a].now) /\ ~row[s].preserve
    /\ row' = [row EXCEPT ![s] = Resolved(@, Plan(TRUE, op[a].now))]
    /\ lastDue' = [lastDue EXCEPT ![s] = None]
    /\ Waive(s)
    /\ Finish(a)
    /\ UNCHANGED <<clock, issued>>

\* ... a manual one is claimed for this request in the same transaction, and
\* dispatched as soon as the row has been read back.
RetryManual(a, s) ==
    LET o == op[a] IN
    /\ o.pc = "request"
    /\ Retriable(s, o.now) /\ row[s].preserve
    /\ issued < MaxTokens
    /\ issued' = issued + 1
    /\ row' = [row EXCEPT ![s] =
                 Claimed(Resolved(@, Restored(@)), issued + 1, o.now)]
    /\ Waive(s)
    /\ op' = [op EXCEPT ![a] = [o EXCEPT !.pc = "refresh", !.s = s,
                                         !.token = issued + 1]]
    /\ UNCHANGED <<clock, lastDue>>

Refresh(a) ==
    LET o == op[a] IN
    /\ o.pc = "refresh"
    /\ IF Exists(o.s)
       THEN op' = [op EXCEPT ![a] = [o EXCEPT !.pc = "fence", !.snap = row[o.s]]]
       ELSE Finish(a)
    /\ UNCHANGED <<row, clock, issued, open, waived, lastDue>>

FaultRunNow(a, s) ==   \* fault: an expired fence is taken for an expired claim
    LET o == op[a] IN
    /\ o.pc = "request"
    /\ Exists(s) /\ ~Live(row[s], o.now)
    /\ issued < MaxTokens
    /\ issued' = issued + 1
    /\ row' = [row EXCEPT ![s] = Claimed(@, issued + 1, o.now)]
    /\ op' = [op EXCEPT ![a] = [o EXCEPT !.pc = "fence", !.s = s,
                                 !.token = issued + 1, !.snap = row[s]]]
    /\ UNCHANGED <<clock, open, waived, lastDue>>

RunNow(a, s) ==
    LET o == op[a] IN
    /\ o.pc = "request"
    /\ Exists(s) /\ ~row[s].started /\ ~Live(row[s], o.now)
    /\ issued < MaxTokens
    /\ issued' = issued + 1
    /\ row' = [row EXCEPT ![s] = Claimed(@, issued + 1, o.now)]
    /\ op' = [op EXCEPT ![a] = [o EXCEPT !.pc = "fence", !.s = s,
                                 !.token = issued + 1, !.snap = row[s]]]
    /\ UNCHANGED <<clock, open, waived, lastDue>>

\* delete() asks nothing of the row: a claimed, fenced or running schedule
\* disappears as any other does.
Delete(s) ==
    /\ Exists(s)
    /\ row' = [row EXCEPT ![s] = Deleted]
    /\ waived' = IF row[s].started THEN waived \cup {row[s].token} ELSE waived
    /\ open' = [open EXCEPT ![s] = {}]
    /\ UNCHANGED <<op, clock, issued, lastDue>>

-----------------------------------------------------------------------------
(* Ticks.                                                                  *)

StartTick(a) ==
    /\ op[a].pc = "idle"
    /\ op' = [op EXCEPT ![a] = [Idle EXCEPT !.pc = "claim", !.now = clock,
                                            !.tick = TRUE]]
    /\ UNCHANGED <<row, clock, issued, open, waived, lastDue>>

\* The two UPDATEs that open the transaction of _claim_next_due.
FaultExpired(r, now) ==   \* fault: a manual run of a disabled schedule is overlooked
    r.enabled /\ r.started /\ (r.until = None \/ r.until <= now)

Expired(r, now) == r.started /\ (r.until = None \/ r.until <= now)

Missed(r, now) == r.enabled /\ ~r.started /\ PastEnd(r.timing, now)

FaultSwept(r, now) ==   \* fault: an expired fence is reclaimed like a claim
    CASE Expired(r, now) -> Unfenced(r)
      [] Missed(r, now)  -> [Replanned(Unclaimed(r), Plan(FALSE, None))
                                EXCEPT !.uncertain = FALSE]
      [] OTHER           -> r

Swept(r, now) ==
    CASE Expired(r, now) -> [r EXCEPT !.enabled = FALSE, !.uncertain = TRUE]
      [] Missed(r, now)  -> [Replanned(Unclaimed(r), Plan(FALSE, None))
                                EXCEPT !.uncertain = FALSE]
      [] OTHER           -> r

Sweep(now) == [s \in Schedules |-> IF Exists(s) THEN Swept(row[s], now) ELSE row[s]]

FaultDue(r, now) ==   \* fault: a claim is never reclaimed
    /\ r.enabled /\ ~r.started
    /\ r.next # None /\ r.next <= now
    /\ r.token = NoToken

Due(r, now) ==
    /\ r.enabled /\ ~r.started
    /\ r.next # None /\ r.next <= now
    /\ ~Live(r, now)

DueRows(table, now) ==
    {s \in Schedules : table[s] \notin {None, Deleted} /\ Due(table[s], now)}

ClaimNextDue(a) ==
    LET now == op[a].now
        table == Sweep(now)
        due == DueRows(table, now)
    IN
    /\ op[a].pc = "claim"
    /\ \/ /\ op[a].cancelled
          /\ Finish(a)
          /\ UNCHANGED <<row, issued>>
       \/ /\ ~op[a].cancelled /\ due = {}
          /\ row' = table
          /\ Finish(a)
          /\ UNCHANGED issued
       \/ /\ ~op[a].cancelled
          /\ issued < MaxTokens
          /\ issued' = issued + 1
          /\ \E s \in due :
                /\ \A other \in due : table[s].next <= table[other].next
                /\ row' = [table EXCEPT ![s] = Claimed(@, issued + 1, now)]
                /\ op' = [op EXCEPT ![a] = [@ EXCEPT !.pc = "fence", !.s = s,
                                    !.token = issued + 1, !.snap = table[s]]]
    /\ UNCHANGED <<clock, open, waived, lastDue>>

-----------------------------------------------------------------------------
(* Dispatch.                                                               *)

FaultOwns(a) == Exists(op[a].s)   \* fault: WHERE id=? without the claim token

Owns(a) == Exists(op[a].s) /\ row[op[a].s].token = op[a].token

\* Stop arrived while the claim was taken: release it, if it is still ours.
Release(a) ==
    LET o == op[a] IN
    /\ o.pc = "fence" /\ o.cancelled
    /\ row' = IF Owns(a) /\ ~row[o.s].started
              THEN [row EXCEPT ![o.s] = Unclaimed(@)] ELSE row
    /\ Return(a)
    /\ UNCHANGED <<clock, issued, open, waived, lastDue>>

CanFence(a) ==
    LET o == op[a] IN
    Owns(a) /\ ~row[o.s].started /\ row[o.s].until # None /\ row[o.s].until > o.now

Fenced(r, preserve) ==
    [r EXCEPT !.started = TRUE, !.preserve = preserve, !.before = r.enabled]

Fence(a) ==
    LET o == op[a] IN
    /\ o.pc = "fence" /\ ~o.cancelled
    /\ IF CanFence(a)
       THEN /\ row' = [row EXCEPT ![o.s] = Fenced(@, ~o.tick)]
            /\ lastDue' = IF o.tick THEN [lastDue EXCEPT ![o.s] = o.snap.next]
                                    ELSE lastDue
            /\ op' = [op EXCEPT ![a].pc = "call"]
       ELSE Return(a) /\ UNCHANGED <<row, lastDue>>
    /\ UNCHANGED <<clock, issued, open, waived>>

\* dispatch_on_owner_loop: cancelled, or the dispatcher is entered and a task
\* is created.
CallDispatch(a) ==
    LET o == op[a] IN
    /\ o.pc = "call"
    /\ \/ /\ o.cancelled
          /\ op' = [op EXCEPT ![a].pc = "notStarted"]
          /\ UNCHANGED open
       \/ /\ ~o.cancelled
          /\ op' = [op EXCEPT ![a].pc = "running"]
          /\ open' = IF o.token \in waived THEN open
                     ELSE [open EXCEPT ![o.s] = @ \cup {o.token}]
    /\ UNCHANGED <<row, clock, issued, waived, lastDue>>

Acknowledged(a) ==
    /\ op[a].pc = "running"
    /\ op' = [op EXCEPT ![a].pc = "acked"]
    /\ UNCHANGED <<row, clock, issued, open, waived, lastDue>>

\* Any other exception of the dispatcher, or no task id: nobody knows whether
\* a task exists, the fence stays and the lease ends now.
DispatchFails(a) ==
    LET o == op[a] IN
    /\ o.pc = "running"
    /\ row' = IF Owns(a)
              THEN [row EXCEPT ![o.s] = [@ EXCEPT !.enabled = FALSE,
                        !.uncertain = TRUE, !.until = o.now]]
              ELSE row
    /\ Return(a)
    /\ UNCHANGED <<clock, issued, open, waived, lastDue>>

\* What the acknowledgement writes, computed from the row read at the claim.
FaultNextPlan(a) ==   \* fault: a one-shot that was not started is over
    LET o == op[a] IN
    IF o.tick THEN Following(o.snap, o.now) ELSE Plan(o.snap.enabled, o.snap.next)

NextPlan(a) ==
    LET o == op[a] IN
    CASE ~o.tick -> Plan(o.snap.enabled, o.snap.next)
      [] o.tick /\ o.pc = "notStarted" /\ o.snap.timing.kind = "at" ->
            IF PastEnd(o.snap.timing, o.now + RetryDelay)
            THEN Plan(FALSE, None) ELSE Plan(TRUE, o.now + RetryDelay)
      [] OTHER -> Following(o.snap, o.now)

Settle(a) ==
    LET o == op[a] IN
    /\ o.pc \in {"acked", "notStarted"}
    /\ IF Owns(a)
       THEN /\ row' = [row EXCEPT ![o.s] = [Replanned(Unfenced(@), NextPlan(a))
                                              EXCEPT !.uncertain = FALSE]]
            /\ open' = [open EXCEPT ![o.s] = @ \ {o.token}]
       ELSE UNCHANGED <<row, open>>
    /\ Return(a)
    /\ UNCHANGED <<clock, issued, waived, lastDue>>

-----------------------------------------------------------------------------
(* The environment.                                                        *)

\* Stop, shutdown or a closed request: the worker is told, and joined.
Cancel(a) ==
    /\ op[a].pc # "idle" /\ ~op[a].cancelled
    /\ op' = [op EXCEPT ![a].cancelled = TRUE]
    /\ UNCHANGED <<row, clock, issued, open, waived, lastDue>>

\* The process dies, or a database write of the operation fails and the
\* exception ends it: what is not in the table is forgotten.
Crash(a) ==
    /\ op[a].pc # "idle"
    /\ Finish(a)
    /\ UNCHANGED <<row, clock, issued, open, waived, lastDue>>

Tick ==
    /\ clock < MaxTime
    /\ clock' = clock + 1
    /\ UNCHANGED <<row, op, issued, open, waived, lastDue>>

Request(a) ==
    \/ StartRequest(a) \/ Refused(a)
    \/ \E s \in Schedules :
        \/ \E timing \in Timings, enable \in BOOLEAN :
                Create(a, s, timing, enable) \/ Edit(a, s, timing, enable)
        \/ Skip(a, s) \/ Retry(a, s) \/ RetryManual(a, s) \/ RunNow(a, s)

RunDue(a) == StartTick(a) \/ ClaimNextDue(a)

Dispatch(a) ==
    \/ Refresh(a) \/ Release(a) \/ Fence(a) \/ CallDispatch(a)
    \/ Acknowledged(a) \/ DispatchFails(a) \/ Settle(a)

Next ==
    \/ \E a \in Actors :
        Request(a) \/ RunDue(a) \/ Dispatch(a) \/ Cancel(a) \/ Crash(a)
    \/ \E s \in Schedules : Delete(s)
    \/ Tick

Spec == Init /\ [][Next]_vars

-----------------------------------------------------------------------------
(* Properties.                                                             *)

\* The columns of a row agree, whatever sequence of edits, claims, fences,
\* sweeps, manual runs and resolutions wrote them: a row shown as enabled, or
\* to be enabled again when its fence is resolved, has a due time (a tick takes
\* only rows with next_run IS NOT NULL, so an armed row without one would never
\* run and nothing would say so); what a fence remembers of the schedule goes
\* with the fence; a token and its lease are set and cleared together, and a
\* fence always names the claim it belongs to, so that an acknowledgement
\* (WHERE claim_token=?) can lift it and a sweep sees it expire.
Agrees(r) ==
    /\ r.enabled \/ r.before => r.next # None
    /\ r.before \/ r.preserve => r.started
    /\ r.token = NoToken <=> r.until = None
    /\ r.started => r.token # NoToken

RowsAgree == \A s \in Schedules : Exists(s) => Agrees(row[s])

\* At most one automatic outcome per row: as long as a call that created work
\* is neither acknowledged nor resolved by the user - whatever crashed, expired
\* or was stopped meanwhile - the row carries the fence of exactly that call,
\* so no other actor can start the schedule ("losing the acknowledgement must
\* never be interpreted as no task created", _claim_next_due).
OpenCallIsFenced ==
    \A s \in Schedules : open[s] # {} =>
        /\ Exists(s)
        /\ row[s].started
        /\ open[s] = {row[s].token}

\* Two actors are inside the dispatcher for one schedule only after a user has
\* resolved or deleted the fence of one of them.
Calling(a, s) == op[a].pc \in {"call", "running", "acked", "notStarted"} /\ op[a].s = s

NoUnapprovedOverlap ==
    \A s \in Schedules, a, b \in Actors :
        a # b /\ Calling(a, s) /\ Calling(b, s) =>
            op[a].token \in waived \/ op[b].token \in waived

\* A due time is dispatched once: whatever stale clock computed it, the due
\* time of an armed row lies after the last one started, until the user
\* changes the timetable or asks for a retry.
NextAfterLastDue ==
    \A s \in Schedules :
        Exists(s) /\ ~row[s].started /\ row[s].next # None /\ lastDue[s] # None =>
            row[s].next > lastDue[s]

\* A fence disappears in three ways only: its owner acknowledges, the user
\* resolves it after its lease, or the schedule is deleted.
FenceLifted(s) == Exists(s) /\ row[s].started /\ ~(Exists(s)' /\ row'[s].started)

FenceLiftedByOwnerOrUser ==
    [][\A s \in Schedules : FenceLifted(s) =>
        \/ \E a \in Actors : /\ op[a].pc \in {"acked", "notStarted"}
                              /\ op[a].s = s /\ op[a].token = row[s].token
        \/ row[s].token \in waived' /\ (Exists(s)' => row[s].until <= clock)]_vars

\* A one-shot that was armed when it was fenced is disarmed by its dispatch
\* only if work began, the user gave it up, or its end is nearer than the
\* retry ("A one-shot task must not disappear", _dispatch).
OneShotNotLost ==
    [][\A a \in Actors, s \in Schedules :
        LET o == op[a] IN
        /\ o.pc \in {"acked", "notStarted"} /\ o.tick /\ o.s = s
        /\ o.snap.timing.kind = "at"
        /\ Exists(s) /\ row[s].token = o.token /\ row[s].started
        /\ Exists(s)' /\ ~row'[s].started /\ ~row'[s].enabled
        => \/ o.token \in open[s]
           \/ o.token \in waived'
           \/ PastEnd(o.snap.timing, o.now + RetryDelay)]_vars

\* "end_at limits actual automatic startup, not only next_run math"
\* (_claim_next_due): a tick takes no row whose end lies in the past.
EndLimitsStartup ==
    [][\A a \in Actors :
        op[a].pc = "claim" /\ op'[a].pc = "fence" =>
            ~PastEnd(op'[a].snap.timing, clock)]_vars

-----------------------------------------------------------------------------
(* Liveness.  _loop runs a tick every second and survives every exception; *)
(* an application that is started again and again completes some tick.     *)

FullTick(a) == ~op[a].cancelled /\ ClaimNextDue(a)

Fairness ==
    \A a \in Actors : /\ WF_vars(Dispatch(a) \/ Refused(a) \/ ClaimNextDue(a))
                       /\ SF_vars(StartTick(a))
                       /\ SF_vars(FullTick(a))

FairSpec == Spec /\ Fairness

\* A fence nobody will acknowledge does not stay silent: once its lease is
\* over, the row is shown as uncertain (or acknowledged, resolved, deleted), so
\* the user can resolve it.
AbandonedFenceSurfaces ==
    \A s \in Schedules :
        (Exists(s) /\ row[s].started /\ row[s].until <= clock)
            ~> (Exists(s) /\ row[s].started => row[s].uncertain)

\* A due row that nobody holds - also one whose claimant died - is eventually
\* taken by a tick, or stops being due (within the bound on the claims drawn).
Waiting(s) ==
    /\ Exists(s) /\ row[s].enabled /\ ~row[s].started
    /\ row[s].next # None /\ row[s].next <= clock
    /\ row[s].token # NoToken => row[s].until <= clock

DueIsTaken ==
    \A s \in Schedules : Waiting(s) ~> (~Waiting(s) \/ issued = MaxTokens)

=============================================================================
