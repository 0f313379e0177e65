--------------------------- MODULE SchedulerProofs ---------------------------
(***************************************************************************)
(* Scheduler: type correctness, the at-most-once dispatch, the due times   *)
(* and the lifting of fences, for every number of schedules and actors,    *)
(* every lease, period, retry delay and bound.                             *)
(***************************************************************************)
EXTENDS Scheduler, TLAPS

PlanType == [enabled : BOOLEAN, next : Nat \cup {None}]

-----------------------------------------------------------------------------
(* The calendar stays among the natural numbers.                           *)

\* Counting whole periods from a start leads to a time that is not before it.
LEMMA NextAnchoredType ==
    ASSUME NEW start \in Nat, NEW after \in Nat
    PROVE  NextAnchored(start, after) \in Nat
<1>1. CASE start > after
  BY <1>1 DEF NextAnchored
<1>2. CASE ~(start > after)
  <2>1. after - start \in Nat
    BY <1>2
  <2>2. (after - start) \div Period \in Nat
    BY <2>1, TimeAssumption
  <2>3. ((after - start) \div Period + 1) * Period \in Nat
    BY <2>2, TimeAssumption
  <2> QED BY <1>2, <2>3 DEF NextAnchored
<1> QED BY <1>1, <1>2

\* next_run of any timetable a user may ask for is a time.
LEMMA NextRunType ==
    ASSUME NEW t \in Timings, NEW after \in Nat
    PROVE  NextRun(t, after) \in Nat
<1>1. /\ t.kind \in Kinds
      /\ t.start \in Nat \cup {None}
      /\ t.kind \in {"daily", "at"} => t.start \in Nat
  BY TimingAssumption, NoneAssumption DEF Timing
<1>2. CASE t.kind = "at"
  BY <1>1, <1>2 DEF NextRun
<1>3. CASE t.kind = "cron"
  BY <1>1, <1>3, NextAnchoredType DEF NextRun
<1>4. CASE t.kind \in {"interval", "daily"}
  <2>1. NextRun(t, after) = IF t.start = None THEN after + Period
                                              ELSE NextAnchored(t.start, after)
    BY <1>4 DEF NextRun
  <2>2. after + Period \in Nat
    BY TimeAssumption
  <2> QED BY <1>1, <2>1, <2>2, NextAnchoredType
<1> QED BY <1>1, <1>2, <1>3, <1>4 DEF Kinds

\* _following_run computes a time for every row.
LEMMA FollowingDueType ==
    ASSUME NEW r \in Row, NEW now \in Nat
    PROVE  FollowingDue(r, now) \in Nat
<1> DEFINE ahead == IF now > r.next THEN now - r.next ELSE 0
<1>1. CASE r.timing.kind = "interval" /\ r.next # None
  <2>1. r.next \in Nat
    BY <1>1 DEF Row
  <2>2. ahead \in Nat
    BY <2>1
  <2>3. ahead \div Period \in Nat
    BY <2>2, TimeAssumption
  <2>4. (ahead \div Period + 1) * Period \in Nat
    BY <2>3, TimeAssumption
  <2> QED BY <1>1, <2>1, <2>4 DEF FollowingDue
<1>2. CASE ~(r.timing.kind = "interval" /\ r.next # None)
  BY <1>2, NextRunType DEF FollowingDue, Row
<1> QED BY <1>1, <1>2

\* _following_run yields a plan for every row.
LEMMA FollowingType ==
    ASSUME NEW r \in Row, NEW now \in Nat
    PROVE  Following(r, now) \in PlanType
BY FollowingDueType DEF Following, Plan, PlanType

-----------------------------------------------------------------------------
(* Type correctness.                                                       *)

\* Every operator that rewrites a row yields a row.
LEMMA RowTypes ==
    ASSUME NEW r \in Row, NEW now \in Nat
    PROVE  /\ Unclaimed(r) \in Row
           /\ Unfenced(r) \in Row
           /\ \A token \in Nat : Claimed(r, token, now) \in Row
           /\ \A plan \in PlanType : Replanned(r, plan) \in Row
           /\ \A plan \in PlanType : Resolved(r, plan) \in Row
           /\ \A preserve \in BOOLEAN : Fenced(r, preserve) \in Row
           /\ Restored(r) \in PlanType
           /\ SkipPlan(r, now) \in PlanType
           /\ Swept(r, now) \in Row
<1>1. Unclaimed(r) \in Row
  BY DEF Unclaimed, Row, NoToken
<1>2. Unfenced(r) \in Row
  BY <1>1 DEF Unfenced, Row
<1>3. \A token \in Nat : Claimed(r, token, now) \in Row
  <2>1. now + Lease \in Nat
    BY TimeAssumption
  <2> QED BY <2>1 DEF Claimed, Row
<1>4. \A q \in Row, plan \in PlanType : Replanned(q, plan) \in Row
  BY DEF Replanned, Row, PlanType
<1>5. \A plan \in PlanType : Resolved(r, plan) \in Row
  <2>1. \A q \in Row : [q EXCEPT !.uncertain = FALSE] \in Row
    BY DEF Row
  <2> QED BY <1>2, <1>4, <2>1 DEF Resolved
<1>6. \A preserve \in BOOLEAN : Fenced(r, preserve) \in Row
  BY DEF Fenced, Row
<1>7. Plan(FALSE, None) \in PlanType
  BY DEF Plan, PlanType
<1>8. Restored(r) \in PlanType
  BY DEF Restored, Plan, PlanType, Row
<1>9. SkipPlan(r, now) \in PlanType
  BY <1>7, <1>8, FollowingType DEF SkipPlan
<1>10. Swept(r, now) \in Row
  <2>1. [r EXCEPT !.enabled = FALSE, !.uncertain = TRUE] \in Row
    BY DEF Row
  <2>2. [Replanned(Unclaimed(r), Plan(FALSE, None)) EXCEPT !.uncertain = FALSE] \in Row
    <3>1. Replanned(Unclaimed(r), Plan(FALSE, None)) \in Row
      BY <1>1, <1>4, <1>7
    <3> QED BY <3>1 DEF Row
  <2>3. CASE Expired(r, now)
    BY <2>1, <2>3 DEF Swept, Expired, Missed
  <2>4. CASE ~Expired(r, now) /\ Missed(r, now)
    BY <2>2, <2>4 DEF Swept, Expired, Missed
  <2>5. CASE ~Expired(r, now) /\ ~Missed(r, now)
    BY <2>5 DEF Swept
  <2> QED BY <2>3, <2>4, <2>5
<1> QED BY <1>1, <1>2, <1>3, <1>4, <1>5, <1>6, <1>8, <1>9, <1>10

\* What the operation of an actor holds in each phase: from the fence on it has
\* a schedule, a token of its own and the row it read.
HoldsClaim(a) ==
    op[a].pc \in {"refresh", "fence", "call", "running", "acked", "notStarted"}

HasRead(a) ==
    op[a].pc \in {"fence", "call", "running", "acked", "notStarted"}

OpTyped ==
    \A a \in Actors :
        /\ HoldsClaim(a) => op[a].s \in Schedules /\ op[a].token # NoToken
        /\ HasRead(a) => op[a].snap \in Row

Typed == TypeOK /\ OpTyped

\* The idle operation, and the operation a finished dispatch leaves behind.
LEMMA OpTypes ==
    /\ Idle \in Op
    /\ \A o \in Op : [Idle EXCEPT !.pc = "claim", !.now = o.now, !.tick = TRUE,
                                   !.cancelled = o.cancelled] \in Op
BY NoneAssumption DEF Idle, Op, Phases, NoToken

\* Every acknowledgement writes a plan.
LEMMA NextPlanType ==
    ASSUME Typed, NEW a \in Actors, HasRead(a)
    PROVE  NextPlan(a) \in PlanType
<1>1. op[a] \in Op /\ op[a].snap \in Row /\ op[a].now \in Nat
  BY DEF Typed, TypeOK, OpTyped, Op
<1>2. Following(op[a].snap, op[a].now) \in PlanType
  BY <1>1, FollowingType
<1>3. op[a].now + RetryDelay \in Nat
  BY <1>1, TimeAssumption
<1>4. /\ Plan(op[a].snap.enabled, op[a].snap.next) \in PlanType
      /\ Plan(FALSE, None) \in PlanType
      /\ Plan(TRUE, op[a].now + RetryDelay) \in PlanType
  BY <1>1, <1>3 DEF Plan, PlanType, Row
<1> QED BY <1>2, <1>4 DEF NextPlan

\* An operation that ends leaves a typed operation behind.
LEMMA ReturnTyped ==
    ASSUME Typed, NEW a \in Actors, Finish(a) \/ Return(a)
    PROVE  op' \in [Actors -> Op] /\ OpTyped'
<1> DEFINE next == [Idle EXCEPT !.pc = "claim", !.now = op[a].now, !.tick = TRUE,
                                !.cancelled = op[a].cancelled]
<1>1. op \in [Actors -> Op] /\ op[a] \in Op
  BY DEF Typed, TypeOK
<1>2. Idle \in Op /\ next \in Op
  BY <1>1, OpTypes
<1>3. Idle.pc = "idle" /\ next.pc = "claim"
  BY DEF Idle
<1>4. op' = [op EXCEPT ![a] = Idle] \/ op' = [op EXCEPT ![a] = next]
  BY DEF Finish, Return
<1> HIDE DEF next
<1>5. \A b \in Actors : op'[b] = op[b] \/ op'[b] = Idle \/ op'[b] = next
  BY <1>1, <1>4
<1>6. op' \in [Actors -> Op]
  BY <1>1, <1>2, <1>4
<1>7. OpTyped'
  BY <1>3, <1>5 DEF Typed, OpTyped, HoldsClaim, HasRead
<1> QED BY <1>6, <1>7

\* A step that only moves one actor on preserves the typing if its new
\* operation is typed.
LEMMA MoveTyped ==
    ASSUME Typed, NEW a \in Actors, NEW o \in Op,
           op' = [op EXCEPT ![a] = o],
           o.pc \in {"refresh", "fence", "call", "running", "acked", "notStarted"} =>
               o.s \in Schedules /\ o.token # NoToken,
           o.pc \in {"fence", "call", "running", "acked", "notStarted"} => o.snap \in Row
    PROVE  op' \in [Actors -> Op] /\ OpTyped'
<1>1. op \in [Actors -> Op]
  BY DEF Typed, TypeOK
<1>2. op' \in [Actors -> Op]
  BY <1>1
<1>3. \A b \in Actors : op'[b] = IF b = a THEN o ELSE op[b]
  BY <1>1
<1>4. OpTyped'
  BY <1>3 DEF Typed, OpTyped, HoldsClaim, HasRead
<1> QED BY <1>2, <1>4

\* A row that exists is a row.
LEMMA ExistsRow ==
    ASSUME Typed, NEW s \in Schedules, Exists(s)
    PROVE  row[s] \in Row
BY DEF Typed, TypeOK, Exists

\* TypeOK holds initially, with nobody holding a claim.
LEMMA InitTyped == Init => Typed
<1>1. Idle \in Op /\ Idle.pc = "idle"
  BY OpTypes DEF Idle
<1>2. Init => TypeOK
  BY <1>1 DEF Init, TypeOK
<1>3. Init => OpTyped
  BY <1>1 DEF Init, OpTyped, HoldsClaim, HasRead
<1> QED BY <1>2, <1>3 DEF Typed

\* Requests.
LEMMA RequestTyped ==
    ASSUME Typed, NEW a \in Actors, Request(a)
    PROVE  Typed'
<1> USE DEF Typed
<1>1. op[a] \in Op /\ op[a].now \in Nat
  BY DEF TypeOK, Op
<1>2. CASE StartRequest(a)
  <2> DEFINE o == [Idle EXCEPT !.pc = "request", !.now = clock]
  <2>1. o \in Op /\ o.pc = "request"
    BY NoneAssumption DEF TypeOK, Idle, Op, Phases, NoToken
  <2>2. op' = [op EXCEPT ![a] = o]
    BY <1>2 DEF StartRequest
  <2> HIDE DEF o
  <2>3. op' \in [Actors -> Op] /\ OpTyped'
    BY <2>1, <2>2, MoveTyped
  <2> QED BY <1>2, <2>3 DEF StartRequest, TypeOK
<1>3. CASE Refused(a)
  <2>1. op' \in [Actors -> Op] /\ OpTyped'
    BY <1>3, ReturnTyped DEF Refused
  <2> QED BY <1>3, <2>1 DEF Refused, TypeOK
<1>4. ASSUME NEW s \in Schedules, NEW timing \in Timings, NEW enable \in BOOLEAN,
             Create(a, s, timing, enable)
      PROVE  Typed'
  <2>1. NewRow(timing, enable, op[a].now) \in Row
    BY <1>1, NextRunType DEF NewRow, Row, NoToken
  <2>2. op' \in [Actors -> Op] /\ OpTyped'
    BY <1>4, ReturnTyped DEF Create
  <2> QED BY <1>4, <2>1, <2>2 DEF Create, TypeOK
<1>5. ASSUME NEW s \in Schedules, NEW timing \in Timings, NEW enable \in BOOLEAN,
             Edit(a, s, timing, enable)
      PROVE  Typed'
  <2> DEFINE plan == EditedPlan(row[s], timing, enable, op[a].now)
  <2>1. row[s] \in Row
    BY <1>5, ExistsRow DEF Edit
  <2>2. plan \in PlanType
    BY <1>1, <2>1, NextRunType DEF EditedPlan, OnlyEndMoves, Plan, PlanType, Row
  <2>3. Replanned(row[s], plan) \in Row
    BY <1>1, <2>1, <2>2, RowTypes
  <2> HIDE DEF plan
  <2>4. [Replanned(row[s], plan) EXCEPT !.timing = timing] \in Row
    BY <2>3 DEF Row
  <2>5. op' \in [Actors -> Op] /\ OpTyped'
    BY <1>5, ReturnTyped DEF Edit
  <2>6. row' = [row EXCEPT ![s] = [Replanned(row[s], plan) EXCEPT !.timing = timing]]
    BY <1>5 DEF Edit, plan
  <2> QED BY <1>5, <2>4, <2>5, <2>6 DEF Edit, TypeOK
<1>6. ASSUME NEW s \in Schedules, Skip(a, s)
      PROVE  Typed'
  <2>1. row[s] \in Row
    BY <1>6, ExistsRow DEF Skip, Resolvable
  <2>2. SkipPlan(row[s], op[a].now) \in PlanType
    BY <1>1, <2>1, RowTypes
  <2>3. Resolved(row[s], SkipPlan(row[s], op[a].now)) \in Row
    BY <1>1, <2>1, <2>2, RowTypes
  <2>4. op' \in [Actors -> Op] /\ OpTyped'
    BY <1>6, ReturnTyped DEF Skip
  <2>5. row[s].token \in Nat
    BY <2>1 DEF Row
  <2> QED BY <1>6, <2>3, <2>4, <2>5 DEF Skip, Waive, TypeOK
<1>7. ASSUME NEW s \in Schedules, Retry(a, s)
      PROVE  Typed'
  <2>1. row[s] \in Row
    BY <1>7, ExistsRow DEF Retry, Retriable, Resolvable
  <2>2. Plan(TRUE, op[a].now) \in PlanType
    BY <1>1 DEF Plan, PlanType
  <2>3. Resolved(row[s], Plan(TRUE, op[a].now)) \in Row
    BY <1>1, <2>1, <2>2, RowTypes
  <2>4. op' \in [Actors -> Op] /\ OpTyped'
    BY <1>7, ReturnTyped DEF Retry
  <2>5. row[s].token \in Nat
    BY <2>1 DEF Row
  <2> QED BY <1>7, <2>3, <2>4, <2>5 DEF Retry, Waive, TypeOK
<1>8. ASSUME NEW s \in Schedules, RetryManual(a, s)
      PROVE  Typed'
  <2> DEFINE o == [op[a] EXCEPT !.pc = "refresh", !.s = s, !.token = issued + 1]
             freed == Resolved(row[s], Restored(row[s]))
  <2>1. row[s] \in Row
    BY <1>8, ExistsRow DEF RetryManual, Retriable, Resolvable
  <2>2. freed \in Row
    BY <1>1, <2>1, RowTypes
  <2>3. issued \in Nat /\ issued + 1 \in Nat /\ issued + 1 # 0
    BY DEF TypeOK
  <2> HIDE DEF freed
  <2>4. Claimed(freed, issued + 1, op[a].now) \in Row
    BY <1>1, <2>2, <2>3, RowTypes
  <2>5. o \in Op /\ o.pc = "refresh" /\ o.s = s /\ o.token = issued + 1
    BY <1>1, <2>3 DEF Op, Phases
  <2>6. op' = [op EXCEPT ![a] = o]
    BY <1>8 DEF RetryManual
  <2> HIDE DEF o
  <2>7. op' \in [Actors -> Op] /\ OpTyped'
    BY <2>3, <2>5, <2>6, MoveTyped DEF NoToken
  <2>8. row[s].token \in Nat
    BY <2>1 DEF Row
  <2>9. row' = [row EXCEPT ![s] = Claimed(freed, issued + 1, op[a].now)]
    BY <1>8 DEF RetryManual, freed
  <2> QED BY <1>8, <2>3, <2>4, <2>7, <2>8, <2>9 DEF RetryManual, Waive, TypeOK
<1>9. ASSUME NEW s \in Schedules, RunNow(a, s)
      PROVE  Typed'
  <2> DEFINE o == [op[a] EXCEPT !.pc = "fence", !.s = s, !.token = issued + 1,
                                !.snap = row[s]]
  <2>1. row[s] \in Row
    BY <1>9, ExistsRow DEF RunNow
  <2>2. issued \in Nat /\ issued + 1 \in Nat /\ issued + 1 # 0
    BY DEF TypeOK
  <2>3. Claimed(row[s], issued + 1, op[a].now) \in Row
    BY <1>1, <2>1, <2>2, RowTypes
  <2>4. /\ o \in Op /\ o.pc = "fence" /\ o.s = s /\ o.token = issued + 1
        /\ o.snap = row[s]
    BY <1>1, <2>1, <2>2 DEF Op, Phases
  <2>5. op' = [op EXCEPT ![a] = o]
    BY <1>9 DEF RunNow
  <2> HIDE DEF o
  <2>6. op' \in [Actors -> Op] /\ OpTyped'
    BY <2>1, <2>2, <2>4, <2>5, MoveTyped DEF NoToken
  <2> QED BY <1>9, <2>2, <2>3, <2>6 DEF RunNow, TypeOK
<1> QED BY <1>2, <1>3, <1>4, <1>5, <1>6, <1>7, <1>8, <1>9 DEF Request

\* The sweep that opens a claim transaction rewrites rows into rows and keeps
\* absent and deleted ones.
LEMMA SweepTyped ==
    ASSUME Typed, NEW now \in Nat
    PROVE  /\ Sweep(now) \in [Schedules -> Row \cup {None, Deleted}]
           /\ \A s \in Schedules :
                Sweep(now)[s] = IF Exists(s) THEN Swept(row[s], now) ELSE row[s]
<1>1. \A s \in Schedules : Exists(s) => Swept(row[s], now) \in Row
  BY ExistsRow, RowTypes
<1>2. \A s \in Schedules : row[s] \in Row \cup {None, Deleted}
  BY DEF Typed, TypeOK
<1> QED BY <1>1, <1>2 DEF Sweep

\* Ticks.
LEMMA RunDueTyped ==
    ASSUME Typed, NEW a \in Actors, RunDue(a)
    PROVE  Typed'
<1> USE DEF Typed
<1>1. op[a] \in Op /\ op[a].now \in Nat
  BY DEF TypeOK, Op
<1>2. CASE StartTick(a)
  <2> DEFINE o == [Idle EXCEPT !.pc = "claim", !.now = clock, !.tick = TRUE]
  <2>1. o \in Op /\ o.pc = "claim"
    BY NoneAssumption DEF TypeOK, Idle, Op, Phases, NoToken
  <2>2. op' = [op EXCEPT ![a] = o]
    BY <1>2 DEF StartTick
  <2> HIDE DEF o
  <2>3. op' \in [Actors -> Op] /\ OpTyped'
    BY <2>1, <2>2, MoveTyped
  <2> QED BY <1>2, <2>3 DEF StartTick, TypeOK
<1>3. CASE ClaimNextDue(a)
  <2> DEFINE table == Sweep(op[a].now)
  <2>1. table \in [Schedules -> Row \cup {None, Deleted}]
    BY <1>1, SweepTyped
  <2>2. CASE Finish(a) /\ (row' = row \/ row' = table) /\ issued' = issued
    <3>1. op' \in [Actors -> Op] /\ OpTyped'
      BY <2>2, ReturnTyped
    <3> QED BY <1>3, <2>1, <2>2, <3>1 DEF ClaimNextDue, TypeOK
  <2>3. ASSUME NEW s \in DueRows(table, op[a].now),
               issued' = issued + 1,
               row' = [table EXCEPT ![s] = Claimed(@, issued + 1, op[a].now)],
               op' = [op EXCEPT ![a] = [@ EXCEPT !.pc = "fence", !.s = s,
                                !.token = issued + 1, !.snap = table[s]]]
        PROVE  Typed'
    <3> DEFINE o == [op[a] EXCEPT !.pc = "fence", !.s = s, !.token = issued + 1,
                                  !.snap = table[s]]
    <3>1. s \in Schedules /\ table[s] \in Row
      BY <2>1 DEF DueRows
    <3>2. issued \in Nat /\ issued + 1 \in Nat /\ issued + 1 # 0
      BY DEF TypeOK
    <3>3. Claimed(table[s], issued + 1, op[a].now) \in Row
      BY <1>1, <3>1, <3>2, RowTypes
    <3>4. /\ o \in Op /\ o.pc = "fence" /\ o.s = s /\ o.token = issued + 1
          /\ o.snap = table[s]
      BY <1>1, <3>1, <3>2 DEF Op, Phases
    <3>5. op' = [op EXCEPT ![a] = o]
      BY <2>3
    <3> HIDE DEF o
    <3>6. op' \in [Actors -> Op] /\ OpTyped'
      BY <3>1, <3>2, <3>4, <3>5, MoveTyped DEF NoToken
    <3> QED BY <1>3, <2>1, <2>3, <3>2, <3>3, <3>6 DEF ClaimNextDue, TypeOK
  <2> QED BY <1>3, <2>2, <2>3 DEF ClaimNextDue
<1> QED BY <1>2, <1>3 DEF RunDue

\* The steps of one dispatch.
LEMMA DispatchTyped ==
    ASSUME Typed, NEW a \in Actors, Dispatch(a)
    PROVE  Typed'
<1> USE DEF Typed
<1>1. op[a] \in Op /\ op[a].now \in Nat /\ op[a].token \in Nat
  BY DEF TypeOK, Op
<1>2. HoldsClaim(a) => op[a].s \in Schedules /\ op[a].token # NoToken
  BY DEF OpTyped
<1>3. HasRead(a) => op[a].snap \in Row
  BY DEF OpTyped
<1>4. Owns(a) /\ HoldsClaim(a) => row[op[a].s] \in Row
  BY <1>2, ExistsRow DEF Owns
<1>5. CASE Refresh(a)
  <2> DEFINE o == [op[a] EXCEPT !.pc = "fence", !.snap = row[op[a].s]]
  <2>1. op[a].s \in Schedules /\ op[a].token # NoToken
    BY <1>2, <1>5 DEF Refresh, HoldsClaim
  <2>2. CASE Exists(op[a].s)
    <3>1. row[op[a].s] \in Row
      BY <2>1, <2>2, ExistsRow
    <3>2. /\ o \in Op /\ o.pc = "fence" /\ o.s = op[a].s
          /\ o.token = op[a].token /\ o.snap = row[op[a].s]
      BY <1>1, <3>1 DEF Op, Phases
    <3>3. op' = [op EXCEPT ![a] = o]
      BY <1>5, <2>2 DEF Refresh
    <3> HIDE DEF o
    <3>4. op' \in [Actors -> Op] /\ OpTyped'
      BY <2>1, <3>1, <3>2, <3>3, MoveTyped
    <3> QED BY <1>5, <3>4 DEF Refresh, TypeOK
  <2>3. CASE ~Exists(op[a].s)
    <3>1. op' \in [Actors -> Op] /\ OpTyped'
      BY <1>5, <2>3, ReturnTyped DEF Refresh
    <3> QED BY <1>5, <3>1 DEF Refresh, TypeOK
  <2> QED BY <2>2, <2>3
<1>6. CASE Release(a)
  <2>1. op' \in [Actors -> Op] /\ OpTyped'
    BY <1>6, ReturnTyped DEF Release
  <2>2. Owns(a) => Unclaimed(row[op[a].s]) \in Row
    BY <1>1, <1>4, <1>6, RowTypes DEF Release, HoldsClaim
  <2> QED BY <1>6, <2>1, <2>2 DEF Release, TypeOK
<1>7. CASE Fence(a)
  <2>1. HoldsClaim(a) /\ HasRead(a)
    BY <1>7 DEF Fence, HoldsClaim, HasRead
  <2>2. CASE CanFence(a)
    <3> DEFINE o == [op[a] EXCEPT !.pc = "call"]
    <3>1. \A b \in BOOLEAN : Fenced(row[op[a].s], b) \in Row
      BY <1>1, <1>4, <2>1, <2>2, RowTypes DEF CanFence
    <3>2. (~op[a].tick) \in BOOLEAN
      BY <1>1 DEF Op
    <3>3. op[a].snap.next \in Nat \cup {None}
      BY <1>3, <2>1 DEF Row
    <3>4. /\ o \in Op /\ o.s = op[a].s /\ o.token = op[a].token
          /\ o.snap = op[a].snap
      BY <1>1 DEF Op, Phases
    <3>5. op' = [op EXCEPT ![a] = o]
      BY <1>7, <2>2 DEF Fence
    <3> HIDE DEF o
    <3>6. op' \in [Actors -> Op] /\ OpTyped'
      BY <1>2, <1>3, <2>1, <3>4, <3>5, MoveTyped
    <3>7. row' \in [Schedules -> Row \cup {None, Deleted}]
      BY <1>7, <2>2, <3>1, <3>2 DEF Fence, TypeOK
    <3>8. lastDue' \in [Schedules -> Nat \cup {None}]
      BY <1>7, <2>2, <3>3 DEF Fence, TypeOK
    <3> QED BY <1>7, <3>6, <3>7, <3>8 DEF Fence, TypeOK
  <2>3. CASE ~CanFence(a)
    <3>1. op' \in [Actors -> Op] /\ OpTyped'
      BY <1>7, <2>3, ReturnTyped DEF Fence
    <3> QED BY <1>7, <2>3, <3>1 DEF Fence, TypeOK
  <2> QED BY <2>2, <2>3
<1>8. ASSUME NEW pc \in {"running", "acked", "notStarted"},
             HoldsClaim(a), HasRead(a),
             op' = [op EXCEPT ![a].pc = pc]
      PROVE  op' \in [Actors -> Op] /\ OpTyped'
  <2> DEFINE o == [op[a] EXCEPT !.pc = pc]
  <2>1. /\ o \in Op /\ o.s = op[a].s /\ o.token = op[a].token
        /\ o.snap = op[a].snap
    BY <1>1 DEF Op, Phases
  <2>2. op' = [op EXCEPT ![a] = o]
    BY <1>8
  <2> HIDE DEF o
  <2> QED BY <1>2, <1>3, <1>8, <2>1, <2>2, MoveTyped
<1>9. CASE CallDispatch(a)
  <2>1. op' \in [Actors -> Op] /\ OpTyped'
    BY <1>8, <1>9 DEF CallDispatch, HoldsClaim, HasRead
  <2>2. open' \in [Schedules -> SUBSET Nat]
    BY <1>1, <1>9 DEF CallDispatch, TypeOK
  <2> QED BY <1>9, <2>1, <2>2 DEF CallDispatch, TypeOK
<1>10. CASE Acknowledged(a)
  <2>1. op' \in [Actors -> Op] /\ OpTyped'
    BY <1>8, <1>10 DEF Acknowledged, HoldsClaim, HasRead
  <2> QED BY <1>10, <2>1 DEF Acknowledged, TypeOK
<1>11. CASE DispatchFails(a)
  <2>1. op' \in [Actors -> Op] /\ OpTyped'
    BY <1>11, ReturnTyped DEF DispatchFails
  <2>2. Owns(a) => [row[op[a].s] EXCEPT !.enabled = FALSE, !.uncertain = TRUE,
                                        !.until = op[a].now] \in Row
    BY <1>1, <1>4, <1>11 DEF DispatchFails, HoldsClaim, Row
  <2> QED BY <1>11, <2>1, <2>2 DEF DispatchFails, TypeOK
<1>12. CASE Settle(a)
  <2>1. op' \in [Actors -> Op] /\ OpTyped'
    BY <1>12, ReturnTyped DEF Settle
  <2>2. HoldsClaim(a) /\ HasRead(a)
    BY <1>12 DEF Settle, HoldsClaim, HasRead
  <2>3. NextPlan(a) \in PlanType
    BY <2>2, NextPlanType
  <2>4. Owns(a) => Resolved(row[op[a].s], NextPlan(a)) \in Row
    BY <1>1, <1>4, <2>2, <2>3, RowTypes
  <2> QED BY <1>12, <2>1, <2>4 DEF Settle, Resolved, TypeOK
<1> QED BY <1>5, <1>6, <1>7, <1>9, <1>10, <1>11, <1>12 DEF Dispatch

\* Every step preserves the types.
LEMMA NextTyped ==
    ASSUME Typed, [Next]_vars
    PROVE  Typed'
<1>1. ASSUME NEW a \in Actors, Cancel(a)
      PROVE  Typed'
  <2> DEFINE o == [op[a] EXCEPT !.cancelled = TRUE]
  <2>1. op[a] \in Op
    BY DEF Typed, TypeOK
  <2>2. /\ o \in Op /\ o.pc = op[a].pc /\ o.s = op[a].s
        /\ o.token = op[a].token /\ o.snap = op[a].snap
    BY <2>1 DEF Op
  <2>3. op' = [op EXCEPT ![a] = o]
    BY <1>1 DEF Cancel
  <2> HIDE DEF o
  <2>4. op' \in [Actors -> Op] /\ OpTyped'
    BY <2>2, <2>3, MoveTyped DEF Typed, OpTyped, HoldsClaim, HasRead
  <2> QED BY <1>1, <2>4 DEF Cancel, Typed, TypeOK
<1>2. ASSUME NEW a \in Actors, Crash(a)
      PROVE  Typed'
  <2>1. op' \in [Actors -> Op] /\ OpTyped'
    BY <1>2, ReturnTyped DEF Crash
  <2> QED BY <1>2, <2>1 DEF Crash, Typed, TypeOK
<1>3. ASSUME NEW s \in Schedules, Delete(s)
      PROVE  Typed'
  <2>1. row[s].token \in Nat
    BY <1>3, ExistsRow DEF Delete, Row
  <2> QED BY <1>3, <2>1 DEF Delete, Typed, TypeOK, OpTyped, HoldsClaim, HasRead
<1>4. CASE Tick
  BY <1>4 DEF Tick, Typed, TypeOK, OpTyped, HoldsClaim, HasRead
<1>5. CASE UNCHANGED vars
  BY <1>5 DEF vars, Typed, TypeOK, OpTyped, HoldsClaim, HasRead
<1> QED BY <1>1, <1>2, <1>3, <1>4, <1>5, RequestTyped, RunDueTyped, DispatchTyped
        DEF Next

\* The type invariant, for every instance: no operation, however stale its
\* clock, writes a value of another kind into the table.
THEOREM TypeCorrect == Spec => []TypeOK
<1>1. Spec => []Typed
  BY InitTyped, NextTyped, PTL DEF Spec
<1>2. Typed => TypeOK
  BY DEF Typed
<1> QED BY <1>1, <1>2, PTL

-----------------------------------------------------------------------------
(* The columns of a row agree.                                             *)

\* A plan that arms a row names its due time.
Arms(plan) == plan.enabled => plan.next # None

\* Every plan the timetable, an edit or a user's skip produces arms soundly.
LEMMA PlansArm ==
    ASSUME NEW r \in Row, NEW now \in Nat, Agrees(r)
    PROVE  /\ Arms(Following(r, now))
           /\ Arms(Restored(r))
           /\ Arms(SkipPlan(r, now))
           /\ \A timing \in Timings, enable \in BOOLEAN :
                 Arms(EditedPlan(r, timing, enable, now))
<1>1. Arms(Following(r, now))
  <2>1. FollowingDue(r, now) # None
    BY FollowingDueType, NoneAssumption
  <2> QED BY <2>1 DEF Following, Plan, Arms
<1>2. Arms(Restored(r))
  BY DEF Restored, Plan, Arms, Agrees
<1>3. Arms(SkipPlan(r, now))
  BY <1>1, <1>2 DEF SkipPlan, Plan, Arms
<1>4. ASSUME NEW timing \in Timings, NEW enable \in BOOLEAN
      PROVE  Arms(EditedPlan(r, timing, enable, now))
  <2>1. NextRun(timing, now) # None
    BY NextRunType, NoneAssumption
  <2> QED BY <2>1 DEF EditedPlan, OnlyEndMoves, Plan, Arms
<1> QED BY <1>1, <1>2, <1>3, <1>4

\* The operators that rewrite a row keep its columns in agreement.
LEMMA RowAgrees ==
    ASSUME NEW r \in Row, NEW now \in Nat, Agrees(r)
    PROVE  /\ \A token \in Nat \ {NoToken} : Agrees(Claimed(r, token, now))
           /\ ~r.started => Agrees(Unclaimed(r))
           /\ Agrees(Swept(r, now))
           /\ \A plan \in PlanType : Arms(plan) /\ ~r.started => Agrees(Replanned(r, plan))
           /\ \A plan \in PlanType : Arms(plan) => Agrees(Resolved(r, plan))
           /\ r.token # NoToken =>
                \A preserve \in BOOLEAN : Agrees(Fenced(r, preserve))
<1>1. now + Lease # None
  BY TimeAssumption, NoneAssumption
<1>2. \A token \in Nat \ {NoToken} : Agrees(Claimed(r, token, now))
  <2>1. ASSUME NEW token \in Nat \ {NoToken} PROVE Agrees(Claimed(r, token, now))
    <3> DEFINE new == Claimed(r, token, now)
    <3>1. /\ new.enabled = r.enabled /\ new.before = r.before /\ new.next = r.next
          /\ new.preserve = r.preserve /\ new.started = r.started
          /\ new.token = token /\ new.until = now + Lease
      BY DEF Claimed, Row
    <3> HIDE DEF new
    <3>2. token # NoToken /\ new.until # None
      BY <1>1, <3>1
    <3>3. Agrees(new)
      BY <3>1, <3>2 DEF Agrees
    <3> QED BY <3>3 DEF new
  <2> QED BY <2>1
<1>3. ~r.started => Agrees(Unclaimed(r))
  BY DEF Unclaimed, Agrees, Row
<1>4. Agrees(Swept(r, now))
  <2>1. CASE Expired(r, now)
    <3> DEFINE new == [r EXCEPT !.enabled = FALSE, !.uncertain = TRUE]
    <3>1. /\ ~new.enabled /\ new.before = r.before /\ new.next = r.next
          /\ new.preserve = r.preserve /\ new.started = r.started
          /\ new.token = r.token /\ new.until = r.until
      BY DEF Row
    <3>2. Swept(r, now) = new
      BY <2>1 DEF Swept, Expired, Missed
    <3> HIDE DEF new
    <3> QED BY <3>1, <3>2 DEF Agrees
  <2>2. CASE ~Expired(r, now) /\ Missed(r, now)
    <3> DEFINE new == [Replanned(Unclaimed(r), Plan(FALSE, None)) EXCEPT !.uncertain = FALSE]
    <3>1. /\ ~new.enabled /\ new.before = r.before /\ new.preserve = r.preserve
          /\ new.started = r.started /\ new.token = NoToken /\ new.until = None
      BY DEF Replanned, Unclaimed, Plan, Row
    <3>2. Swept(r, now) = new
      BY <2>2 DEF Swept
    <3> HIDE DEF new
    <3> QED BY <2>2, <3>1, <3>2 DEF Missed, Agrees
  <2>3. CASE ~Expired(r, now) /\ ~Missed(r, now)
    BY <2>3 DEF Swept
  <2> QED BY <2>1, <2>2, <2>3
<1>5. \A plan \in PlanType : Arms(plan) /\ ~r.started => Agrees(Replanned(r, plan))
  BY DEF Replanned, Agrees, Arms, Row, PlanType
<1>6. \A plan \in PlanType : Arms(plan) => Agrees(Resolved(r, plan))
  BY DEF Resolved, Unfenced, Unclaimed, Replanned, Agrees, Arms, Row, PlanType
<1>7. r.token # NoToken => \A preserve \in BOOLEAN : Agrees(Fenced(r, preserve))
  BY DEF Fenced, Agrees, Row
<1> QED BY <1>2, <1>3, <1>4, <1>5, <1>6, <1>7

\* What an acknowledgement computes from the row it read at the claim.
SnapsArm == \A a \in Actors : HasRead(a) => Arms(op[a].snap)

Agreed == Typed /\ RowsAgree /\ SnapsArm

\* An acknowledgement arms the schedule only with a due time.
LEMMA NextPlanArms ==
    ASSUME Agreed, NEW a \in Actors, HasRead(a)
    PROVE  Arms(NextPlan(a))
<1>1. op[a].snap \in Row /\ op[a].now \in Nat /\ Arms(op[a].snap)
  BY DEF Agreed, Typed, TypeOK, OpTyped, Op, SnapsArm
<1>2. FollowingDue(op[a].snap, op[a].now) # None
  BY <1>1, FollowingDueType, NoneAssumption
<1>3. op[a].now + RetryDelay # None
  BY <1>1, TimeAssumption, NoneAssumption
<1> QED BY <1>1, <1>2, <1>3 DEF NextPlan, Following, Plan, Arms

\* A step that rewrites one row into one whose columns agree.
LEMMA OneRowAgrees ==
    ASSUME Agreed, NEW s \in Schedules, NEW new, Agrees(new),
           row' = [row EXCEPT ![s] = new]
    PROVE  RowsAgree'
<1>1. row'[s] = new /\ \A q \in Schedules \ {s} : row'[q] = row[q]
  BY DEF Agreed, Typed, TypeOK
<1> QED BY <1>1 DEF Agreed, RowsAgree, Exists

\* A step that leaves the table alone.
LEMMA SameTableAgrees ==
    ASSUME Agreed, row' = row
    PROVE  RowsAgree'
BY DEF Agreed, RowsAgree, Exists

\* A step that moves one actor on, to a phase without a row or with one that
\* arms soundly.
LEMMA MoveArms ==
    ASSUME Agreed, NEW a \in Actors, NEW o, op' = [op EXCEPT ![a] = o],
           o.pc \in {"fence", "call", "running", "acked", "notStarted"} => Arms(o.snap)
    PROVE  SnapsArm'
<1>1. op'[a] = o /\ \A b \in Actors \ {a} : op'[b] = op[b]
  BY DEF Agreed, Typed, TypeOK
<1> QED BY <1>1 DEF Agreed, SnapsArm, HasRead

\* An operation that ends, or goes on to the next due row, has read nothing.
LEMMA EndedArms ==
    ASSUME Agreed, NEW a \in Actors, Finish(a) \/ Return(a)
    PROVE  SnapsArm'
<1> DEFINE next == [Idle EXCEPT !.pc = "claim", !.now = op[a].now, !.tick = TRUE,
                                !.cancelled = op[a].cancelled]
<1>1. Idle.pc = "idle" /\ next.pc = "claim"
  BY DEF Idle
<1>2. op' = [op EXCEPT ![a] = Idle] \/ op' = [op EXCEPT ![a] = next]
  BY DEF Finish, Return
<1> HIDE DEF next
<1> QED BY <1>1, <1>2, MoveArms

\* Requests.
LEMMA RequestAgrees ==
    ASSUME Agreed, NEW a \in Actors, Request(a)
    PROVE  RowsAgree' /\ SnapsArm'
<1>1. /\ Typed /\ op[a] \in Op /\ op[a].now \in Nat /\ issued \in Nat
      /\ issued + 1 \in Nat \ {NoToken}
  BY DEF Agreed, Typed, TypeOK, Op, NoToken
<1>2. ASSUME NEW s \in Schedules, Exists(s)
      PROVE  row[s] \in Row /\ Agrees(row[s])
  BY <1>1, <1>2, ExistsRow DEF Agreed, RowsAgree
<1>3. CASE StartRequest(a)
  <2> DEFINE o == [Idle EXCEPT !.pc = "request", !.now = clock]
  <2>1. o.pc = "request"
    BY DEF Idle
  <2>2. op' = [op EXCEPT ![a] = o] /\ row' = row
    BY <1>3 DEF StartRequest
  <2> HIDE DEF o
  <2> QED BY <2>1, <2>2, MoveArms, SameTableAgrees
<1>4. CASE Refused(a)
  BY <1>4, EndedArms, SameTableAgrees DEF Refused
<1>5. ASSUME NEW s \in Schedules, NEW timing \in Timings, NEW enable \in BOOLEAN,
             Create(a, s, timing, enable)
      PROVE  RowsAgree' /\ SnapsArm'
  <2>1. NextRun(timing, op[a].now) # None
    BY <1>1, NextRunType, NoneAssumption
  <2>2. Agrees(NewRow(timing, enable, op[a].now))
    BY <2>1 DEF NewRow, Agrees, NoToken
  <2> QED BY <1>5, <2>2, OneRowAgrees, EndedArms DEF Create
<1>6. ASSUME NEW s \in Schedules, NEW timing \in Timings, NEW enable \in BOOLEAN,
             Edit(a, s, timing, enable)
      PROVE  RowsAgree' /\ SnapsArm'
  <2> DEFINE plan == EditedPlan(row[s], timing, enable, op[a].now)
             moved == Replanned(row[s], plan)
             new == [moved EXCEPT !.timing = timing]
  <2>1. row[s] \in Row /\ Agrees(row[s]) /\ ~row[s].started
    BY <1>2, <1>6 DEF Edit
  <2>2. plan \in PlanType
    BY <1>1, <2>1, NextRunType DEF EditedPlan, OnlyEndMoves, Plan, PlanType, Row
  <2>3. Arms(plan)
    BY <1>1, <2>1, PlansArm
  <2> HIDE DEF plan
  <2>4. moved \in Row /\ Agrees(moved)
    BY <1>1, <2>1, <2>2, <2>3, RowTypes, RowAgrees
  <2> HIDE DEF moved
  <2>5. Agrees(new)
    BY <2>4 DEF Agrees, Row
  <2>6. row' = [row EXCEPT ![s] = new]
    BY <1>6 DEF Edit, plan, moved
  <2> HIDE DEF new
  <2> QED BY <1>6, <2>5, <2>6, OneRowAgrees, EndedArms DEF Edit
<1>7. ASSUME NEW s \in Schedules, Skip(a, s)
      PROVE  RowsAgree' /\ SnapsArm'
  <2>1. row[s] \in Row /\ Agrees(row[s])
    BY <1>2, <1>7 DEF Skip, Resolvable
  <2>2. Agrees(Resolved(row[s], SkipPlan(row[s], op[a].now)))
    BY <1>1, <2>1, RowTypes, RowAgrees, PlansArm
  <2> QED BY <1>7, <2>2, OneRowAgrees, EndedArms DEF Skip
<1>8. ASSUME NEW s \in Schedules, Retry(a, s)
      PROVE  RowsAgree' /\ SnapsArm'
  <2>1. row[s] \in Row /\ Agrees(row[s])
    BY <1>2, <1>8 DEF Retry, Retriable, Resolvable
  <2>2. Plan(TRUE, op[a].now) \in PlanType /\ Arms(Plan(TRUE, op[a].now))
    BY <1>1, NoneAssumption DEF Plan, PlanType, Arms
  <2>3. Agrees(Resolved(row[s], Plan(TRUE, op[a].now)))
    BY <1>1, <2>1, <2>2, RowAgrees
  <2> QED BY <1>8, <2>3, OneRowAgrees, EndedArms DEF Retry
<1>9. ASSUME NEW s \in Schedules, RetryManual(a, s)
      PROVE  RowsAgree' /\ SnapsArm'
  <2> DEFINE freed == Resolved(row[s], Restored(row[s]))
             o == [op[a] EXCEPT !.pc = "refresh", !.s = s, !.token = issued + 1]
  <2>1. row[s] \in Row /\ Agrees(row[s])
    BY <1>2, <1>9 DEF RetryManual, Retriable, Resolvable
  <2>2. freed \in Row /\ Agrees(freed)
    BY <1>1, <2>1, RowTypes, RowAgrees, PlansArm
  <2>3. o.pc = "refresh"
    BY <1>1 DEF Op
  <2>4. /\ row' = [row EXCEPT ![s] = Claimed(freed, issued + 1, op[a].now)]
        /\ op' = [op EXCEPT ![a] = o]
    BY <1>9 DEF RetryManual
  <2> HIDE DEF freed, o
  <2>5. Agrees(Claimed(freed, issued + 1, op[a].now))
    BY <1>1, <2>2, RowAgrees
  <2> QED BY <2>3, <2>4, <2>5, OneRowAgrees, MoveArms
<1>10. ASSUME NEW s \in Schedules, RunNow(a, s)
       PROVE  RowsAgree' /\ SnapsArm'
  <2> DEFINE o == [op[a] EXCEPT !.pc = "fence", !.s = s, !.token = issued + 1,
                                !.snap = row[s]]
  <2>1. row[s] \in Row /\ Agrees(row[s])
    BY <1>2, <1>10 DEF RunNow
  <2>2. o.snap = row[s]
    BY <1>1 DEF Op
  <2>3. /\ row' = [row EXCEPT ![s] = Claimed(row[s], issued + 1, op[a].now)]
        /\ op' = [op EXCEPT ![a] = o]
    BY <1>10 DEF RunNow
  <2> HIDE DEF o
  <2>4. Agrees(Claimed(row[s], issued + 1, op[a].now))
    BY <1>1, <2>1, RowAgrees
  <2>5. Arms(o.snap)
    BY <2>1, <2>2 DEF Agrees, Arms
  <2> QED BY <2>3, <2>4, <2>5, OneRowAgrees, MoveArms
<1> QED BY <1>3, <1>4, <1>5, <1>6, <1>7, <1>8, <1>9, <1>10 DEF Request

\* Ticks.
LEMMA RunDueAgrees ==
    ASSUME Agreed, NEW a \in Actors, RunDue(a)
    PROVE  RowsAgree' /\ SnapsArm'
<1>1. /\ Typed /\ op[a] \in Op /\ op[a].now \in Nat /\ issued \in Nat
      /\ issued + 1 \in Nat \ {NoToken}
  BY DEF Agreed, Typed, TypeOK, Op, NoToken
<1>2. CASE StartTick(a)
  <2> DEFINE o == [Idle EXCEPT !.pc = "claim", !.now = clock, !.tick = TRUE]
  <2>1. o.pc = "claim"
    BY DEF Idle
  <2>2. op' = [op EXCEPT ![a] = o] /\ row' = row
    BY <1>2 DEF StartTick
  <2> HIDE DEF o
  <2> QED BY <2>1, <2>2, MoveArms, SameTableAgrees
<1>3. CASE ClaimNextDue(a)
  <2> DEFINE table == Sweep(op[a].now)
  <2>1. /\ table \in [Schedules -> Row \cup {None, Deleted}]
        /\ \A s \in Schedules :
             table[s] = IF Exists(s) THEN Swept(row[s], op[a].now) ELSE row[s]
    BY <1>1, SweepTyped
  <2>2. \A s \in Schedules : table[s] \in Row => Agrees(table[s])
    <3>1. ASSUME NEW s \in Schedules, Exists(s) PROVE Agrees(table[s])
      <4>1. row[s] \in Row /\ Agrees(row[s])
        BY <1>1, <3>1, ExistsRow DEF Agreed, RowsAgree
      <4> QED BY <1>1, <2>1, <3>1, <4>1, RowAgrees
    <3>2. ASSUME NEW s \in Schedules, ~Exists(s) PROVE table[s] \notin Row
      BY <2>1, <3>2, RowAssumption DEF Exists
    <3> QED BY <3>1, <3>2
  <2> HIDE DEF table
  <2>3. CASE Finish(a) /\ (row' = row \/ row' = table)
    <3>1. RowsAgree'
      BY <2>1, <2>2, <2>3, SameTableAgrees DEF RowsAgree, Exists
    <3> QED BY <2>3, <3>1, EndedArms
  <2>4. ASSUME NEW s \in DueRows(table, op[a].now),
               row' = [table EXCEPT ![s] = Claimed(@, issued + 1, op[a].now)],
               op' = [op EXCEPT ![a] = [@ EXCEPT !.pc = "fence", !.s = s,
                                !.token = issued + 1, !.snap = table[s]]]
        PROVE  RowsAgree' /\ SnapsArm'
    <3> DEFINE o == [op[a] EXCEPT !.pc = "fence", !.s = s, !.token = issued + 1,
                                  !.snap = table[s]]
    <3>1. s \in Schedules /\ table[s] \in Row /\ Agrees(table[s])
      BY <2>1, <2>2 DEF DueRows
    <3>2. Agrees(Claimed(table[s], issued + 1, op[a].now))
      BY <1>1, <3>1, RowAgrees
    <3>3. /\ row'[s] = Claimed(table[s], issued + 1, op[a].now)
          /\ \A q \in Schedules \ {s} : row'[q] = table[q]
      BY <2>1, <2>4, <3>1
    <3>4. RowsAgree'
      BY <2>1, <2>2, <3>2, <3>3 DEF RowsAgree, Exists
    <3>5. o.snap = table[s] /\ op' = [op EXCEPT ![a] = o]
      BY <1>1, <2>4 DEF Op
    <3> HIDE DEF o
    <3>6. Arms(o.snap)
      BY <3>1, <3>5 DEF Agrees, Arms
    <3> QED BY <3>4, <3>5, <3>6, MoveArms
  <2> QED BY <1>3, <2>3, <2>4 DEF ClaimNextDue, table
<1> QED BY <1>2, <1>3 DEF RunDue

\* The steps of one dispatch.
LEMMA DispatchAgrees ==
    ASSUME Agreed, NEW a \in Actors, Dispatch(a)
    PROVE  RowsAgree' /\ SnapsArm'
<1> DEFINE s == op[a].s
<1>1. Typed /\ op[a] \in Op /\ op[a].now \in Nat /\ op[a].tick \in BOOLEAN
  BY DEF Agreed, Typed, TypeOK, Op
<1>2. HoldsClaim(a) => s \in Schedules /\ op[a].token # NoToken
  BY <1>1 DEF Typed, OpTyped
<1>3. ASSUME HoldsClaim(a), Exists(s)
      PROVE  row[s] \in Row /\ Agrees(row[s])
  BY <1>1, <1>2, <1>3, ExistsRow DEF Agreed, RowsAgree
<1>4. HasRead(a) => Arms(op[a].snap)
  BY DEF Agreed, SnapsArm
<1>5. HoldsClaim(a) /\ Owns(a) => row[s] \in Row /\ Agrees(row[s]) /\ row[s].token # NoToken
  BY <1>2, <1>3 DEF Owns
<1>6. CASE Refresh(a)
  <2>1. CASE Exists(s)
    <3> DEFINE o == [op[a] EXCEPT !.pc = "fence", !.snap = row[s]]
    <3>1. Agrees(row[s])
      BY <1>3, <1>6, <2>1 DEF Refresh, HoldsClaim
    <3>2. o.snap = row[s] /\ op' = [op EXCEPT ![a] = o] /\ row' = row
      BY <1>1, <1>6, <2>1 DEF Refresh, Op
    <3> HIDE DEF o
    <3> QED BY <3>1, <3>2, MoveArms, SameTableAgrees DEF Agrees, Arms
  <2>2. CASE ~Exists(s)
    BY <1>6, <2>2, EndedArms, SameTableAgrees DEF Refresh
  <2> QED BY <2>1, <2>2
<1>7. CASE Release(a)
  <2>1. HoldsClaim(a)
    BY <1>7 DEF Release, HoldsClaim
  <2>2. CASE Owns(a) /\ ~row[s].started
    <3>1. Agrees(Unclaimed(row[s]))
      BY <1>1, <1>5, <2>1, <2>2, RowAgrees
    <3> QED BY <1>2, <1>7, <2>1, <2>2, <3>1, OneRowAgrees, EndedArms DEF Release
  <2>3. CASE ~(Owns(a) /\ ~row[s].started)
    BY <1>7, <2>3, EndedArms, SameTableAgrees DEF Release
  <2> QED BY <2>2, <2>3
<1>8. ASSUME NEW pc, HasRead(a), op' = [op EXCEPT ![a].pc = pc]
      PROVE  SnapsArm'
  <2> DEFINE o == [op[a] EXCEPT !.pc = pc]
  <2>1. o.snap = op[a].snap /\ op' = [op EXCEPT ![a] = o]
    BY <1>1, <1>8 DEF Op
  <2> HIDE DEF o
  <2> QED BY <1>4, <1>8, <2>1, MoveArms
<1>9. CASE Fence(a)
  <2>1. HoldsClaim(a) /\ HasRead(a)
    BY <1>9 DEF Fence, HoldsClaim, HasRead
  <2>2. CASE CanFence(a)
    <3>1. \A preserve \in BOOLEAN : Agrees(Fenced(row[s], preserve))
      BY <1>1, <1>5, <2>1, <2>2, RowAgrees DEF CanFence
    <3>2. Agrees(Fenced(row[s], ~op[a].tick))
      BY <1>1, <3>1
    <3> QED BY <1>2, <1>8, <1>9, <2>1, <2>2, <3>2, OneRowAgrees DEF Fence
  <2>3. CASE ~CanFence(a)
    BY <1>9, <2>3, EndedArms, SameTableAgrees DEF Fence
  <2> QED BY <2>2, <2>3
<1>10. CASE CallDispatch(a)
  BY <1>8, <1>10, SameTableAgrees DEF CallDispatch, HasRead
<1>11. CASE Acknowledged(a)
  BY <1>8, <1>11, SameTableAgrees DEF Acknowledged, HasRead
<1>12. CASE DispatchFails(a)
  <2>1. HoldsClaim(a)
    BY <1>12 DEF DispatchFails, HoldsClaim
  <2>2. CASE Owns(a)
    <3> DEFINE new == [row[s] EXCEPT !.enabled = FALSE, !.uncertain = TRUE,
                                     !.until = op[a].now]
    <3>1. /\ ~new.enabled /\ new.before = row[s].before /\ new.next = row[s].next
          /\ new.preserve = row[s].preserve /\ new.started = row[s].started
          /\ new.token = row[s].token /\ new.until = op[a].now
      BY <1>5, <2>1, <2>2 DEF Row
    <3>2. row' = [row EXCEPT ![s] = new]
      BY <1>12, <2>2 DEF DispatchFails
    <3> HIDE DEF new
    <3>3. Agrees(new)
      BY <1>1, <1>5, <2>1, <2>2, <3>1, NoneAssumption DEF Agrees
    <3> QED BY <1>2, <1>12, <2>1, <3>2, <3>3, OneRowAgrees, EndedArms DEF DispatchFails
  <2>3. CASE ~Owns(a)
    BY <1>12, <2>3, EndedArms, SameTableAgrees DEF DispatchFails
  <2> QED BY <2>2, <2>3
<1>13. CASE Settle(a)
  <2>1. HoldsClaim(a) /\ HasRead(a)
    BY <1>13 DEF Settle, HoldsClaim, HasRead
  <2>2. NextPlan(a) \in PlanType /\ Arms(NextPlan(a))
    BY <1>1, <2>1, NextPlanType, NextPlanArms
  <2>3. CASE Owns(a)
    <3>1. Agrees(Resolved(row[s], NextPlan(a)))
      BY <1>1, <1>5, <2>1, <2>2, <2>3, RowAgrees
    <3>2. row' = [row EXCEPT ![s] = Resolved(row[s], NextPlan(a))]
      BY <1>13, <2>3 DEF Settle, Resolved
    <3> QED BY <1>2, <1>13, <2>1, <3>1, <3>2, OneRowAgrees, EndedArms DEF Settle
  <2>4. CASE ~Owns(a)
    BY <1>13, <2>4, EndedArms, SameTableAgrees DEF Settle
  <2> QED BY <2>3, <2>4
<1> QED BY <1>6, <1>7, <1>9, <1>10, <1>11, <1>12, <1>13 DEF Dispatch

\* Every step keeps the columns of every row in agreement.
LEMMA NextAgrees ==
    ASSUME Agreed, [Next]_vars
    PROVE  Agreed'
<1>1. Typed'
  BY NextTyped DEF Agreed
<1>2. ASSUME NEW a \in Actors, Cancel(a)
      PROVE  RowsAgree' /\ SnapsArm'
  <2> DEFINE o == [op[a] EXCEPT !.cancelled = TRUE]
  <2>1. op[a] \in Op
    BY DEF Agreed, Typed, TypeOK
  <2>2. o.snap = op[a].snap /\ o.pc = op[a].pc /\ op' = [op EXCEPT ![a] = o] /\ row' = row
    BY <1>2, <2>1 DEF Cancel, Op
  <2> HIDE DEF o
  <2> QED BY <2>2, MoveArms, SameTableAgrees DEF Agreed, SnapsArm, HasRead
<1>3. ASSUME NEW a \in Actors, Crash(a)
      PROVE  RowsAgree' /\ SnapsArm'
  BY <1>3, EndedArms, SameTableAgrees DEF Crash
<1>4. ASSUME NEW s \in Schedules, Delete(s)
      PROVE  RowsAgree' /\ SnapsArm'
  <2>1. op' = op /\ row'[s] = Deleted /\ \A q \in Schedules \ {s} : row'[q] = row[q]
    BY <1>4 DEF Delete, Agreed, Typed, TypeOK
  <2> QED BY <2>1 DEF Agreed, RowsAgree, SnapsArm, HasRead, Arms, Exists
<1>5. CASE Tick
  <2>1. row' = row /\ op' = op
    BY <1>5 DEF Tick
  <2>2. RowsAgree'
    BY <2>1, SameTableAgrees
  <2>3. SnapsArm'
    BY <2>1 DEF Agreed, SnapsArm, HasRead, Arms
  <2> QED BY <1>1, <2>2, <2>3 DEF Agreed
<1>6. CASE UNCHANGED vars
  <2>1. row' = row /\ op' = op
    BY <1>6 DEF vars
  <2>2. RowsAgree'
    BY <2>1, SameTableAgrees
  <2>3. SnapsArm'
    BY <2>1 DEF Agreed, SnapsArm, HasRead, Arms
  <2> QED BY <1>1, <2>2, <2>3 DEF Agreed
<1> QED BY <1>1, <1>2, <1>3, <1>4, <1>5, <1>6, RequestAgrees, RunDueAgrees, DispatchAgrees
        DEF Next, Agreed

\* Typing and agreement, in every reachable state.
THEOREM Agreement == Spec => []Agreed
<1>1. Init => Agreed
  <2>1. ASSUME Init PROVE RowsAgree /\ SnapsArm
    BY <2>1 DEF Init, RowsAgree, SnapsArm, Exists, HasRead, Idle
  <2> QED BY <2>1, InitTyped DEF Agreed
<1> QED BY <1>1, NextAgrees, PTL DEF Spec

\* The columns of every row agree, for any number of schedules and actors and
\* however stale their clocks: a schedule that is armed, or will be armed again
\* when its fence is lifted, has a due time; what a fence remembers goes with
\* it; token and lease come and go together; a fence names its claim.
THEOREM ColumnsAgree == Spec => []RowsAgree
<1>1. Agreed => RowsAgree
  BY DEF Agreed
<1> QED BY <1>1, Agreement, PTL

-----------------------------------------------------------------------------
(* At most one outcome: the inductive invariant.                           *)

InCall(a) == op[a].pc \in {"call", "running", "acked", "notStarted"}

\* Tokens are drawn in order, and no two operations hold the same one.
TokensIssued ==
    /\ \A s \in Schedules : Exists(s) => row[s].token <= issued
    /\ \A a \in Actors : op[a].token <= issued

TokensDistinct ==
    \A a, b \in Actors :
        a # b /\ op[a].token = op[b].token => op[a].token = NoToken

\* An actor past its fence owns a fenced row, unless a user took the fence away.
CallerIsFenced ==
    \A a \in Actors : InCall(a) /\ op[a].token \notin waived =>
        /\ Exists(op[a].s)
        /\ row[op[a].s].started
        /\ row[op[a].s].token = op[a].token

IInv == Typed /\ TokensIssued /\ TokensDistinct /\ CallerIsFenced /\ OpenCallIsFenced

\* A new claim holds the fresh token and leaves the fence as it was.
LEMMA ClaimEffect ==
    ASSUME NEW r \in Row, NEW token \in Nat, NEW now
    PROVE  Claimed(r, token, now).token = token
BY DEF Claimed, Row

\* Giving a claim up leaves the fence as it was.
LEMMA UnclaimEffect ==
    ASSUME NEW r \in Row
    PROVE  Unclaimed(r).token = NoToken /\ Unclaimed(r).started = r.started
BY RowTypes DEF Unclaimed, Row

\* A new plan touches neither claim nor fence.
LEMMA ReplanEffect ==
    ASSUME NEW r \in Row, NEW plan
    PROVE  /\ Replanned(r, plan).token = r.token
           /\ Replanned(r, plan).started = r.started
           /\ [Replanned(r, plan) EXCEPT !.uncertain = FALSE].token = r.token
           /\ [Replanned(r, plan) EXCEPT !.uncertain = FALSE].started = r.started
BY DEF Replanned, Row

\* A row whose fence is lifted is neither claimed nor fenced.
LEMMA UnfenceEffect ==
    ASSUME NEW r \in Row
    PROVE  Unfenced(r) \in Row /\ Unfenced(r).token = NoToken
<1>1. Unclaimed(r) \in Row /\ Unfenced(r) \in Row
  BY RowTypes
<1> QED BY <1>1, UnclaimEffect DEF Unfenced, Row

\* A resolved row is not claimed.
LEMMA ResolveEffect ==
    ASSUME NEW r \in Row, NEW plan
    PROVE  Resolved(r, plan).token = NoToken
BY UnfenceEffect, ReplanEffect DEF Resolved

\* The sweep of a tick keeps every fence and its owner.
LEMMA SweepEffect ==
    ASSUME NEW r \in Row, NEW now
    PROVE  /\ Swept(r, now).started = r.started
           /\ Swept(r, now).token \in {r.token, NoToken}
           /\ r.started => Swept(r, now).token = r.token
<1>1. CASE Expired(r, now)
  BY <1>1 DEF Swept, Expired, Missed, Row
<1>2. CASE ~Expired(r, now) /\ Missed(r, now)
  <2>1. Swept(r, now) = [Replanned(Unclaimed(r), Plan(FALSE, None))
                           EXCEPT !.uncertain = FALSE]
    BY <1>2 DEF Swept, Expired, Missed
  <2>2. Unclaimed(r) \in Row
    BY RowTypes
  <2>3. /\ Swept(r, now).token = Unclaimed(r).token
        /\ Swept(r, now).started = Unclaimed(r).started
    BY <2>1, <2>2, ReplanEffect
  <2> QED BY <1>2, <2>3, UnclaimEffect DEF Missed
<1>3. CASE ~Expired(r, now) /\ ~Missed(r, now)
  BY <1>3 DEF Swept
<1> QED BY <1>1, <1>2, <1>3

\* A step in which operations only end or go on, and rows keep their fence and
\* never gain a claim, preserves the invariant: the shape of most steps.
QuietRow(s) ==
    \/ row'[s] = row[s]
    \/ /\ Exists(s) /\ Exists(s)'
       /\ row'[s].started = row[s].started
       /\ row[s].started => row'[s].token = row[s].token
       /\ row'[s].token <= issued

QuietOp(a) ==
    \/ op'[a].token = NoToken /\ ~InCall(a)'
    \/ /\ op'[a].token = op[a].token /\ op'[a].s = op[a].s
       /\ InCall(a)' => InCall(a)

\* Steps that leave the fences of rows and the claims of operations alone
\* keep the invariant.
LEMMA QuietStep ==
    ASSUME IInv, Typed', issued' = issued, UNCHANGED <<open, waived>>,
           \A s \in Schedules : QuietRow(s),
           \A a \in Actors : QuietOp(a)
    PROVE  IInv'
<1> USE DEF IInv
<1>1. \A s \in Schedules :
        /\ Exists(s) <=> row'[s] \notin {None, Deleted}
        /\ Exists(s) => row'[s].started = row[s].started
        /\ Exists(s) /\ row[s].started => row'[s].token = row[s].token
        /\ Exists(s) => row'[s].token <= issued
  BY DEF QuietRow, Exists, TokensIssued
<1>2. issued \in Nat
  BY DEF Typed, TypeOK
<1>3. TokensIssued'
  <2>1. \A a \in Actors : op'[a].token <= issued
    BY <1>2 DEF TokensIssued, QuietOp, NoToken
  <2>2. \A s \in Schedules : Exists(s)' => row'[s].token <= issued
    BY <1>1 DEF Exists
  <2> QED BY <2>1, <2>2 DEF TokensIssued
<1>4. TokensDistinct'
  BY DEF TokensDistinct, QuietOp
<1>5. \A a \in Actors : InCall(a) => op[a].s \in Schedules
  BY DEF Typed, OpTyped, HoldsClaim, InCall
<1>6. CallerIsFenced'
  <2> SUFFICES ASSUME NEW a \in Actors, InCall(a)', (op[a].token \notin waived)'
               PROVE  /\ Exists(op[a].s)'
                      /\ row'[op'[a].s].started
                      /\ row'[op'[a].s].token = op'[a].token
    BY DEF CallerIsFenced
  <2>1. InCall(a) /\ op'[a].token = op[a].token /\ op'[a].s = op[a].s
    BY DEF QuietOp
  <2>2. /\ Exists(op[a].s) /\ row[op[a].s].started
        /\ row[op[a].s].token = op[a].token
    BY <2>1 DEF CallerIsFenced
  <2> DEFINE s == op[a].s
  <2>3. s \in Schedules
    BY <1>5, <2>1
  <2>4. /\ row'[s] \notin {None, Deleted}
        /\ row'[s].started /\ row'[s].token = op[a].token
    BY <1>1, <2>2, <2>3
  <2> QED BY <2>1, <2>4 DEF Exists
<1>7. OpenCallIsFenced'
  <2> SUFFICES ASSUME NEW s \in Schedules, open[s] # {}
               PROVE  Exists(s)' /\ row'[s].started /\ open[s] = {row'[s].token}
    BY DEF OpenCallIsFenced
  <2>1. Exists(s) /\ row[s].started /\ open[s] = {row[s].token}
    BY DEF OpenCallIsFenced
  <2> QED BY <1>1, <2>1 DEF Exists
<1> QED BY <1>3, <1>4, <1>6, <1>7

\* A step after which nobody has an unsettled claim to the fence of one row s0
\* (it was resolved, acknowledged, deleted, or never set) preserves the
\* invariant; one actor may have drawn a fresh token.
FreshOp(a) ==
    /\ issued' = issued + 1
    /\ op'[a].token = issued + 1
    /\ ~InCall(a)'

\* So do steps after which nothing of one row is open: the calls still inside
\* it are waived.
LEMMA VacatedStep ==
    ASSUME IInv, Typed', NEW s0 \in Schedules, NEW a0 \in Actors,
           issued' \in {issued, issued + 1},
           \A s \in Schedules \ {s0} : QuietRow(s) /\ open'[s] = open[s],
           row'[s0] \notin {None, Deleted} => row'[s0].token <= issued',
           open'[s0] = {},
           waived \subseteq waived',
           \A a \in Actors \ {a0} : QuietOp(a),
           QuietOp(a0) \/ FreshOp(a0),
           \A a \in Actors : InCall(a) /\ InCall(a)' /\ op[a].s = s0 => op[a].token \in waived'
    PROVE  IInv'
<1> USE DEF IInv
<1>1. issued \in Nat /\ issued <= issued'
  BY DEF Typed, TypeOK
<1>2. \A a \in Actors : op[a].token \in Nat /\ op'[a].token \in Nat
  BY DEF Typed, TypeOK, Op
<1>3. \A s \in Schedules \ {s0} :
        /\ Exists(s) <=> row'[s] \notin {None, Deleted}
        /\ Exists(s) => row'[s].started = row[s].started
        /\ Exists(s) /\ row[s].started => row'[s].token = row[s].token
        /\ Exists(s) => row'[s].token <= issued /\ row'[s].token \in Nat
  <2>1. \A s \in Schedules \ {s0} : Exists(s)' => row'[s].token \in Nat
    BY DEF Typed, TypeOK, Exists, Row
  <2> QED BY <2>1 DEF QuietRow, Exists, TokensIssued
<1>4. TokensIssued'
  <2>1. \A a \in Actors : op'[a].token <= issued'
    BY <1>1, <1>2 DEF TokensIssued, QuietOp, FreshOp, NoToken
  <2>2. \A s \in Schedules : Exists(s)' => row'[s].token <= issued'
    BY <1>1, <1>3 DEF Exists
  <2> QED BY <2>1, <2>2 DEF TokensIssued
<1>5. TokensDistinct'
  <2>1. \A a \in Actors : op[a].token <= issued
    BY DEF TokensIssued
  <2> QED BY <1>1, <1>2, <2>1 DEF TokensDistinct, QuietOp, FreshOp, NoToken
<1>6. CallerIsFenced'
  <2> SUFFICES ASSUME NEW a \in Actors, InCall(a)', op'[a].token \notin waived'
               PROVE  /\ Exists(op[a].s)'
                      /\ row'[op'[a].s].started
                      /\ row'[op'[a].s].token = op'[a].token
    BY DEF CallerIsFenced
  <2>1. InCall(a) /\ op'[a].token = op[a].token /\ op'[a].s = op[a].s
    BY DEF QuietOp, FreshOp
  <2>2. /\ Exists(op[a].s) /\ row[op[a].s].started
        /\ row[op[a].s].token = op[a].token
    BY <2>1 DEF CallerIsFenced
  <2>3. op[a].s \in Schedules \ {s0}
    BY <2>1 DEF Typed, OpTyped, HoldsClaim, InCall
  <2> QED BY <1>3, <2>1, <2>2, <2>3 DEF Exists
<1>7. OpenCallIsFenced'
  <2> SUFFICES ASSUME NEW s \in Schedules, open'[s] # {}
               PROVE  Exists(s)' /\ row'[s].started /\ open'[s] = {row'[s].token}
    BY DEF OpenCallIsFenced
  <2>1. s \in Schedules \ {s0} /\ open'[s] = open[s]
    OBVIOUS
  <2>2. Exists(s) /\ row[s].started /\ open[s] = {row[s].token}
    BY <2>1 DEF OpenCallIsFenced
  <2> QED BY <1>3, <2>1, <2>2 DEF Exists
<1> QED BY <1>4, <1>5, <1>6, <1>7

\* The operations: ending one is quiet, and so is going on without a new claim.
LEMMA ReturnQuiet ==
    ASSUME Typed, NEW a \in Actors, Finish(a) \/ Return(a)
    PROVE  \A b \in Actors : QuietOp(b) /\ (b = a => ~InCall(b)')
<1> DEFINE next == [Idle EXCEPT !.pc = "claim", !.now = op[a].now, !.tick = TRUE,
                                !.cancelled = op[a].cancelled]
<1>1. op \in [Actors -> Op]
  BY DEF Typed, TypeOK
<1>2. /\ Idle.pc = "idle" /\ Idle.token = NoToken
      /\ next.pc = "claim" /\ next.token = NoToken
  BY DEF Idle
<1>3. op' = [op EXCEPT ![a] = Idle] \/ op' = [op EXCEPT ![a] = next]
  BY DEF Finish, Return
<1> HIDE DEF next
<1>4. \A b \in Actors \ {a} : op'[b] = op[b]
  BY <1>1, <1>3
<1>5. op'[a] = Idle \/ op'[a] = next
  BY <1>1, <1>3
<1> QED BY <1>2, <1>4, <1>5 DEF QuietOp, InCall

\* Drawing a token and claiming an unfenced row with it - or one whose fence was
\* just resolved - preserves the invariant.
LEMMA FreshClaim ==
    ASSUME IInv, Typed', NEW a \in Actors, NEW s \in Schedules,
           issued' = issued + 1,
           row'[s].token = issued + 1,
           op'[a].token = issued + 1, op'[a].pc \in {"refresh", "fence"},
           \A b \in Actors \ {a} : op'[b] = op[b],
           open'[s] = {}, waived \subseteq waived',
           \A q \in Schedules \ {s} : QuietRow(q) /\ open'[q] = open[q],
           \A b \in Actors : InCall(b) /\ op[b].s = s => op[b].token \in waived'
    PROVE  IInv'
<1>1. issued \in Nat
  BY DEF IInv, Typed, TypeOK
<1>2. /\ \A b \in Actors \ {a} : QuietOp(b)
      /\ FreshOp(a)
  BY DEF QuietOp, FreshOp, InCall
<1>3. row'[s].token <= issued'
  BY <1>1
<1> QED BY <1>2, <1>3, VacatedStep

\* Requests preserve the invariant.
LEMMA RequestSafe ==
    ASSUME IInv, Typed', NEW a \in Actors, Request(a)
    PROVE  IInv'
<1>0. Typed /\ OpenCallIsFenced
  BY DEF IInv
<1>1. /\ op \in [Actors -> Op] /\ op[a] \in Op /\ op[a].now \in Nat
      /\ row \in [Schedules -> Row \cup {None, Deleted}]
      /\ open \in [Schedules -> SUBSET Nat]
      /\ issued \in Nat
  BY <1>0 DEF Typed, TypeOK, Op
<1>2. \A s \in Schedules : ~Exists(s) \/ ~row[s].started => open[s] = {}
  BY <1>0 DEF OpenCallIsFenced
<1>3. \A s \in Schedules, b \in Actors :
        InCall(b) /\ op[b].s = s /\ (~Exists(s) \/ ~row[s].started) =>
            op[b].token \in waived
  BY DEF IInv, CallerIsFenced
<1>4. \A s \in Schedules, b \in Actors :
        InCall(b) /\ op[b].s = s => op[b].token \in waived \cup {row[s].token}
  BY DEF IInv, CallerIsFenced
<1>5. CASE StartRequest(a)
  <2>1. \A b \in Actors : QuietOp(b)
    BY <1>1, <1>5 DEF StartRequest, Idle, QuietOp, InCall
  <2> QED BY <1>5, <2>1, QuietStep DEF StartRequest, QuietRow
<1>6. CASE Refused(a)
  <2>1. \A b \in Actors : QuietOp(b)
    BY <1>0, <1>6, ReturnQuiet DEF Refused
  <2> QED BY <1>6, <2>1, QuietStep DEF Refused, QuietRow
<1>7. ASSUME NEW s \in Schedules, NEW timing \in Timings, NEW enable \in BOOLEAN,
             Create(a, s, timing, enable)
      PROVE  IInv'
  <2>1. \A b \in Actors : QuietOp(b)
    BY <1>0, <1>7, ReturnQuiet DEF Create
  <2>2. ~Exists(s)
    BY <1>7 DEF Create, Exists
  <2>3. row'[s].token = NoToken /\ \A q \in Schedules \ {s} : row'[q] = row[q]
    BY <1>1, <1>7 DEF Create, NewRow
  <2> QED BY <1>1, <1>2, <1>3, <1>7, <2>1, <2>2, <2>3, VacatedStep
          DEF Create, QuietRow, NoToken
<1>8. ASSUME NEW s \in Schedules, NEW timing \in Timings, NEW enable \in BOOLEAN,
             Edit(a, s, timing, enable)
      PROVE  IInv'
  <2> DEFINE plan == EditedPlan(row[s], timing, enable, op[a].now)
             new == [Replanned(row[s], plan) EXCEPT !.timing = timing]
  <2>1. \A b \in Actors : QuietOp(b)
    BY <1>0, <1>8, ReturnQuiet DEF Edit
  <2>2. row[s] \in Row /\ Exists(s)
    BY <1>0, <1>8, ExistsRow DEF Edit
  <2>3. new.token = row[s].token /\ new.started = row[s].started
    BY <2>2 DEF Replanned, Row
  <2>4. row' = [row EXCEPT ![s] = new]
    BY <1>8 DEF Edit
  <2> HIDE DEF new
  <2>5. row'[s] = new /\ \A q \in Schedules \ {s} : row'[q] = row[q]
    BY <1>1, <2>4
  <2>6. row[s].token <= issued
    BY <2>2 DEF IInv, TokensIssued
  <2>7. row'[s].token <= issued' /\ issued' = issued
    BY <1>8, <2>3, <2>5, <2>6 DEF Edit
  <2>8. ~row[s].started /\ UNCHANGED <<open, waived>> /\ open[s] = {}
    BY <1>2, <1>8 DEF Edit
  <2>9. \A b \in Actors : InCall(b) /\ op[b].s = s => op[b].token \in waived'
    BY <1>3, <2>8
  <2> QED BY <2>1, <2>5, <2>7, <2>8, <2>9, VacatedStep DEF QuietRow
<1>9. ASSUME NEW s \in Schedules, NEW plan,
             Exists(s), Finish(a), Waive(s), issued' = issued,
             row' = [row EXCEPT ![s] = Resolved(@, plan)]
      PROVE  IInv'
  <2>1. \A b \in Actors : QuietOp(b)
    BY <1>0, <1>9, ReturnQuiet
  <2>2. Resolved(row[s], plan).token = NoToken
    BY <1>0, <1>9, ExistsRow, ResolveEffect
  <2>3. row'[s].token = NoToken /\ \A q \in Schedules \ {s} : row'[q] = row[q]
    BY <1>1, <1>9, <2>2
  <2>4. /\ open'[s] = {} /\ \A q \in Schedules \ {s} : open'[q] = open[q]
        /\ waived' = waived \cup {row[s].token}
    BY <1>1, <1>9 DEF Waive
  <2> QED BY <1>1, <1>4, <1>9, <2>1, <2>3, <2>4, VacatedStep DEF QuietRow, NoToken
<1>10. ASSUME NEW s \in Schedules, Skip(a, s)
       PROVE  IInv'
  BY <1>9, <1>10 DEF Skip, Resolvable
<1>11. ASSUME NEW s \in Schedules, Retry(a, s)
       PROVE  IInv'
  BY <1>9, <1>11 DEF Retry, Retriable, Resolvable
<1>12. ASSUME NEW s \in Schedules, RetryManual(a, s)
       PROVE  IInv'
  <2> DEFINE o == [op[a] EXCEPT !.pc = "refresh", !.s = s, !.token = issued + 1]
             freed == Resolved(row[s], Restored(row[s]))
             new == Claimed(freed, issued + 1, op[a].now)
  <2>1. row[s] \in Row
    BY <1>0, <1>12, ExistsRow DEF RetryManual, Retriable, Resolvable
  <2>2. freed \in Row
    BY <1>1, <2>1, RowTypes
  <2> HIDE DEF freed
  <2>3. issued + 1 \in Nat
    BY <1>1
  <2>4. new.token = issued + 1
    BY <2>2, <2>3, ClaimEffect
  <2>5. o \in Op /\ o.pc = "refresh" /\ o.token = issued + 1
    BY <1>1, <2>3 DEF Op, Phases
  <2>6. op' = [op EXCEPT ![a] = o] /\ row' = [row EXCEPT ![s] = new]
    BY <1>12 DEF RetryManual, freed
  <2>7. /\ issued' = issued + 1
        /\ open' = [open EXCEPT ![s] = {}] /\ waived \subseteq waived'
        /\ \A b \in Actors : InCall(b) /\ op[b].s = s => op[b].token \in waived'
    BY <1>4, <1>12 DEF RetryManual, Waive
  <2> HIDE DEF o, new
  <2>8. /\ row'[s] = new /\ open'[s] = {}
        /\ \A q \in Schedules \ {s} : row'[q] = row[q] /\ open'[q] = open[q]
    BY <1>1, <2>6, <2>7
  <2>9. op'[a] = o /\ \A b \in Actors \ {a} : op'[b] = op[b]
    BY <1>1, <2>6
  <2>10. \A q \in Schedules \ {s} : QuietRow(q) /\ open'[q] = open[q]
    BY <2>8 DEF QuietRow
  <2> QED BY <2>4, <2>5, <2>7, <2>8, <2>9, <2>10, FreshClaim
<1>13. ASSUME NEW s \in Schedules, RunNow(a, s)
       PROVE  IInv'
  <2> DEFINE o == [op[a] EXCEPT !.pc = "fence", !.s = s, !.token = issued + 1,
                                !.snap = row[s]]
             new == Claimed(row[s], issued + 1, op[a].now)
  <2>1. row[s] \in Row /\ ~row[s].started
    BY <1>0, <1>13, ExistsRow DEF RunNow
  <2>2. issued + 1 \in Nat
    BY <1>1
  <2>3. new.token = issued + 1
    BY <2>1, <2>2, ClaimEffect
  <2>4. o \in Op /\ o.pc = "fence" /\ o.token = issued + 1
    BY <1>1, <2>1, <2>2 DEF Op, Phases
  <2>5. op' = [op EXCEPT ![a] = o] /\ row' = [row EXCEPT ![s] = new]
    BY <1>13 DEF RunNow
  <2>6. /\ issued' = issued + 1
        /\ waived' = waived
        /\ \A b \in Actors : InCall(b) /\ op[b].s = s => op[b].token \in waived'
    BY <1>3, <1>13, <2>1 DEF RunNow
  <2> HIDE DEF o, new
  <2>7. /\ row'[s] = new /\ open'[s] = {}
        /\ \A q \in Schedules \ {s} : row'[q] = row[q] /\ open'[q] = open[q]
    BY <1>1, <1>2, <1>13, <2>1, <2>5 DEF RunNow
  <2>8. op'[a] = o /\ \A b \in Actors \ {a} : op'[b] = op[b]
    BY <1>1, <2>5
  <2>9. \A q \in Schedules \ {s} : QuietRow(q) /\ open'[q] = open[q]
    BY <2>7 DEF QuietRow
  <2> QED BY <2>3, <2>4, <2>6, <2>7, <2>8, <2>9, FreshClaim
<1> QED BY <1>5, <1>6, <1>7, <1>8, <1>10, <1>11, <1>12, <1>13 DEF Request

\* Ticks preserve the invariant: the sweep lifts no fence, and a claim is taken
\* of unfenced rows only.
LEMMA RunDueSafe ==
    ASSUME IInv, Typed', NEW a \in Actors, RunDue(a)
    PROVE  IInv'
<1>0. Typed
  BY DEF IInv
<1>1. /\ op \in [Actors -> Op] /\ op[a] \in Op /\ op[a].now \in Nat
      /\ issued \in Nat
  BY <1>0 DEF Typed, TypeOK, Op
<1>2. CASE StartTick(a)
  <2>1. \A b \in Actors : QuietOp(b)
    BY <1>1, <1>2 DEF StartTick, Idle, QuietOp, InCall
  <2> QED BY <1>2, <2>1, QuietStep DEF StartTick, QuietRow
<1> DEFINE now == op[a].now
           table == Sweep(now)
<1>3. /\ table \in [Schedules -> Row \cup {None, Deleted}]
      /\ \A s \in Schedules :
           table[s] = IF Exists(s) THEN Swept(row[s], now) ELSE row[s]
  BY <1>0, <1>1, SweepTyped
<1> HIDE DEF table
<1>4. ASSUME NEW s \in Schedules, Exists(s)
      PROVE  /\ table[s] \in Row
             /\ table[s].started = row[s].started
             /\ row[s].started => table[s].token = row[s].token
             /\ table[s].token <= issued
  <2>1. row[s] \in Row /\ row[s].token <= issued
    BY <1>0, <1>4, ExistsRow DEF IInv, TokensIssued
  <2>2. /\ table[s].started = row[s].started
        /\ table[s].token \in {row[s].token, NoToken}
        /\ row[s].started => table[s].token = row[s].token
    BY <1>3, <1>4, <2>1, SweepEffect
  <2>3. table[s] \in Row
    BY <1>1, <1>3, <1>4, <2>1, RowTypes
  <2> QED BY <1>1, <2>1, <2>2, <2>3 DEF NoToken
<1>5. ASSUME NEW s \in Schedules, row'[s] = table[s]
      PROVE  QuietRow(s)
  <2>1. CASE Exists(s)
    <3>1. row'[s] \notin {None, Deleted}
      BY <1>4, <1>5, <2>1, RowAssumption
    <3> QED BY <1>4, <1>5, <2>1, <3>1 DEF QuietRow, Exists
  <2>2. CASE ~Exists(s)
    BY <1>3, <1>5, <2>2 DEF QuietRow
  <2> QED BY <2>1, <2>2
<1>6. CASE ClaimNextDue(a)
  <2>1. CASE Finish(a) /\ (row' = row \/ row' = table) /\ issued' = issued
    <3>1. \A b \in Actors : QuietOp(b)
      BY <1>0, <2>1, ReturnQuiet
    <3>2. \A s \in Schedules : QuietRow(s)
      BY <1>5, <2>1 DEF QuietRow
    <3> QED BY <1>6, <2>1, <3>1, <3>2, QuietStep DEF ClaimNextDue
  <2>2. ASSUME NEW s \in DueRows(table, now),
               issued' = issued + 1,
               row' = [table EXCEPT ![s] = Claimed(@, issued + 1, now)],
               op' = [op EXCEPT ![a] = [@ EXCEPT !.pc = "fence", !.s = s,
                                !.token = issued + 1, !.snap = table[s]]]
        PROVE  IInv'
    <3> DEFINE o == [op[a] EXCEPT !.pc = "fence", !.s = s, !.token = issued + 1,
                                  !.snap = table[s]]
               new == Claimed(table[s], issued + 1, now)
    <3>1. s \in Schedules /\ table[s] \in Row /\ ~table[s].started
      BY <1>3, <2>2 DEF DueRows, Due
    <3>2. Exists(s)
      BY <1>3, <2>2 DEF DueRows, Exists
    <3>3. ~row[s].started
      BY <1>4, <3>1, <3>2
    <3>4. open[s] = {}
      BY <3>1, <3>3 DEF IInv, OpenCallIsFenced
    <3>5. \A b \in Actors : InCall(b) /\ op[b].s = s => op[b].token \in waived
      BY <3>3 DEF IInv, CallerIsFenced
    <3>6. issued + 1 \in Nat
      BY <1>1
    <3>7. new.token = issued + 1
      BY <3>1, <3>6, ClaimEffect
    <3>8. o \in Op /\ o.pc = "fence" /\ o.token = issued + 1
      BY <1>1, <3>1, <3>6 DEF Op, Phases
    <3>9. op' = [op EXCEPT ![a] = o] /\ row' = [table EXCEPT ![s] = new]
      BY <2>2
    <3> HIDE DEF o, new
    <3>10. row'[s] = new /\ \A q \in Schedules \ {s} : row'[q] = table[q]
      BY <1>3, <3>1, <3>9
    <3>11. \A q \in Schedules \ {s} : QuietRow(q)
      BY <1>5, <3>10
    <3>12. op'[a] = o /\ \A b \in Actors \ {a} : op'[b] = op[b]
      BY <1>1, <3>9
    <3>13. UNCHANGED <<open, waived>>
      BY <1>6 DEF ClaimNextDue
    <3> QED BY <2>2, <3>1, <3>4, <3>5, <3>7, <3>8, <3>10, <3>11, <3>12, <3>13, FreshClaim
  <2> QED BY <1>6, <2>1, <2>2 DEF ClaimNextDue, table
<1> QED BY <1>2, <1>6 DEF RunDue

\* The steps of one dispatch preserve the invariant: only the owner of the
\* claim fences the row, only the owner of the fence lifts it.
LEMMA DispatchSafe ==
    ASSUME IInv, Typed', NEW a \in Actors, Dispatch(a)
    PROVE  IInv'
<1>0. Typed /\ TokensIssued /\ TokensDistinct /\ CallerIsFenced /\ OpenCallIsFenced
  BY DEF IInv
<1> DEFINE s == op[a].s
<1>1. /\ op \in [Actors -> Op] /\ op[a] \in Op
      /\ row \in [Schedules -> Row \cup {None, Deleted}]
      /\ open \in [Schedules -> SUBSET Nat]
      /\ issued \in Nat
  BY <1>0 DEF Typed, TypeOK
<1>2. HoldsClaim(a) => s \in Schedules /\ op[a].token # NoToken
  BY <1>0 DEF Typed, OpTyped
<1>3. ASSUME HoldsClaim(a), Owns(a), NEW r \in Row, row' = [row EXCEPT ![s] = r],
             r.started = row[s].started,
             r.token = row[s].token \/ (~row[s].started /\ r.token = NoToken)
      PROVE  \A q \in Schedules : QuietRow(q)
  <2> SUFFICES ASSUME NEW q \in Schedules PROVE QuietRow(q)
    OBVIOUS
  <2>1. row[s] \in Row /\ Exists(s) /\ s \in Schedules /\ row[s].token <= issued
    BY <1>0, <1>2, <1>3, ExistsRow DEF Owns, TokensIssued
  <2>2. row'[q] = IF q = s THEN r ELSE row[q]
    BY <1>1, <1>2, <1>3
  <2>3. r \notin {None, Deleted}
    BY RowAssumption
  <2>4. r.token <= issued
    BY <1>1, <1>3, <2>1 DEF NoToken
  <2> QED BY <1>3, <2>1, <2>2, <2>3, <2>4 DEF QuietRow, Exists
<1>4. ASSUME NEW pc \in Phases, pc \in {"call", "running", "acked", "notStarted"} => InCall(a),
             op' = [op EXCEPT ![a].pc = pc]
      PROVE  \A b \in Actors : QuietOp(b)
  BY <1>1, <1>4 DEF QuietOp, InCall, Op
<1>5. CASE Refresh(a)
  <2>1. \A b \in Actors : QuietOp(b)
    <3>1. CASE Finish(a)
      BY <1>0, <3>1, ReturnQuiet
    <3>2. CASE op' = [op EXCEPT ![a] = [op[a] EXCEPT !.pc = "fence", !.snap = row[s]]]
      BY <1>1, <3>2 DEF QuietOp, InCall, Op
    <3> QED BY <1>5, <3>1, <3>2 DEF Refresh
  <2> QED BY <1>5, <2>1, QuietStep DEF Refresh, QuietRow
<1>6. CASE Release(a)
  <2>1. \A b \in Actors : QuietOp(b)
    BY <1>0, <1>6, ReturnQuiet DEF Release
  <2>2. \A q \in Schedules : QuietRow(q)
    <3>1. CASE Owns(a) /\ ~row[s].started
      <4>1. HoldsClaim(a)
        BY <1>6 DEF Release, HoldsClaim
      <4>2. row[s] \in Row
        BY <1>0, <1>2, <3>1, <4>1, ExistsRow DEF Owns
      <4>3. Unclaimed(row[s]) \in Row
        BY <4>2, RowTypes
      <4>4. row' = [row EXCEPT ![s] = Unclaimed(row[s])]
        BY <1>6, <3>1 DEF Release
      <4> QED BY <1>3, <3>1, <4>1, <4>2, <4>3, <4>4, UnclaimEffect
    <3>2. CASE ~(Owns(a) /\ ~row[s].started)
      BY <1>6, <3>2 DEF Release, QuietRow
    <3> QED BY <3>1, <3>2
  <2> QED BY <1>6, <2>1, <2>2, QuietStep DEF Release
<1>7. CASE Fence(a)
  <2>1. HoldsClaim(a)
    BY <1>7 DEF Fence, HoldsClaim
  <2>2. CASE ~CanFence(a)
    <3>1. \A b \in Actors : QuietOp(b)
      BY <1>0, <1>7, <2>2, ReturnQuiet DEF Fence
    <3> QED BY <1>7, <2>2, <3>1, QuietStep DEF Fence, QuietRow
  <2>3. CASE CanFence(a)
    <3>1. /\ row[s] \in Row /\ Exists(s) /\ s \in Schedules
          /\ ~row[s].started /\ row[s].token = op[a].token
      BY <1>0, <1>2, <2>1, <2>3, ExistsRow DEF CanFence, Owns
    <3> DEFINE r == Fenced(row[s], ~op[a].tick)
    <3>2. r.started /\ r.token = op[a].token
      BY <3>1 DEF Fenced, Row
    <3>3. row' = [row EXCEPT ![s] = r]
      BY <1>7, <2>3 DEF Fence
    <3> HIDE DEF r
    <3>4. row'[s] = r /\ \A q \in Schedules \ {s} : row'[q] = row[q]
      BY <1>1, <3>1, <3>3
    <3>5. r \notin {None, Deleted}
      BY <1>1, <3>1, RowAssumption, RowTypes DEF r, Op
    <3>6. /\ \A b \in Actors : op'[b].token = op[b].token /\ op'[b].s = op[b].s
          /\ \A b \in Actors \ {a} : op'[b].pc = op[b].pc
          /\ UNCHANGED <<issued, open, waived>>
      BY <1>1, <1>7, <2>3 DEF Fence, Op
    <3>7. TokensIssued' /\ TokensDistinct'
      BY <1>0, <3>1, <3>2, <3>4, <3>6 DEF TokensIssued, TokensDistinct, Exists
    <3>8. CallerIsFenced'
      <4> SUFFICES ASSUME NEW b \in Actors, InCall(b)', op'[b].token \notin waived'
                   PROVE  /\ Exists(op[b].s)'
                          /\ row'[op'[b].s].started
                          /\ row'[op'[b].s].token = op'[b].token
        BY DEF CallerIsFenced
      <4>1. CASE b = a
        BY <3>2, <3>4, <3>5, <3>6, <4>1 DEF Exists
      <4>2. CASE b # a
        <5>1. InCall(b) /\ op[b].token \notin waived
          BY <3>6, <4>2 DEF InCall
        <5>2. /\ Exists(op[b].s) /\ row[op[b].s].started
              /\ row[op[b].s].token = op[b].token
              /\ op[b].s \in Schedules
          BY <1>0, <5>1 DEF CallerIsFenced, Typed, OpTyped, HoldsClaim, InCall
        <5>3. row'[op[b].s] = row[op[b].s]
          BY <3>1, <3>4, <5>2
        <5> QED BY <3>6, <5>2, <5>3 DEF Exists
      <4> QED BY <4>1, <4>2
    <3>9. OpenCallIsFenced'
      <4>1. open[s] = {}
        BY <1>0, <3>1 DEF OpenCallIsFenced
      <4> QED BY <1>0, <3>4, <3>6, <4>1 DEF OpenCallIsFenced, Exists
    <3> QED BY <3>7, <3>8, <3>9 DEF IInv
  <2> QED BY <2>2, <2>3
<1>8. CASE CallDispatch(a)
  <2>1. HoldsClaim(a) /\ InCall(a)
    BY <1>8 DEF CallDispatch, HoldsClaim, InCall
  <2>2. \A b \in Actors : QuietOp(b)
    BY <1>4, <1>8, <2>1 DEF CallDispatch, Phases
  <2>3. CASE open' = open
    BY <1>8, <2>2, <2>3, QuietStep DEF CallDispatch, QuietRow
  <2>4. CASE op[a].token \notin waived /\ open' = [open EXCEPT ![s] = @ \cup {op[a].token}]
    <3>1. Exists(s) /\ row[s].started /\ row[s].token = op[a].token /\ s \in Schedules
      BY <1>0, <1>2, <2>1, <2>4 DEF CallerIsFenced
    <3>2. open[s] \cup {op[a].token} = {row[s].token}
      BY <1>0, <3>1 DEF OpenCallIsFenced
    <3>3. /\ open'[s] = {row[s].token}
          /\ \A q \in Schedules \ {s} : open'[q] = open[q]
      BY <1>1, <2>4, <3>1, <3>2
    <3>4. OpenCallIsFenced'
      BY <1>0, <1>8, <3>1, <3>3 DEF OpenCallIsFenced, CallDispatch, Exists
    <3>5. /\ UNCHANGED <<row, issued, waived>>
          /\ \A b \in Actors : op'[b].token = op[b].token /\ op'[b].s = op[b].s
          /\ \A b \in Actors \ {a} : op'[b].pc = op[b].pc
      BY <1>1, <1>8 DEF CallDispatch, Op
    <3>6. TokensIssued' /\ TokensDistinct'
      BY <1>0, <3>5 DEF TokensIssued, TokensDistinct, Exists
    <3>7. CallerIsFenced'
      <4> SUFFICES ASSUME NEW b \in Actors, InCall(b)', op'[b].token \notin waived'
                   PROVE  /\ Exists(op[b].s)'
                          /\ row'[op'[b].s].started
                          /\ row'[op'[b].s].token = op'[b].token
        BY DEF CallerIsFenced
      <4>1. InCall(b) /\ op[b].token \notin waived
        BY <2>1, <3>5 DEF InCall
      <4>2. Exists(op[b].s) /\ row[op[b].s].started /\ row[op[b].s].token = op[b].token
        BY <1>0, <4>1 DEF CallerIsFenced
      <4> QED BY <3>5, <4>2 DEF Exists
    <3> QED BY <3>4, <3>6, <3>7 DEF IInv
  <2> QED BY <1>8, <2>3, <2>4 DEF CallDispatch
<1>9. CASE Acknowledged(a)
  <2>1. \A b \in Actors : QuietOp(b)
    BY <1>4, <1>9 DEF Acknowledged, Phases, InCall
  <2> QED BY <1>9, <2>1, QuietStep DEF Acknowledged, QuietRow
<1>10. CASE DispatchFails(a)
  <2>1. \A b \in Actors : QuietOp(b)
    BY <1>0, <1>10, ReturnQuiet DEF DispatchFails
  <2>2. \A q \in Schedules : QuietRow(q)
    <3>1. CASE Owns(a)
      <4> DEFINE r == [row[s] EXCEPT !.enabled = FALSE, !.uncertain = TRUE,
                                     !.until = op[a].now]
      <4>1. HoldsClaim(a)
        BY <1>10 DEF DispatchFails, HoldsClaim
      <4>2. row[s] \in Row
        BY <1>0, <1>2, <3>1, <4>1, ExistsRow DEF Owns
      <4>3. r \in Row /\ r.token = row[s].token /\ r.started = row[s].started
        BY <1>1, <4>2 DEF Row, Op
      <4>4. row' = [row EXCEPT ![s] = r]
        BY <1>10, <3>1 DEF DispatchFails
      <4> HIDE DEF r
      <4> QED BY <1>3, <3>1, <4>1, <4>3, <4>4
    <3>2. CASE ~Owns(a)
      BY <1>10, <3>2 DEF DispatchFails, QuietRow
    <3> QED BY <3>1, <3>2
  <2> QED BY <1>10, <2>1, <2>2, QuietStep DEF DispatchFails
<1>11. CASE Settle(a)
  <2>1. /\ \A b \in Actors : QuietOp(b)
        /\ ~InCall(a)'
    BY <1>0, <1>11, ReturnQuiet DEF Settle
  <2>2. CASE ~Owns(a)
    BY <1>11, <2>1, <2>2, QuietStep DEF Settle, QuietRow
  <2>3. CASE Owns(a)
    <3> DEFINE r == [Replanned(Unfenced(row[s]), NextPlan(a)) EXCEPT !.uncertain = FALSE]
    <3>1. HoldsClaim(a)
      BY <1>11 DEF Settle, HoldsClaim
    <3>2. /\ row[s] \in Row /\ s \in Schedules /\ Exists(s)
          /\ op[a].token # NoToken /\ row[s].token = op[a].token
      BY <1>0, <1>2, <2>3, <3>1, ExistsRow DEF Owns
    <3>3. r.token = NoToken
      BY <3>2, UnfenceEffect, ReplanEffect
    <3>4. /\ row' = [row EXCEPT ![s] = r]
          /\ open' = [open EXCEPT ![s] = @ \ {op[a].token}]
          /\ issued' = issued /\ waived' = waived
      BY <1>11, <2>3 DEF Settle
    <3> HIDE DEF r
    <3>5. /\ row'[s] = r /\ open'[s] = open[s] \ {op[a].token}
          /\ \A q \in Schedules \ {s} : row'[q] = row[q] /\ open'[q] = open[q]
      BY <1>1, <3>2, <3>4
    <3>6. open'[s] = {}
      BY <1>0, <3>2, <3>5 DEF OpenCallIsFenced
    <3>7. \A b \in Actors : InCall(b) /\ InCall(b)' /\ op[b].s = s => op[b].token \in waived'
      BY <1>0, <2>1, <3>2, <3>4 DEF CallerIsFenced, TokensDistinct
    <3>8. row'[s].token <= issued'
      BY <1>1, <3>3, <3>4, <3>5 DEF NoToken
    <3>9. \A q \in Schedules \ {s} : QuietRow(q) /\ open'[q] = open[q]
      BY <3>5 DEF QuietRow
    <3> QED BY <2>1, <3>2, <3>4, <3>6, <3>7, <3>8, <3>9, VacatedStep
  <2> QED BY <2>2, <2>3
<1> QED BY <1>5, <1>6, <1>7, <1>8, <1>9, <1>10, <1>11 DEF Dispatch

\* Every step preserves the invariant.
LEMMA NextSafe ==
    ASSUME IInv, [Next]_vars
    PROVE  IInv'
<1>0. Typed /\ Typed'
  BY NextTyped DEF IInv
<1>1. ASSUME NEW a \in Actors, Cancel(a)
      PROVE  IInv'
  <2>1. \A b \in Actors : QuietOp(b)
    BY <1>0, <1>1 DEF Cancel, Typed, TypeOK, QuietOp, InCall, Op
  <2> QED BY <1>0, <1>1, <2>1, QuietStep DEF Cancel, QuietRow
<1>2. ASSUME NEW a \in Actors, Crash(a)
      PROVE  IInv'
  <2>1. \A b \in Actors : QuietOp(b)
    BY <1>0, <1>2, ReturnQuiet DEF Crash
  <2> QED BY <1>0, <1>2, <2>1, QuietStep DEF Crash, QuietRow
<1>3. ASSUME NEW s \in Schedules, Delete(s)
      PROVE  IInv'
  <2>1. /\ row \in [Schedules -> Row \cup {None, Deleted}]
        /\ open \in [Schedules -> SUBSET Nat]
    BY <1>0 DEF Typed, TypeOK
  <2>2. /\ row'[s] = Deleted /\ open'[s] = {}
        /\ \A q \in Schedules \ {s} : row'[q] = row[q] /\ open'[q] = open[q]
    BY <1>3, <2>1 DEF Delete
  <2>3. op' = op /\ issued' = issued /\ waived \subseteq waived'
    BY <1>3 DEF Delete
  <2>4. \A b \in Actors : QuietOp(b)
    BY <2>3 DEF QuietOp, InCall
  <2>5. \A b \in Actors : InCall(b) /\ op[b].s = s => op[b].token \in waived'
    BY <1>3 DEF IInv, CallerIsFenced, Delete
  <2>6. \A q \in Schedules \ {s} : QuietRow(q) /\ open'[q] = open[q]
    BY <2>2 DEF QuietRow
  <2>7. row'[s] \notin {None, Deleted} => row'[s].token <= issued'
    BY <2>2
  <2>8. CASE \E b \in Actors : TRUE
    BY <1>0, <2>2, <2>3, <2>4, <2>5, <2>6, <2>7, <2>8, VacatedStep
  <2>9. CASE Actors = {}
    BY <1>0, <2>2, <2>3, <2>6, <2>9
       DEF IInv, TokensIssued, TokensDistinct, CallerIsFenced, OpenCallIsFenced,
           QuietRow, Exists
  <2> QED BY <2>8, <2>9
<1>4. CASE Tick
  <2>1. UNCHANGED <<row, op, issued, open, waived>>
    BY <1>4 DEF Tick
  <2> QED BY <1>0, <2>1, QuietStep DEF QuietRow, QuietOp, InCall
<1>5. CASE UNCHANGED vars
  <2>1. UNCHANGED <<row, op, issued, open, waived>>
    BY <1>5 DEF vars
  <2> QED BY <1>0, <2>1, QuietStep DEF QuietRow, QuietOp, InCall
<1> QED BY <1>0, <1>1, <1>2, <1>3, <1>4, <1>5, RequestSafe, RunDueSafe, DispatchSafe
        DEF Next

\* The invariant holds before anybody has acted.
LEMMA InitSafe == Init => IInv
<1> SUFFICES ASSUME Init PROVE IInv
  OBVIOUS
<1>1. Typed
  BY InitTyped
<1>2. \A a \in Actors : op[a].token = NoToken /\ ~InCall(a)
  BY DEF Init, Idle, InCall
<1>3. \A s \in Schedules : ~Exists(s) /\ open[s] = {}
  BY DEF Init, Exists
<1>4. TokensIssued
  BY <1>2, <1>3 DEF TokensIssued, Init, NoToken
<1> QED BY <1>1, <1>2, <1>3, <1>4
        DEF IInv, TokensDistinct, CallerIsFenced, OpenCallIsFenced

\* The inductive invariant.
THEOREM Invariance == Spec => []IInv
BY InitSafe, NextSafe, PTL DEF Spec

\* At most one outcome: however many processes, stops, crashes, expired leases
\* and stale clocks there are, a call that created work and is neither
\* acknowledged nor resolved by the user keeps its row fenced against all
\* others.
THEOREM AtMostOneOutcome == Spec => []OpenCallIsFenced
<1>1. IInv => OpenCallIsFenced
  BY DEF IInv
<1> QED BY <1>1, Invariance, PTL

\* Two actors are inside the dispatcher for one schedule only after a user gave
\* up the fence of one of them.
THEOREM NoOverlap == Spec => []NoUnapprovedOverlap
<1>1. IInv => NoUnapprovedOverlap
  <2> SUFFICES ASSUME IInv, NEW s \in Schedules, NEW a \in Actors, NEW b \in Actors,
                      a # b, Calling(a, s), Calling(b, s),
                      op[a].token \notin waived, op[b].token \notin waived
               PROVE  FALSE
    BY DEF NoUnapprovedOverlap
  <2>1. row[s].token = op[a].token /\ row[s].token = op[b].token
    BY DEF IInv, CallerIsFenced, Calling, InCall
  <2>2. op[a].token # NoToken
    BY DEF IInv, Typed, OpTyped, HoldsClaim, Calling
  <2> QED BY <2>1, <2>2 DEF IInv, TokensDistinct
<1> QED BY <1>1, Invariance, PTL

-----------------------------------------------------------------------------
(* Due times: what a claim still knows of its row, however late it acts.   *)

\* What the due time of a row and the last one started have to do with each other.
AheadOf(r, last) ==
    last # None =>
        /\ r.next # None => IF r.started /\ ~r.preserve THEN r.next >= last ELSE r.next > last
        /\ r.started /\ ~r.preserve => r.until >= last

RowAhead(s) ==
    /\ row[s] = None => lastDue[s] = None
    /\ Exists(s) => /\ row[s].started => row[s].token # NoToken
                    /\ AheadOf(row[s], lastDue[s])

\* What a claim that is still owned says about the row and its due time.
OwnerAhead(o, r, last) ==
    /\ r.started <=> o.pc \notin {"refresh", "fence"}
    /\ o.pc # "refresh" /\ o.tick =>
        /\ o.snap.next # None /\ o.snap.next <= o.now
        /\ r.until >= o.snap.next
        /\ r.next # None => r.next >= o.snap.next
        /\ r.started => last = o.snap.next /\ ~r.preserve
    /\ o.pc # "refresh" /\ ~o.tick =>
        /\ o.snap.next # None /\ last # None => o.snap.next > last
        /\ r.started => r.preserve

ClaimAhead(a) ==
    /\ op[a].now <= clock
    /\ op[a].pc \in {"request", "refresh"} => ~op[a].tick
    /\ op[a].pc \in {"running", "acked"} => op[a].token \in open[op[a].s] \cup waived
    /\ HoldsClaim(a) /\ Owns(a) => OwnerAhead(op[a], row[op[a].s], lastDue[op[a].s])

DueInv == /\ IInv
          /\ RowsAgree
          /\ \A s \in Schedules : RowAhead(s)
          /\ \A a \in Actors : ClaimAhead(a)

\* A row that is left alone keeps its relation to the last due time.
LEMMA SameRow ==
    ASSUME NEW s \in Schedules, RowAhead(s), row'[s] = row[s], lastDue'[s] = lastDue[s]
    PROVE  RowAhead(s)'
BY DEF RowAhead, Exists

\* An operation that goes on untouched keeps what it knows, unless it lost its row.
LEMMA SameClaim ==
    ASSUME Typed, NEW b \in Actors, ClaimAhead(b), op'[b] = op[b], clock' >= clock, clock' \in Nat,
           HoldsClaim(b) /\ op[b].token \in open[op[b].s] \cup waived =>
               op[b].token \in open'[op[b].s] \cup waived',
           \/ UNCHANGED <<row[op[b].s], lastDue[op[b].s]>>
           \/ HoldsClaim(b) => ~Owns(b)'
    PROVE  ClaimAhead(b)'
<1> DEFINE o == op[b]
<1>1. o.now \in Nat /\ clock \in Nat /\ o.now <= clock
  BY DEF ClaimAhead, Typed, TypeOK, Op
<1>2. op'[b].now <= clock'
  BY <1>1
<1>3. /\ op'[b].pc \in {"request", "refresh"} => ~op'[b].tick
      /\ op'[b].pc \in {"running", "acked"} => op'[b].token \in open'[op'[b].s] \cup waived'
  BY DEF ClaimAhead, HoldsClaim
<1>4. ASSUME HoldsClaim(b)', Owns(b)'
      PROVE  OwnerAhead(op'[b], row'[op'[b].s], lastDue'[op'[b].s])
  <2>1. HoldsClaim(b)
    BY <1>4 DEF HoldsClaim
  <2>2. row'[o.s] = row[o.s] /\ lastDue'[o.s] = lastDue[o.s]
    BY <1>4, <2>1
  <2>3. Owns(b)
    BY <1>4, <2>2 DEF Owns, Exists
  <2> QED BY <2>1, <2>2, <2>3 DEF ClaimAhead
<1> QED BY <1>2, <1>3, <1>4 DEF ClaimAhead

\* An operation that ends, or goes on to the next due row, holds no claim.
LEMMA EndedClaim ==
    ASSUME Typed, NEW b \in Actors, ClaimAhead(b), Finish(b) \/ Return(b), UNCHANGED clock
    PROVE  ClaimAhead(b)' /\ \A c \in Actors \ {b} : op'[c] = op[c]
<1> DEFINE next == [Idle EXCEPT !.pc = "claim", !.now = op[b].now, !.tick = TRUE,
                                !.cancelled = op[b].cancelled]
<1>1. op \in [Actors -> Op] /\ clock \in Nat /\ op[b].now <= clock
  BY DEF Typed, TypeOK, ClaimAhead
<1>2. /\ Idle.pc = "idle" /\ Idle.now = 0
      /\ next.pc = "claim" /\ next.now = op[b].now
  BY DEF Idle
<1>3. op' = [op EXCEPT ![b] = Idle] \/ op' = [op EXCEPT ![b] = next]
  BY DEF Finish, Return
<1> HIDE DEF next
<1>4. \A c \in Actors \ {b} : op'[c] = op[c]
  BY <1>1, <1>3
<1>5. op'[b] = Idle \/ op'[b] = next
  BY <1>1, <1>3
<1>6. ClaimAhead(b)'
  BY <1>1, <1>2, <1>5 DEF ClaimAhead, HoldsClaim
<1> QED BY <1>4, <1>6

\* A step that ends one operation and rewrites at most the row s0, whose claim
\* changes hands or is not touched.
LEMMA OthersKeep ==
    ASSUME DueInv, NEW a \in Actors, NEW s0 \in Schedules, clock' = clock,
           \A b \in Actors \ {a} : op'[b] = op[b],
           \A q \in Schedules \ {s0} : row'[q] = row[q] /\ lastDue'[q] = lastDue[q],
           \A b \in Actors \ {a} : HoldsClaim(b) /\ op[b].token \in open[op[b].s] \cup waived =>
               op[b].token \in open'[op[b].s] \cup waived',
           \A b \in Actors \ {a} : HoldsClaim(b) /\ op[b].s = s0 => ~Owns(b)'
    PROVE  \A b \in Actors \ {a} : ClaimAhead(b)'
<1> SUFFICES ASSUME NEW b \in Actors \ {a} PROVE ClaimAhead(b)'
  OBVIOUS
<1>1. Typed /\ ClaimAhead(b) /\ clock \in Nat
  BY DEF DueInv, IInv, Typed, TypeOK
<1>2. HoldsClaim(b) => op[b].s \in Schedules
  BY <1>1 DEF Typed, OpTyped
<1>3. CASE HoldsClaim(b)
  BY <1>1, <1>2, <1>3, SameClaim
<1>4. CASE ~HoldsClaim(b)
  BY <1>1, <1>4, SameClaim
<1> QED BY <1>3, <1>4

\* One whole period more than fit into a span is longer than the span.
LEMMA PeriodsBeyond ==
    ASSUME NEW P \in Nat, P > 0, NEW d \in Nat
    PROVE  (d \div P + 1) * P > d /\ (d \div P + 1) * P \in Nat
<1>1. (d \div P + 1) * P > d
  OBVIOUS
<1>2. d \div P \in Nat
  OBVIOUS
<1> QED BY <1>1, <1>2

\* The next run of a timetable that has one lies in the future.
LEMMA NextAnchoredLater ==
    ASSUME NEW start \in Nat, NEW after \in Nat
    PROVE  NextAnchored(start, after) > after
<1>1. CASE start > after
  BY <1>1 DEF NextAnchored
<1>2. CASE ~(start > after)
  <2> DEFINE whole == ((after - start) \div Period + 1) * Period
  <2>1. whole > after - start /\ whole \in Nat
    BY <1>2, PeriodsBeyond, TimeAssumption
  <2>2. NextAnchored(start, after) = start + whole
    BY <1>2 DEF NextAnchored
  <2> HIDE DEF whole
  <2> QED BY <1>2, <2>1, <2>2
<1> QED BY <1>1, <1>2

\* The next date of a timing is later than the time it was asked for.
LEMMA NextRunLater ==
    ASSUME NEW t \in Timings, NEW after \in Nat, t.kind = "at" => HasNextRun(t, after)
    PROVE  NextRun(t, after) > after
<1>1. /\ t.kind \in Kinds /\ t.start \in Nat \cup {None}
      /\ t.kind \in {"daily", "at"} => t.start \in Nat
  BY TimingAssumption, NoneAssumption DEF Timing
<1>2. CASE t.kind = "at"
  BY <1>1, <1>2 DEF NextRun, HasNextRun
<1>3. CASE t.kind = "cron"
  BY <1>1, <1>3, NextAnchoredLater DEF NextRun
<1>4. CASE t.kind \in {"interval", "daily"}
  <2>1. NextRun(t, after) = IF t.start = None THEN after + Period
                                              ELSE NextAnchored(t.start, after)
    BY <1>4 DEF NextRun
  <2> QED BY <1>1, <2>1, NextAnchoredLater, TimeAssumption
<1> QED BY <1>1, <1>2, <1>3, <1>4 DEF Kinds

\* The run that follows a row lies after the due time it was claimed for.
LEMMA FollowingLater ==
    ASSUME NEW r \in Row, NEW now \in Nat, NEW last \in Nat, last <= now,
           r.next # None => r.next >= last
    PROVE  Following(r, now).next # None => Following(r, now).next > last
<1>1. CASE r.timing.kind = "at"
  BY <1>1 DEF Following, Plan
<1>2. CASE r.timing.kind = "interval" /\ r.next # None
  <2> DEFINE late == IF now > r.next THEN now - r.next ELSE 0
             whole == (late \div Period + 1) * Period
  <2>1. r.next \in Nat /\ late \in Nat
    BY <1>2 DEF Row
  <2> HIDE DEF late
  <2>2. whole > late /\ whole \in Nat
    BY <2>1, PeriodsBeyond, TimeAssumption
  <2>3. FollowingDue(r, now) = r.next + whole
    BY <1>2 DEF FollowingDue, late
  <2> HIDE DEF whole
  <2>5. FollowingDue(r, now) > last
    BY <1>2, <2>1, <2>2, <2>3
  <2> QED BY <2>5 DEF Following, Plan
<1>3. CASE r.timing.kind # "at" /\ ~(r.timing.kind = "interval" /\ r.next # None)
  <2>1. r.timing \in Timings
    BY DEF Row
  <2>2. FollowingDue(r, now) > now /\ FollowingDue(r, now) \in Nat
    BY <1>3, <2>1, NextRunLater, NextRunType DEF FollowingDue
  <2> QED BY <2>2 DEF Following, Plan
<1> QED BY <1>1, <1>2, <1>3

\* A claim does not move a row that carries no fence.
LEMMA ClaimedAhead ==
    ASSUME NEW r \in Row, ~r.started, NEW last, AheadOf(r, last),
           NEW token \in Nat, NEW now \in Nat
    PROVE  AheadOf(Claimed(r, token, now), last) /\ ~Claimed(r, token, now).started
BY TimeAssumption DEF AheadOf, Claimed, Row

\* A row that is set free is due after the last start if its new plan is.
LEMMA ResolvedAhead ==
    ASSUME NEW r \in Row, NEW plan \in PlanType, NEW last,
           last # None /\ plan.next # None => plan.next > last
    PROVE  AheadOf(Resolved(r, plan), last) /\ ~Resolved(r, plan).started
<1>1. Unfenced(r) \in Row /\ ~Unfenced(r).started
  BY UnfenceEffect DEF Unfenced, Unclaimed, Row
<1> DEFINE u == Unfenced(r)
<1>2. /\ Resolved(r, plan).next = plan.next
      /\ Resolved(r, plan).started = u.started
  BY <1>1 DEF Resolved, Replanned, Row
<1> QED BY <1>1, <1>2 DEF AheadOf

\* Requests.
LEMMA RequestDue ==
    ASSUME DueInv, IInv', RowsAgree', NEW a \in Actors, Request(a)
    PROVE  DueInv'
<1>0. /\ IInv /\ Typed /\ Typed' /\ TokensIssued /\ OpenCallIsFenced
      /\ \A s \in Schedules : RowAhead(s)
      /\ \A b \in Actors : ClaimAhead(b)
  BY DEF DueInv, IInv
<1>1. /\ op \in [Actors -> Op] /\ op[a] \in Op /\ op[a].now \in Nat
      /\ row \in [Schedules -> Row \cup {None, Deleted}]
      /\ lastDue \in [Schedules -> Nat \cup {None}]
      /\ open \in [Schedules -> SUBSET Nat]
      /\ issued \in Nat /\ clock \in Nat
  BY <1>0 DEF Typed, TypeOK, Op
<1>2. \A b \in Actors : /\ op[b].token \in Nat /\ op[b].token <= issued
                        /\ HoldsClaim(b) => op[b].token # NoToken /\ op[b].s \in Schedules
  BY <1>0 DEF TokensIssued, Typed, TypeOK, OpTyped, Op
<1>3. \A s \in Schedules : open[s] # {} => Exists(s) /\ open[s] = {row[s].token}
  BY <1>0 DEF OpenCallIsFenced
<1>4. CASE StartRequest(a)
  <2>1. UNCHANGED <<row, clock, open, waived, lastDue>>
    BY <1>4 DEF StartRequest
  <2>2. \A b \in Actors \ {a} : op'[b] = op[b]
    BY <1>1, <1>4 DEF StartRequest
  <2>3. op'[a].pc = "request" /\ op'[a].now = clock /\ ~op'[a].tick
    BY <1>1, <1>4 DEF StartRequest, Idle
  <2>4. ClaimAhead(a)'
    BY <1>1, <2>1, <2>3 DEF ClaimAhead, HoldsClaim
  <2>5. \A s \in Schedules : RowAhead(s)'
    BY <1>0, <2>1, SameRow
  <2>6. \A b \in Actors \ {a} : ClaimAhead(b)'
    BY <1>0, <1>1, <2>1, <2>2, SameClaim
  <2> QED BY <1>0, <2>4, <2>5, <2>6 DEF DueInv
<1>5. CASE Refused(a)
  <2>1. UNCHANGED <<row, clock, open, waived, lastDue>>
    BY <1>5 DEF Refused
  <2>2. ClaimAhead(a)' /\ \A b \in Actors \ {a} : op'[b] = op[b]
    BY <1>0, <1>5, EndedClaim DEF Refused
  <2>3. \A s \in Schedules : RowAhead(s)'
    BY <1>0, <2>1, SameRow
  <2>4. \A b \in Actors \ {a} : ClaimAhead(b)'
    BY <1>0, <1>1, <2>1, <2>2, SameClaim
  <2> QED BY <1>0, <2>2, <2>3, <2>4 DEF DueInv
\* A request that returns after it rewrote one row into an unclaimed one.
<1>6. ASSUME NEW s \in Schedules, NEW new \in Row, Finish(a), UNCHANGED clock,
             row' = [row EXCEPT ![s] = new], new.token = NoToken, ~new.started,
             AheadOf(new, lastDue'[s]),
             \A q \in Schedules \ {s} : lastDue'[q] = lastDue[q],
             \/ UNCHANGED <<open, waived>>
             \/ Waive(s)
      PROVE  DueInv'
  <2>1. ClaimAhead(a)' /\ \A b \in Actors \ {a} : op'[b] = op[b]
    BY <1>0, <1>6, EndedClaim
  <2>2. row'[s] = new /\ \A q \in Schedules \ {s} : row'[q] = row[q]
    BY <1>1, <1>6
  <2>3. RowAhead(s)'
    BY <1>6, <2>2, RowAssumption DEF RowAhead, Exists
  <2>4. \A q \in Schedules \ {s} : RowAhead(q)'
    BY <1>0, <1>6, <2>2, SameRow
  <2>5. \A b \in Actors \ {a} : HoldsClaim(b) /\ op[b].s = s => ~Owns(b)'
    BY <1>2, <1>6, <2>1, <2>2 DEF Owns
  <2>6. \A b \in Actors \ {a} : HoldsClaim(b) /\ op[b].token \in open[op[b].s] \cup waived =>
            op[b].token \in open'[op[b].s] \cup waived'
    BY <1>1, <1>2, <1>3, <1>6 DEF Waive
  <2>7. \A b \in Actors \ {a} : ClaimAhead(b)'
    BY <1>6, <2>1, <2>2, <2>5, <2>6, OthersKeep
  <2> QED BY <2>1, <2>3, <2>4, <2>7 DEF DueInv
<1>7. ASSUME NEW s \in Schedules, NEW timing \in Timings, NEW enable \in BOOLEAN,
             Create(a, s, timing, enable)
      PROVE  DueInv'
  <2> DEFINE new == NewRow(timing, enable, op[a].now)
  <2>1. new \in Row /\ new.token = NoToken /\ ~new.started
    BY <1>1, NextRunType DEF NewRow, Row, NoToken
  <2>2. lastDue' = lastDue /\ lastDue[s] = None
    BY <1>0, <1>7 DEF Create, RowAhead
  <2> QED BY <1>6, <1>7, <2>1, <2>2 DEF Create, AheadOf
<1>8. ASSUME NEW s \in Schedules, Skip(a, s)
      PROVE  DueInv'
  <2> DEFINE r == row[s]
             plan == SkipPlan(r, op[a].now)
             new == Resolved(r, plan)
  <2>1. /\ r \in Row /\ r.started /\ ~Live(r, op[a].now)
        /\ r.token # NoToken /\ AheadOf(r, lastDue[s])
    BY <1>0, <1>8, ExistsRow DEF Skip, Resolvable, RowAhead
  <2>2. r.until <= op[a].now /\ r.until \in Nat
    <3>1. r.until # None
      BY <1>8, <2>1 DEF Skip, Resolvable, DueInv, RowsAgree, Agrees
    <3> QED BY <1>1, <2>1, <3>1 DEF Live, Row
  <2>3. plan \in PlanType
    BY <1>1, <2>1, RowTypes
  <2>4. lastDue[s] # None /\ plan.next # None => plan.next > lastDue[s]
    <3>1. CASE r.preserve
      BY <2>1, <3>1 DEF SkipPlan, Plan, Restored, AheadOf
    <3>2. CASE ~r.preserve
      BY <1>1, <2>1, <2>2, <3>2, FollowingLater DEF SkipPlan, AheadOf
    <3> QED BY <3>1, <3>2
  <2>5. new \in Row /\ new.token = NoToken /\ AheadOf(new, lastDue[s]) /\ ~new.started
    BY <1>1, <2>1, <2>3, <2>4, ResolvedAhead, ResolveEffect, RowTypes
  <2> HIDE DEF new
  <2>6. lastDue' = lastDue /\ Finish(a) /\ UNCHANGED clock /\ Waive(s)
        /\ row' = [row EXCEPT ![s] = new]
    BY <1>8 DEF Skip, new
  <2> QED BY <1>6, <2>5, <2>6
<1>9. ASSUME NEW s \in Schedules, Retry(a, s)
      PROVE  DueInv'
  <2> DEFINE plan == Plan(TRUE, op[a].now)
             new == Resolved(row[s], plan)
  <2>1. row[s] \in Row
    BY <1>0, <1>9, ExistsRow DEF Retry, Retriable, Resolvable
  <2>2. plan \in PlanType
    BY <1>1 DEF Plan, PlanType
  <2>3. lastDue'[s] = None /\ \A q \in Schedules \ {s} : lastDue'[q] = lastDue[q]
    BY <1>1, <1>9 DEF Retry
  <2>4. new \in Row /\ new.token = NoToken /\ AheadOf(new, None) /\ ~new.started
    BY <1>1, <2>1, <2>2, ResolvedAhead, ResolveEffect, RowTypes
  <2> HIDE DEF new
  <2>5. Finish(a) /\ UNCHANGED clock /\ Waive(s) /\ row' = [row EXCEPT ![s] = new]
    BY <1>9 DEF Retry, new
  <2> QED BY <1>6, <2>3, <2>4, <2>5
\* A request that claims a row without a fence, or one whose fence it resolved.
<1>10. ASSUME NEW s \in Schedules, NEW new \in Row, Exists(s),
              issued' = issued + 1, UNCHANGED <<clock, lastDue>>,
              row' = [row EXCEPT ![s] = new], new.token = issued + 1, ~new.started,
              AheadOf(new, lastDue[s]),
              \/ UNCHANGED <<open, waived>>
              \/ Waive(s),
              \A b \in Actors \ {a} : op'[b] = op[b],
              ClaimAhead(a)'
       PROVE  DueInv'
  <2>1. row'[s] = new /\ \A q \in Schedules \ {s} : row'[q] = row[q]
    BY <1>1, <1>10
  <2>2. RowAhead(s)'
    BY <1>10, <2>1, RowAssumption DEF RowAhead, Exists
  <2>3. \A q \in Schedules \ {s} : RowAhead(q)'
    BY <1>0, <1>10, <2>1, SameRow
  <2>4. \A b \in Actors \ {a} : HoldsClaim(b) /\ op[b].s = s => ~Owns(b)'
    BY <1>1, <1>2, <1>10, <2>1 DEF Owns
  <2>5. \A b \in Actors \ {a} : HoldsClaim(b) /\ op[b].token \in open[op[b].s] \cup waived =>
            op[b].token \in open'[op[b].s] \cup waived'
    BY <1>1, <1>2, <1>3, <1>10 DEF Waive
  <2>6. \A b \in Actors \ {a} : ClaimAhead(b)'
    BY <1>10, <2>1, <2>4, <2>5, OthersKeep
  <2> QED BY <1>10, <2>2, <2>3, <2>6 DEF DueInv
<1>11. ASSUME NEW s \in Schedules, RetryManual(a, s)
       PROVE  DueInv'
  <2> DEFINE o == [op[a] EXCEPT !.pc = "refresh", !.s = s, !.token = issued + 1]
             freed == Resolved(row[s], Restored(row[s]))
             new == Claimed(freed, issued + 1, op[a].now)
  <2>1. /\ row[s] \in Row /\ Exists(s) /\ row[s].started /\ row[s].preserve
        /\ AheadOf(row[s], lastDue[s])
    BY <1>0, <1>11, ExistsRow DEF RetryManual, Retriable, Resolvable, RowAhead
  <2>2. Restored(row[s]) \in PlanType /\ Restored(row[s]).next = row[s].next
    BY <2>1 DEF Restored, Plan, PlanType, Row
  <2>3. freed \in Row /\ ~freed.started /\ AheadOf(freed, lastDue[s])
    BY <1>1, <2>1, <2>2, ResolvedAhead, RowTypes DEF AheadOf
  <2>4. issued + 1 \in Nat
    BY <1>1
  <2>5. op' = [op EXCEPT ![a] = o] /\ row' = [row EXCEPT ![s] = new]
    BY <1>11 DEF RetryManual
  <2> HIDE DEF freed
  <2>6. new \in Row /\ new.token = issued + 1 /\ AheadOf(new, lastDue[s]) /\ ~new.started
    <3>1. new \in Row
      BY <1>1, <2>3, <2>4, RowTypes
    <3>2. new.token = issued + 1
      BY <2>3, <2>4, ClaimEffect
    <3>3. AheadOf(new, lastDue[s]) /\ ~new.started
      BY <1>1, <2>3, <2>4, ClaimedAhead
    <3> QED BY <3>1, <3>2, <3>3
  <2>7. /\ o.pc = "refresh" /\ o.s = s /\ o.now = op[a].now /\ o.tick = op[a].tick
    BY <1>1 DEF Op
  <2> HIDE DEF o, new
  <2>8. op'[a] = o /\ \A b \in Actors \ {a} : op'[b] = op[b]
    BY <1>1, <2>5
  <2>9. row'[s] = new
    BY <1>1, <2>5
  <2>10. UNCHANGED <<clock, lastDue>> /\ issued' = issued + 1 /\ Waive(s) /\ op[a].pc = "request"
    BY <1>11 DEF RetryManual
  <2>11. ClaimAhead(a)'
    BY <1>0, <2>6, <2>7, <2>8, <2>9, <2>10 DEF ClaimAhead, OwnerAhead
  <2> QED BY <1>10, <2>1, <2>5, <2>6, <2>8, <2>10, <2>11
<1>12. ASSUME NEW s \in Schedules, RunNow(a, s)
       PROVE  DueInv'
  <2> DEFINE o == [op[a] EXCEPT !.pc = "fence", !.s = s, !.token = issued + 1,
                                !.snap = row[s]]
             new == Claimed(row[s], issued + 1, op[a].now)
  <2>1. row[s] \in Row /\ Exists(s) /\ ~row[s].started /\ AheadOf(row[s], lastDue[s])
    BY <1>0, <1>12, ExistsRow DEF RunNow, RowAhead
  <2>2. issued + 1 \in Nat
    BY <1>1
  <2>3. op' = [op EXCEPT ![a] = o] /\ row' = [row EXCEPT ![s] = new]
    BY <1>12 DEF RunNow
  <2>4. new \in Row /\ new.token = issued + 1 /\ AheadOf(new, lastDue[s]) /\ ~new.started
    <3>1. new \in Row
      BY <1>1, <2>1, <2>2, RowTypes
    <3>2. new.token = issued + 1
      BY <2>1, <2>2, ClaimEffect
    <3>3. AheadOf(new, lastDue[s]) /\ ~new.started
      BY <1>1, <2>1, <2>2, ClaimedAhead
    <3> QED BY <3>1, <3>2, <3>3
  <2>5. /\ o.pc = "fence" /\ o.s = s /\ o.now = op[a].now /\ o.tick = op[a].tick
        /\ o.snap = row[s]
    BY <1>1 DEF Op
  <2> HIDE DEF o, new
  <2>6. op'[a] = o /\ row'[s] = new /\ \A b \in Actors \ {a} : op'[b] = op[b]
    BY <1>1, <2>3
  <2>7. UNCHANGED <<clock, lastDue, open, waived>> /\ issued' = issued + 1 /\ op[a].pc = "request"
    BY <1>12 DEF RunNow
  <2>8. ClaimAhead(a)'
    BY <1>0, <2>1, <2>4, <2>5, <2>6, <2>7 DEF ClaimAhead, OwnerAhead, AheadOf
  <2> QED BY <1>10, <2>1, <2>3, <2>4, <2>6, <2>7, <2>8
<1>13. ASSUME NEW s \in Schedules, NEW timing \in Timings, NEW enable \in BOOLEAN,
              Edit(a, s, timing, enable)
       PROVE  DueInv'
  <2> DEFINE r == row[s]
             plan == EditedPlan(r, timing, enable, op[a].now)
             new == [Replanned(r, plan) EXCEPT !.timing = timing]
  <2>1. /\ r \in Row /\ Exists(s) /\ ~r.started /\ ~Live(r, op[a].now)
        /\ r.timing # timing \/ r.enabled # enable
        /\ enable => OnlyEndMoves(r, timing, enable) \/ HasNextRun(timing, op[a].now)
        /\ Finish(a) /\ UNCHANGED <<clock, open, waived>>
    BY <1>0, <1>13, ExistsRow DEF Edit
  <2>2. plan \in PlanType
    BY <1>1, <2>1, NextRunType DEF EditedPlan, OnlyEndMoves, Plan, PlanType, Row
  <2>3. plan.next # None => plan.next = r.next \/ plan.next > op[a].now
    BY <1>1, <2>1, NextRunLater DEF EditedPlan, Plan, HasNextRun
  <2>4. Replanned(r, plan) \in Row
    BY <1>1, <2>1, <2>2, RowTypes
  <2>5. /\ new \in Row /\ new.next = plan.next /\ new.started = r.started
        /\ new.token = r.token /\ new.until = r.until
    BY <2>1, <2>2, <2>4 DEF Replanned, Row
  <2>6. row' = [row EXCEPT ![s] = new]
    BY <1>13 DEF Edit
  <2>7. lastDue'[s] = None /\ \A q \in Schedules \ {s} : lastDue'[q] = lastDue[q]
    BY <1>1, <1>13 DEF Edit
  <2> HIDE DEF new, plan
  <2>8. row'[s] = new /\ \A q \in Schedules \ {s} : row'[q] = row[q]
    BY <1>1, <2>6
  <2>9. RowAhead(s)'
    BY <2>1, <2>5, <2>7, <2>8, RowAssumption DEF RowAhead, AheadOf, Exists
  <2>10. \A q \in Schedules \ {s} : RowAhead(q)'
    BY <1>0, <2>7, <2>8, SameRow
  <2>11. ClaimAhead(a)' /\ \A b \in Actors \ {a} : op'[b] = op[b]
    BY <1>0, <2>1, EndedClaim
  <2>12. ASSUME NEW b \in Actors \ {a} PROVE ClaimAhead(b)'
    <3>1. CASE HoldsClaim(b) /\ op[b].s = s /\ Owns(b)'
      <4>1. Owns(b) /\ OwnerAhead(op[b], r, lastDue[s]) /\ op[b].token # NoToken
        BY <1>0, <1>2, <2>1, <2>5, <2>8, <2>11, <3>1 DEF Owns, ClaimAhead
      <4>2. r.until <= op[a].now /\ r.until \in Nat
        <5>1. r.token # NoToken /\ r.until # None
          BY <3>1, <4>1 DEF Owns, DueInv, RowsAgree, Agrees
        <5> QED BY <1>1, <2>1, <5>1 DEF Live, Row
      <4>3. OwnerAhead(op[b], new, None)
        <5>1. op[b].tick /\ op[b].pc # "refresh" => op[b].snap \in Row
          BY <1>0, <3>1 DEF HoldsClaim, HasRead, Typed, OpTyped
        <5>2. op[b].snap.next # None /\ op[b].tick /\ op[b].pc # "refresh" => op[b].snap.next \in Nat
          BY <5>1 DEF Row
        <5> QED BY <1>1, <2>1, <2>2, <2>3, <2>5, <4>1, <4>2, <5>2, NoneAssumption DEF OwnerAhead, PlanType
      <4>4. OwnerAhead(op'[b], row'[op'[b].s], lastDue'[op'[b].s])
        BY <2>7, <2>8, <2>11, <3>1, <4>3
      <4> QED BY <1>0, <2>1, <2>11, <4>4 DEF ClaimAhead
    <3>2. CASE ~(HoldsClaim(b) /\ op[b].s = s)
      BY <1>0, <1>1, <1>2, <2>1, <2>7, <2>8, <2>11, <3>2, SameClaim
    <3>3. CASE ~Owns(b)'
      BY <1>0, <1>1, <2>1, <2>11, <3>3, SameClaim
    <3> QED BY <3>1, <3>2, <3>3
  <2> QED BY <2>9, <2>10, <2>11, <2>12 DEF DueInv
<1> QED BY <1>4, <1>5, <1>7, <1>8, <1>9, <1>11, <1>12, <1>13 DEF Request

\* The sweep of a tick moves no due time; a claim it leaves alone keeps its lease.
LEMMA SweptShape ==
    ASSUME NEW r \in Row, NEW now \in Nat
    PROVE  /\ Swept(r, now) \in Row
           /\ Swept(r, now).next \in {r.next, None}
           /\ Swept(r, now).started = r.started
           /\ Swept(r, now).preserve = r.preserve
           /\ Swept(r, now).token \in {r.token, NoToken}
           /\ r.started => Swept(r, now).token = r.token
           /\ Swept(r, now).token # NoToken => Swept(r, now).until = r.until
           /\ r.started => Swept(r, now).until = r.until
<1>1. Swept(r, now) \in Row
  BY RowTypes
<1>2. CASE Expired(r, now)
  BY <1>1, <1>2 DEF Swept, Expired, Missed, Row
<1>3. CASE ~Expired(r, now) /\ Missed(r, now)
  <2> DEFINE u == Unclaimed(r)
  <2>1. Swept(r, now) = [Replanned(u, Plan(FALSE, None)) EXCEPT !.uncertain = FALSE]
    BY <1>3 DEF Swept, Expired, Missed
  <2>2. /\ u \in Row /\ u.token = NoToken /\ u.started = r.started
        /\ u.preserve = r.preserve
    BY RowTypes, UnclaimEffect DEF Unclaimed, Row
  <2> HIDE DEF u
  <2>3. /\ Swept(r, now).next = None /\ Swept(r, now).token = NoToken
        /\ Swept(r, now).started = r.started /\ Swept(r, now).preserve = r.preserve
    BY <2>1, <2>2 DEF Replanned, Plan, Row
  <2> QED BY <1>1, <1>3, <2>3 DEF Missed
<1>4. CASE ~Expired(r, now) /\ ~Missed(r, now)
  BY <1>1, <1>4 DEF Swept
<1> QED BY <1>2, <1>3, <1>4

\* Neither a due time nor a claim is put at odds with the last start by a sweep.
LEMMA SweptAhead ==
    ASSUME NEW r \in Row, NEW now \in Nat, NEW last, AheadOf(r, last)
    PROVE  /\ AheadOf(Swept(r, now), last)
           /\ \A o : OwnerAhead(o, r, last) /\ Swept(r, now).token # NoToken =>
                        OwnerAhead(o, Swept(r, now), last)
<1> DEFINE w == Swept(r, now)
<1>1. /\ w.next \in {r.next, None} /\ w.started = r.started /\ w.preserve = r.preserve
      /\ w.token # NoToken => w.until = r.until
      /\ r.started => w.until = r.until
  BY SweptShape
<1> HIDE DEF w
<1>2. AheadOf(w, last)
  BY <1>1 DEF AheadOf
<1>3. \A o : OwnerAhead(o, r, last) /\ w.token # NoToken => OwnerAhead(o, w, last)
  BY <1>1 DEF OwnerAhead
<1> QED BY <1>2, <1>3 DEF w

\* Ticks.
LEMMA RunDueDue ==
    ASSUME DueInv, IInv', RowsAgree', NEW a \in Actors, RunDue(a)
    PROVE  DueInv'
<1>0. /\ IInv /\ Typed /\ Typed' /\ TokensIssued
      /\ \A s \in Schedules : RowAhead(s)
      /\ \A b \in Actors : ClaimAhead(b)
  BY DEF DueInv, IInv
<1>1. /\ op \in [Actors -> Op] /\ op[a] \in Op /\ op[a].now \in Nat
      /\ row \in [Schedules -> Row \cup {None, Deleted}]
      /\ lastDue \in [Schedules -> Nat \cup {None}]
      /\ issued \in Nat /\ clock \in Nat
  BY <1>0 DEF Typed, TypeOK, Op
<1>2. \A b \in Actors : /\ op[b].token \in Nat /\ op[b].token <= issued
                        /\ HoldsClaim(b) => op[b].token # NoToken /\ op[b].s \in Schedules
                        /\ HasRead(b) => op[b].snap \in Row
  BY <1>0 DEF TokensIssued, Typed, TypeOK, OpTyped, Op
<1>3. CASE StartTick(a)
  <2>1. UNCHANGED <<row, clock, open, waived, lastDue>>
    BY <1>3 DEF StartTick
  <2>2. \A b \in Actors \ {a} : op'[b] = op[b]
    BY <1>1, <1>3 DEF StartTick
  <2>3. op'[a].pc = "claim" /\ op'[a].now = clock
    BY <1>1, <1>3 DEF StartTick, Idle
  <2>4. ClaimAhead(a)'
    BY <1>1, <2>1, <2>3 DEF ClaimAhead, HoldsClaim
  <2>5. \A s \in Schedules : RowAhead(s)'
    BY <1>0, <2>1, SameRow
  <2>6. \A b \in Actors \ {a} : ClaimAhead(b)'
    BY <1>0, <1>1, <2>1, <2>2, SameClaim
  <2> QED BY <1>0, <2>4, <2>5, <2>6 DEF DueInv
<1> DEFINE now == op[a].now
           table == Sweep(now)
<1>4. /\ table \in [Schedules -> Row \cup {None, Deleted}]
      /\ \A s \in Schedules :
           table[s] = IF Exists(s) THEN Swept(row[s], now) ELSE row[s]
  BY <1>0, <1>1, SweepTyped
<1> HIDE DEF table
<1>5. ASSUME NEW s \in Schedules, row'[s] = table[s], UNCHANGED lastDue
      PROVE  RowAhead(s)'
  <2>1. CASE Exists(s)
    <3>1. row[s] \in Row /\ AheadOf(row[s], lastDue[s]) /\ row'[s] = Swept(row[s], now)
          /\ (row[s].started => row[s].token # NoToken)
      BY <1>0, <1>4, <1>5, <2>1, ExistsRow DEF RowAhead
    <3>2. AheadOf(row'[s], lastDue'[s])
      BY <1>1, <1>5, <3>1, SweptAhead
    <3>3. row'[s].started => row'[s].token # NoToken
      BY <1>1, <3>1, SweptShape
    <3>4. row'[s] # None
      BY <1>1, <3>1, SweptShape, RowAssumption
    <3> QED BY <3>2, <3>3, <3>4 DEF RowAhead
  <2>2. CASE ~Exists(s)
    <3>1. row'[s] = row[s]
      BY <1>4, <1>5, <2>2
    <3> QED BY <1>0, <1>5, <3>1, SameRow
  <2> QED BY <2>1, <2>2
<1>6. ASSUME NEW b \in Actors \ {a}, op'[b] = op[b], UNCHANGED <<clock, open, waived, lastDue>>,
             HoldsClaim(b) => row'[op[b].s] = table[op[b].s] \/ ~Owns(b)'
      PROVE  ClaimAhead(b)'
  <2>1. CASE HoldsClaim(b) /\ Owns(b)'
    <3> DEFINE r == row[op[b].s]
    <3>1. op[b].s \in Schedules /\ op[b].token # NoToken /\ row'[op[b].s] = table[op[b].s]
      BY <1>2, <1>6, <2>1
    <3>2. /\ Exists(op[b].s) /\ r \in Row /\ row'[op[b].s] = Swept(r, now)
          /\ row'[op[b].s].token = op[b].token
      BY <1>0, <1>4, <1>6, <2>1, <3>1, ExistsRow DEF Owns, Exists
    <3>3. r.token = op[b].token
      <4>1. Swept(r, now).token \in {r.token, NoToken}
        BY <1>1, <3>2, SweptShape
      <4> QED BY <3>1, <3>2, <4>1
    <3>4. OwnerAhead(op[b], r, lastDue[op[b].s])
      BY <1>0, <2>1, <3>2, <3>3 DEF ClaimAhead, Owns
    <3>5. OwnerAhead(op[b], row'[op[b].s], lastDue[op[b].s])
      BY <1>0, <1>1, <3>1, <3>2, <3>4, SweptAhead DEF RowAhead
    <3> QED BY <1>0, <1>6, <3>5 DEF ClaimAhead
  <2>2. CASE ~(HoldsClaim(b) /\ Owns(b)')
    BY <1>0, <1>1, <1>6, <2>2, SameClaim
  <2> QED BY <2>1, <2>2
<1>7. CASE ClaimNextDue(a)
  <2>1. UNCHANGED <<clock, open, waived, lastDue>>
    BY <1>7 DEF ClaimNextDue
  <2>2. CASE Finish(a) /\ row' = row
    <3>1. ClaimAhead(a)' /\ \A b \in Actors \ {a} : op'[b] = op[b]
      BY <1>0, <2>1, <2>2, EndedClaim
    <3>2. \A s \in Schedules : RowAhead(s)'
      BY <1>0, <2>1, <2>2, SameRow
    <3>3. \A b \in Actors \ {a} : ClaimAhead(b)'
      BY <1>0, <1>1, <2>1, <2>2, <3>1, SameClaim
    <3> QED BY <3>1, <3>2, <3>3 DEF DueInv
  <2>3. CASE Finish(a) /\ row' = table
    <3>1. ClaimAhead(a)' /\ \A b \in Actors \ {a} : op'[b] = op[b]
      BY <1>0, <2>1, <2>3, EndedClaim
    <3>2. \A s \in Schedules : RowAhead(s)'
      BY <1>5, <2>1, <2>3
    <3>3. \A b \in Actors \ {a} : ClaimAhead(b)'
      BY <1>6, <2>1, <2>3, <3>1
    <3> QED BY <3>1, <3>2, <3>3 DEF DueInv
  <2>4. ASSUME NEW s \in DueRows(table, now),
               issued' = issued + 1,
               row' = [table EXCEPT ![s] = Claimed(@, issued + 1, now)],
               op' = [op EXCEPT ![a] = [@ EXCEPT !.pc = "fence", !.s = s,
                                !.token = issued + 1, !.snap = table[s]]]
        PROVE  DueInv'
    <3> DEFINE o == [op[a] EXCEPT !.pc = "fence", !.s = s, !.token = issued + 1,
                                  !.snap = table[s]]
               r == table[s]
               new == Claimed(r, issued + 1, now)
    <3>1. /\ s \in Schedules /\ r \in Row /\ ~r.started /\ Exists(s)
          /\ r.next # None /\ r.next <= now
      BY <1>4, <2>4 DEF DueRows, Due, Exists
    <3>2. row[s] \in Row /\ r = Swept(row[s], now) /\ AheadOf(row[s], lastDue[s])
      BY <1>0, <1>4, <3>1, ExistsRow DEF RowAhead
    <3>3. AheadOf(r, lastDue[s]) /\ issued + 1 \in Nat
      BY <1>1, <3>2, SweptAhead
    <3>4. new.token = issued + 1 /\ AheadOf(new, lastDue[s]) /\ ~new.started
      <4>1. new.token = issued + 1
        BY <3>1, <3>3, ClaimEffect
      <4>2. AheadOf(new, lastDue[s]) /\ ~new.started
        BY <1>1, <3>1, <3>3, ClaimedAhead
      <4> QED BY <4>1, <4>2
    <3>5. new \in Row /\ new.until = now + Lease /\ new.next = r.next
      <4>1. new \in Row
        BY <1>1, <3>1, <3>3, RowTypes
      <4> QED BY <3>1, <4>1 DEF Claimed, Row
    <3>6. r.next \in Nat /\ new.until >= r.next
      BY <1>1, <3>1, <3>5, TimeAssumption DEF Row
    <3>7. /\ o.pc = "fence" /\ o.s = s /\ o.now = now /\ o.tick = op[a].tick
          /\ o.token = issued + 1 /\ o.snap = r
      BY <1>1 DEF Op
    <3>8. op' = [op EXCEPT ![a] = o] /\ row' = [table EXCEPT ![s] = new]
      BY <2>4
    <3> HIDE DEF o, new
    <3>9. row'[s] = new /\ \A q \in Schedules \ {s} : row'[q] = table[q]
      BY <1>4, <3>1, <3>8
    <3>10. op'[a] = o /\ \A b \in Actors \ {a} : op'[b] = op[b]
      BY <1>1, <3>8
    <3>11. RowAhead(s)'
      BY <2>1, <3>1, <3>4, <3>5, <3>9, RowAssumption DEF RowAhead, Exists
    <3>12. \A q \in Schedules \ {s} : RowAhead(q)'
      BY <1>5, <2>1, <3>9
    <3>13. OwnerAhead(o, new, lastDue[s])
      BY <3>1, <3>3, <3>4, <3>5, <3>6, <3>7 DEF OwnerAhead, AheadOf
    <3>14. ClaimAhead(a)'
      BY <1>0, <2>1, <3>7, <3>9, <3>10, <3>13 DEF ClaimAhead
    <3>15. \A b \in Actors \ {a} : HoldsClaim(b) => row'[op[b].s] = table[op[b].s] \/ ~Owns(b)'
      BY <1>1, <1>2, <3>4, <3>9, <3>10 DEF Owns
    <3>16. \A b \in Actors \ {a} : ClaimAhead(b)'
      BY <1>6, <2>1, <3>10, <3>15
    <3> QED BY <3>11, <3>12, <3>14, <3>16 DEF DueInv
  <2> QED BY <1>7, <2>2, <2>3, <2>4 DEF ClaimNextDue, table
<1> QED BY <1>3, <1>7 DEF RunDue

\* The steps of one dispatch.
LEMMA DispatchDue ==
    ASSUME DueInv, IInv', RowsAgree', NEW a \in Actors, Dispatch(a)
    PROVE  DueInv'
<1>0. /\ IInv /\ Typed /\ Typed' /\ TokensDistinct /\ OpenCallIsFenced
      /\ \A s \in Schedules : RowAhead(s)
      /\ \A b \in Actors : ClaimAhead(b)
  BY DEF DueInv, IInv
<1> DEFINE s == op[a].s
           r == row[s]
<1>1. /\ op \in [Actors -> Op] /\ op[a] \in Op /\ op[a].now \in Nat
      /\ row \in [Schedules -> Row \cup {None, Deleted}]
      /\ lastDue \in [Schedules -> Nat \cup {None}]
      /\ open \in [Schedules -> SUBSET Nat]
      /\ clock \in Nat /\ UNCHANGED clock
  BY <1>0 DEF Typed, TypeOK, Op, Dispatch, Refresh, Release, Fence, CallDispatch,
              Acknowledged, DispatchFails, Settle
<1>2. \A b \in Actors : /\ HoldsClaim(b) => op[b].token # NoToken /\ op[b].s \in Schedules
                        /\ HasRead(b) => op[b].snap \in Row
  BY <1>0 DEF Typed, OpTyped
<1>3. HoldsClaim(a) /\ Owns(a) => /\ r \in Row /\ AheadOf(r, lastDue[s])
                                  /\ r.started => r.token # NoToken
                                  /\ OwnerAhead(op[a], r, lastDue[s])
  BY <1>0, <1>2, ExistsRow DEF RowAhead, ClaimAhead, Owns
<1>4. \A b \in Actors \ {a} : HoldsClaim(b) => op[b].token # op[a].token
  BY <1>0, <1>2 DEF TokensDistinct
\* The owner rewrites its row and keeps the claim, or gives it up.
<1>5. ASSUME HoldsClaim(a), Owns(a), NEW new \in Row, row' = [row EXCEPT ![s] = new],
             new.token \in {op[a].token, NoToken},
             AheadOf(new, lastDue'[s]), new.started => new.token # NoToken,
             \A q \in Schedules \ {s} : lastDue'[q] = lastDue[q],
             \A b \in Actors \ {a} : op'[b] = op[b],
             \A q \in Schedules : open[q] \ {op[a].token} \subseteq open'[q],
             waived' = waived, ClaimAhead(a)'
      PROVE  DueInv'
  <2>0. PICK s0 \in Schedules : s0 = s
    BY <1>2, <1>5
  <2>1. row'[s0] = new /\ \A q \in Schedules \ {s0} : row'[q] = row[q]
    BY <1>1, <1>5, <2>0
  <2>2. RowAhead(s0)'
    BY <1>5, <2>0, <2>1, RowAssumption DEF RowAhead, Exists
  <2>3. \A q \in Schedules \ {s0} : RowAhead(q)'
    BY <1>0, <1>5, <2>0, <2>1, SameRow
  <2>4. \A b \in Actors \ {a} : HoldsClaim(b) /\ op[b].s = s0 => ~Owns(b)'
    BY <1>2, <1>4, <1>5, <2>1 DEF Owns
  <2>5. \A b \in Actors \ {a} : HoldsClaim(b) /\ op[b].token \in open[op[b].s] \cup waived =>
            op[b].token \in open'[op[b].s] \cup waived'
    BY <1>2, <1>4, <1>5
  <2>6. \A b \in Actors \ {a} : ClaimAhead(b)'
    BY <1>1, <1>5, <2>0, <2>1, <2>4, <2>5, OthersKeep
  <2> QED BY <1>5, <2>2, <2>3, <2>6 DEF DueInv
\* The table stays as it is.
<1>6. ASSUME UNCHANGED <<row, lastDue, waived>>, ClaimAhead(a)',
             \A b \in Actors \ {a} : op'[b] = op[b],
             \A q \in Schedules : open[q] \ {op[a].token} \subseteq open'[q]
      PROVE  DueInv'
  <2>1. \A q \in Schedules : RowAhead(q)'
    BY <1>0, <1>6, SameRow
  <2>2. \A b \in Actors \ {a} : HoldsClaim(b) /\ op[b].token \in open[op[b].s] \cup waived =>
            op[b].token \in open'[op[b].s] \cup waived'
    BY <1>2, <1>4, <1>6
  <2>3. \A b \in Actors \ {a} : ClaimAhead(b)'
    BY <1>0, <1>1, <1>6, <2>2, SameClaim
  <2> QED BY <1>6, <2>1, <2>3 DEF DueInv
<1>7. CASE Refresh(a)
  <2>1. UNCHANGED <<row, lastDue, open, waived>> /\ op[a].pc = "refresh" /\ HoldsClaim(a)
    BY <1>7 DEF Refresh, HoldsClaim
  <2>2. CASE Finish(a)
    <3>1. ClaimAhead(a)' /\ \A b \in Actors \ {a} : op'[b] = op[b]
      BY <1>0, <1>1, <2>2, EndedClaim
    <3> QED BY <1>6, <2>1, <3>1
  <2>3. CASE Exists(s) /\ op' = [op EXCEPT ![a] = [op[a] EXCEPT !.pc = "fence", !.snap = r]]
    <3> DEFINE o == [op[a] EXCEPT !.pc = "fence", !.snap = r]
    <3>1. /\ o.pc = "fence" /\ o.s = s /\ o.now = op[a].now /\ o.tick = op[a].tick
          /\ o.token = op[a].token /\ o.snap = r
      BY <1>1 DEF Op
    <3> HIDE DEF o
    <3>2. op'[a] = o /\ \A b \in Actors \ {a} : op'[b] = op[b]
      BY <1>1, <2>3 DEF o
    <3>3. Owns(a) => OwnerAhead(o, r, lastDue[s])
      BY <1>0, <1>3, <2>1, <3>1 DEF OwnerAhead, ClaimAhead, AheadOf
    <3>4. ClaimAhead(a)'
      BY <1>0, <1>1, <2>1, <3>1, <3>2, <3>3 DEF ClaimAhead, Owns, Exists
    <3> QED BY <1>6, <2>1, <3>2, <3>4
  <2> QED BY <1>7, <2>2, <2>3 DEF Refresh
<1>8. CASE Release(a)
  <2>1. HoldsClaim(a) /\ UNCHANGED <<lastDue, open, waived>>
    BY <1>8 DEF Release, HoldsClaim
  <2>2. ClaimAhead(a)' /\ \A b \in Actors \ {a} : op'[b] = op[b]
    BY <1>0, <1>1, <1>8, EndedClaim DEF Release
  <2>3. CASE Owns(a) /\ ~r.started
    <3> DEFINE new == Unclaimed(r)
    <3>1. /\ new \in Row /\ new.token = NoToken /\ new.started = r.started
          /\ new.next = r.next
      BY <1>3, <2>1, <2>3, RowTypes, UnclaimEffect DEF Unclaimed, Row
    <3>2. row' = [row EXCEPT ![s] = new]
      BY <1>8, <2>3 DEF Release
    <3> HIDE DEF new
    <3>3. AheadOf(new, lastDue[s])
      BY <1>3, <2>1, <2>3, <3>1 DEF AheadOf
    <3> QED BY <1>5, <2>1, <2>2, <2>3, <3>1, <3>2, <3>3
  <2>4. CASE ~(Owns(a) /\ ~r.started)
    BY <1>6, <1>8, <2>1, <2>2, <2>4 DEF Release
  <2> QED BY <2>3, <2>4
<1>9. CASE Fence(a)
  <2>1. HoldsClaim(a) /\ HasRead(a) /\ op[a].pc = "fence" /\ UNCHANGED <<open, waived>>
    BY <1>9 DEF Fence, HoldsClaim, HasRead
  <2>2. CASE ~CanFence(a)
    <3>1. ClaimAhead(a)' /\ \A b \in Actors \ {a} : op'[b] = op[b]
      BY <1>0, <1>1, <1>9, <2>2, EndedClaim DEF Fence
    <3> QED BY <1>6, <1>9, <2>1, <2>2, <3>1 DEF Fence
  <2>3. CASE CanFence(a)
    <3> DEFINE new == Fenced(r, ~op[a].tick)
               o == [op[a] EXCEPT !.pc = "call"]
               last == IF op[a].tick THEN op[a].snap.next ELSE lastDue[s]
    <3>1. /\ Owns(a) /\ r \in Row /\ AheadOf(r, lastDue[s]) /\ ~r.started
          /\ r.token = op[a].token /\ r.token # NoToken /\ s \in Schedules
          /\ OwnerAhead(op[a], r, lastDue[s]) /\ op[a].snap \in Row /\ op[a].tick \in BOOLEAN
      BY <1>1, <1>2, <1>3, <2>1, <2>3 DEF CanFence, Owns, Op
    <3>2. /\ new \in Row /\ new.started /\ new.token = r.token /\ new.until = r.until
          /\ new.next = r.next /\ new.preserve = ~op[a].tick
      BY <3>1 DEF Fenced, Row
    <3>3. /\ o.pc = "call" /\ o.s = s /\ o.now = op[a].now /\ o.tick = op[a].tick
          /\ o.token = op[a].token /\ o.snap = op[a].snap
      BY <1>1 DEF Op
    <3>4. /\ row' = [row EXCEPT ![s] = new] /\ op' = [op EXCEPT ![a] = o]
          /\ lastDue' = IF op[a].tick THEN [lastDue EXCEPT ![s] = op[a].snap.next] ELSE lastDue
      BY <1>9, <2>3 DEF Fence
    <3> HIDE DEF new, o
    <3>5. op'[a] = o /\ (\A b \in Actors \ {a} : op'[b] = op[b]) /\ row'[s] = new
      BY <1>1, <3>1, <3>4
    <3>6. lastDue'[s] = last /\ \A q \in Schedules \ {s} : lastDue'[q] = lastDue[q]
      BY <1>1, <3>1, <3>4
    <3>7. AheadOf(new, last)
      BY <2>1, <3>1, <3>2 DEF AheadOf, OwnerAhead
    <3>8. OwnerAhead(o, new, last)
      BY <2>1, <3>1, <3>2, <3>3 DEF OwnerAhead
    <3> HIDE DEF last
    <3>9. ClaimAhead(a)'
      BY <1>0, <1>1, <3>3, <3>5, <3>6, <3>8 DEF ClaimAhead
    <3> QED BY <1>5, <2>1, <3>1, <3>2, <3>4, <3>5, <3>6, <3>7, <3>9
  <2> QED BY <2>2, <2>3
\* A phase of the dispatch that leaves the table as it is.
<1>10. ASSUME NEW pc \in {"running", "acked", "notStarted"}, InCall(a),
              op' = [op EXCEPT ![a].pc = pc], UNCHANGED <<row, lastDue, waived>>,
              \A q \in Schedules : open[q] \subseteq open'[q],
              pc \in {"running", "acked"} => op[a].token \in open'[s] \cup waived
       PROVE  DueInv'
  <2> DEFINE o == [op[a] EXCEPT !.pc = pc]
  <2>1. /\ o.pc = pc /\ o.s = s /\ o.now = op[a].now /\ o.tick = op[a].tick
        /\ o.token = op[a].token /\ o.snap = op[a].snap
    BY <1>1 DEF Op
  <2> HIDE DEF o
  <2>2. op'[a] = o /\ \A b \in Actors \ {a} : op'[b] = op[b]
    BY <1>1, <1>10 DEF o
  <2>3. HoldsClaim(a) /\ op[a].pc \notin {"refresh", "fence"}
    BY <1>10 DEF HoldsClaim, InCall
  <2>4. Owns(a) => OwnerAhead(o, r, lastDue[s])
    BY <1>3, <1>10, <2>1, <2>3 DEF OwnerAhead
  <2>5. ClaimAhead(a)'
    BY <1>0, <1>1, <1>10, <2>1, <2>2, <2>4 DEF ClaimAhead, Owns, Exists
  <2> QED BY <1>6, <1>10, <2>2, <2>5
<1>11. CASE CallDispatch(a)
  <2>1. InCall(a) /\ UNCHANGED <<row, lastDue, waived>> /\ s \in Schedules
    BY <1>2, <1>11 DEF CallDispatch, InCall, HoldsClaim
  <2>2. CASE op' = [op EXCEPT ![a].pc = "notStarted"] /\ UNCHANGED open
    BY <1>10, <2>1, <2>2
  <2>3. CASE /\ op' = [op EXCEPT ![a].pc = "running"]
             /\ open' = IF op[a].token \in waived THEN open
                        ELSE [open EXCEPT ![s] = @ \cup {op[a].token}]
    <3>1. /\ \A q \in Schedules : open[q] \subseteq open'[q]
          /\ op[a].token \in open'[s] \cup waived
      BY <1>1, <2>1, <2>3
    <3> QED BY <1>10, <2>1, <2>3, <3>1
  <2> QED BY <1>11, <2>2, <2>3 DEF CallDispatch
<1>12. CASE Acknowledged(a)
  <2>1. /\ InCall(a) /\ UNCHANGED <<row, lastDue, waived, open>>
        /\ op' = [op EXCEPT ![a].pc = "acked"] /\ op[a].token \in open[s] \cup waived
    BY <1>0, <1>12 DEF Acknowledged, InCall, ClaimAhead
  <2> QED BY <1>10, <2>1
<1>13. CASE DispatchFails(a)
  <2>1. HoldsClaim(a) /\ HasRead(a) /\ op[a].pc = "running" /\ UNCHANGED <<lastDue, open, waived>>
    BY <1>13 DEF DispatchFails, HoldsClaim, HasRead
  <2>2. ClaimAhead(a)' /\ \A b \in Actors \ {a} : op'[b] = op[b]
    BY <1>0, <1>1, <1>13, EndedClaim DEF DispatchFails
  <2>3. CASE Owns(a)
    <3> DEFINE new == [r EXCEPT !.enabled = FALSE, !.uncertain = TRUE, !.until = op[a].now]
    <3>1. /\ r \in Row /\ AheadOf(r, lastDue[s]) /\ r.token = op[a].token
          /\ OwnerAhead(op[a], r, lastDue[s]) /\ (r.started => r.token # NoToken)
      BY <1>3, <2>1, <2>3 DEF Owns
    <3>2. /\ new \in Row /\ new.token = r.token /\ new.started = r.started
          /\ new.next = r.next /\ new.preserve = r.preserve /\ new.until = op[a].now
      BY <1>1, <3>1 DEF Row
    <3>3. row' = [row EXCEPT ![s] = new]
      BY <1>13, <2>3 DEF DispatchFails
    <3> HIDE DEF new
    <3>4. AheadOf(new, lastDue[s])
      BY <2>1, <3>1, <3>2 DEF AheadOf, OwnerAhead
    <3> QED BY <1>5, <2>1, <2>2, <2>3, <3>1, <3>2, <3>3, <3>4
  <2>4. CASE ~Owns(a)
    BY <1>6, <1>13, <2>1, <2>2, <2>4 DEF DispatchFails
  <2> QED BY <2>3, <2>4
<1>14. CASE Settle(a)
  <2>1. /\ HoldsClaim(a) /\ HasRead(a) /\ op[a].pc \in {"acked", "notStarted"}
        /\ UNCHANGED <<lastDue, waived>>
    BY <1>14 DEF Settle, HoldsClaim, HasRead
  <2>2. ClaimAhead(a)' /\ \A b \in Actors \ {a} : op'[b] = op[b]
    BY <1>0, <1>1, <1>14, EndedClaim DEF Settle
  <2>3. CASE Owns(a)
    <3> DEFINE plan == NextPlan(a)
               new == Resolved(r, plan)
    <3>1. /\ r \in Row /\ AheadOf(r, lastDue[s]) /\ s \in Schedules
          /\ OwnerAhead(op[a], r, lastDue[s]) /\ op[a].snap \in Row
      BY <1>2, <1>3, <2>1, <2>3
    <3>2. plan \in PlanType
      BY <1>0, <2>1, NextPlanType
    <3>3. lastDue[s] # None /\ plan.next # None => plan.next > lastDue[s]
      <4>1. CASE ~op[a].tick
        BY <2>1, <3>1, <4>1 DEF NextPlan, Plan, OwnerAhead
      <4>2. CASE op[a].tick
        <5>1. /\ lastDue[s] = op[a].snap.next /\ lastDue[s] \in Nat /\ lastDue[s] <= op[a].now
          BY <2>1, <3>1, <4>2 DEF OwnerAhead, Row
        <5>2. CASE op[a].pc = "notStarted" /\ op[a].snap.timing.kind = "at"
          BY <1>1, <4>2, <5>1, <5>2, TimeAssumption DEF NextPlan, Plan
        <5>3. CASE ~(op[a].pc = "notStarted" /\ op[a].snap.timing.kind = "at")
          <6>1. plan = Following(op[a].snap, op[a].now)
            BY <4>2, <5>3 DEF NextPlan
          <6>2. op[a].snap.next # None => op[a].snap.next >= lastDue[s]
            BY <5>1
          <6> QED BY <1>1, <3>1, <5>1, <6>1, <6>2, FollowingLater
        <5> QED BY <5>2, <5>3
      <4> QED BY <4>1, <4>2
    <3> HIDE DEF plan
    <3>4. new \in Row /\ new.token = NoToken
      BY <1>1, <3>1, <3>2, RowTypes, ResolveEffect
    <3>5. AheadOf(new, lastDue[s]) /\ ~new.started
      BY <3>1, <3>2, <3>3, ResolvedAhead
    <3>6. /\ row' = [row EXCEPT ![s] = new]
          /\ open' = [open EXCEPT ![s] = @ \ {op[a].token}]
      BY <1>14, <2>3 DEF Settle, Resolved, plan
    <3> HIDE DEF new
    <3>7. \A q \in Schedules : open[q] \ {op[a].token} \subseteq open'[q]
      BY <1>1, <3>1, <3>6
    <3> QED BY <1>5, <2>1, <2>2, <2>3, <3>4, <3>5, <3>6, <3>7
  <2>4. CASE ~Owns(a)
    BY <1>6, <1>14, <2>1, <2>2, <2>4 DEF Settle
  <2> QED BY <2>3, <2>4
<1> QED BY <1>7, <1>8, <1>9, <1>11, <1>12, <1>13, <1>14 DEF Dispatch

\* Every step preserves the invariant.
LEMMA NextDue ==
    ASSUME DueInv, IInv', RowsAgree', [Next]_vars
    PROVE  DueInv'
<1>0. /\ IInv /\ Typed /\ clock \in Nat
      /\ op \in [Actors -> Op]
      /\ \A s \in Schedules : RowAhead(s)
      /\ \A b \in Actors : ClaimAhead(b)
  BY DEF DueInv, IInv, Typed, TypeOK
<1>1. ASSUME NEW a \in Actors, Cancel(a)
      PROVE  DueInv'
  <2> DEFINE o == [op[a] EXCEPT !.cancelled = TRUE]
  <2>1. /\ o.pc = op[a].pc /\ o.s = op[a].s /\ o.now = op[a].now /\ o.tick = op[a].tick
        /\ o.token = op[a].token /\ o.snap = op[a].snap
    BY <1>0 DEF Op
  <2>2. UNCHANGED <<row, clock, open, waived, lastDue>> /\ op' = [op EXCEPT ![a] = o]
    BY <1>1 DEF Cancel
  <2> HIDE DEF o
  <2>3. op'[a] = o /\ \A b \in Actors \ {a} : op'[b] = op[b]
    BY <1>0, <2>2
  <2>4. OwnerAhead(op[a], row[op[a].s], lastDue[op[a].s]) =>
            OwnerAhead(o, row[op[a].s], lastDue[op[a].s])
    BY <2>1 DEF OwnerAhead
  <2>5. ClaimAhead(a)'
    BY <1>0, <2>1, <2>2, <2>3, <2>4 DEF ClaimAhead, HoldsClaim, Owns, Exists
  <2>6. \A b \in Actors \ {a} : ClaimAhead(b)'
    BY <1>0, <2>2, <2>3, SameClaim
  <2>7. \A s \in Schedules : RowAhead(s)'
    BY <1>0, <2>2, SameRow
  <2> QED BY <2>5, <2>6, <2>7 DEF DueInv
<1>2. ASSUME NEW a \in Actors, Crash(a)
      PROVE  DueInv'
  <2>1. UNCHANGED <<row, clock, open, waived, lastDue>>
    BY <1>2 DEF Crash
  <2>2. ClaimAhead(a)' /\ \A b \in Actors \ {a} : op'[b] = op[b]
    BY <1>0, <1>2, <2>1, EndedClaim DEF Crash
  <2>3. \A b \in Actors \ {a} : ClaimAhead(b)'
    BY <1>0, <2>1, <2>2, SameClaim
  <2>4. \A s \in Schedules : RowAhead(s)'
    BY <1>0, <2>1, SameRow
  <2> QED BY <2>2, <2>3, <2>4 DEF DueInv
<1>3. ASSUME NEW s \in Schedules, Delete(s)
      PROVE  DueInv'
  <2>1. /\ UNCHANGED <<op, clock, lastDue>> /\ Exists(s)
        /\ row'[s] = Deleted /\ \A q \in Schedules \ {s} : row'[q] = row[q]
    BY <1>0, <1>3 DEF Delete, Typed, TypeOK
  <2>2. RowAhead(s)'
    BY <2>1, RowAssumption DEF RowAhead, Exists
  <2>3. \A q \in Schedules \ {s} : RowAhead(q)'
    BY <1>0, <2>1, SameRow
  <2>4. open[s] \subseteq waived' /\ waived \subseteq waived'
        /\ \A q \in Schedules \ {s} : open'[q] = open[q]
    BY <1>0, <1>3 DEF Delete, IInv, OpenCallIsFenced, Typed, TypeOK
  <2>5. ASSUME NEW b \in Actors PROVE ClaimAhead(b)'
    <3>1. HoldsClaim(b) => op[b].s \in Schedules
      BY <1>0 DEF Typed, OpTyped
    <3>2. HoldsClaim(b) /\ op[b].s = s => ~Owns(b)'
      BY <2>1 DEF Owns, Exists
    <3>3. HoldsClaim(b) /\ op[b].token \in open[op[b].s] \cup waived =>
              op[b].token \in open'[op[b].s] \cup waived'
      BY <2>4, <3>1
    <3> QED BY <1>0, <2>1, <3>1, <3>2, <3>3, SameClaim
  <2> QED BY <2>2, <2>3, <2>5 DEF DueInv
<1>4. CASE Tick
  <2>1. UNCHANGED <<row, op, open, waived, lastDue>> /\ clock' = clock + 1
    BY <1>4 DEF Tick
  <2>2. \A b \in Actors : ClaimAhead(b)'
    BY <1>0, <2>1, SameClaim
  <2>3. \A s \in Schedules : RowAhead(s)'
    BY <1>0, <2>1, SameRow
  <2> QED BY <2>2, <2>3 DEF DueInv
<1>5. CASE UNCHANGED vars
  <2>1. UNCHANGED <<row, op, clock, open, waived, lastDue>>
    BY <1>5 DEF vars
  <2>2. \A b \in Actors : ClaimAhead(b)'
    BY <1>0, <2>1, SameClaim
  <2>3. \A s \in Schedules : RowAhead(s)'
    BY <1>0, <2>1, SameRow
  <2> QED BY <2>2, <2>3 DEF DueInv
<1> QED BY <1>1, <1>2, <1>3, <1>4, <1>5, RequestDue, RunDueDue, DispatchDue DEF Next

\* What the due times, claims and calls of all schedules have to do with each
\* other, in every reachable state.
THEOREM DueInvariance == Spec => []DueInv
<1>1. Init => DueInv
  <2>1. ASSUME Init PROVE IInv
    BY <2>1, InitSafe
  <2> QED BY <2>1 DEF Init, DueInv, RowsAgree, RowAhead, ClaimAhead, Exists, Idle, HoldsClaim
<1>2. DueInv /\ IInv' /\ RowsAgree' /\ [Next]_vars => DueInv'
  BY NextDue
<1> QED BY <1>1, <1>2, Invariance, ColumnsAgree, PTL DEF Spec

\* A due time is started once: whatever stale clock computed it, the due time of
\* an armed row lies after the last one started (_following_run, _dispatch).
THEOREM DueOnce == Spec => []NextAfterLastDue
<1>1. DueInv => NextAfterLastDue
  BY DEF DueInv, RowAhead, AheadOf, NextAfterLastDue
<1> QED BY <1>1, DueInvariance, PTL

-----------------------------------------------------------------------------
(* How a fence is lifted.                                                  *)

\* A fence is lifted by the acknowledgement of its owner, or with the consent of
\* the user: no other step, whatever it claims or sweeps, touches it.
LEMMA FenceStep ==
    ASSUME DueInv, [Next]_vars, NEW s \in Schedules, FenceLifted(s)
    PROVE  \/ \E a \in Actors : Settle(a) /\ Owns(a) /\ op[a].s = s
           \/ row[s].token \in waived' /\ (Exists(s)' => row[s].until <= clock)
<1>0. /\ Typed /\ row \in [Schedules -> Row \cup {None, Deleted}]
      /\ op \in [Actors -> Op] /\ clock \in Nat
      /\ \A a \in Actors : op[a].now \in Nat /\ op[a].now <= clock
      /\ \A a \in Actors : HoldsClaim(a) => op[a].s \in Schedules
  BY DEF DueInv, IInv, Typed, TypeOK, OpTyped, Op, ClaimAhead
<1>1. Exists(s) /\ row[s] \in Row /\ row[s].started /\ row[s].token # NoToken
  BY <1>0, ExistsRow DEF FenceLifted, DueInv, RowAhead
<1>2. row'[s] # row[s]
  BY <1>1 DEF FenceLifted, Exists
<1>3. ~(row'[s] \in Row /\ row'[s].started)
  BY <1>1, RowAssumption DEF FenceLifted, Exists
<1>4. ASSUME NEW a \in Actors, Request(a)
      PROVE  row[s].token \in waived' /\ row[s].until <= clock
  <2>1. ASSUME NEW q \in Schedules, Resolvable(q, op[a].now), Waive(q),
               NEW new, row' = [row EXCEPT ![q] = new]
        PROVE  row[s].token \in waived' /\ row[s].until <= clock
    <3>1. q = s
      BY <1>0, <1>2, <2>1
    <3>2. row[s].until # None
      BY <1>1 DEF DueInv, RowsAgree, Agrees
    <3>3. row[s].until <= op[a].now /\ row[s].until \in Nat
      BY <1>0, <1>1, <2>1, <3>1, <3>2 DEF Resolvable, Live, Row
    <3> QED BY <1>0, <2>1, <3>1, <3>3 DEF Waive
  <2>2. row' # row
    BY <1>2
  <2>3. ASSUME NEW q \in Schedules, NEW timing \in Timings, NEW enable \in BOOLEAN,
               Create(a, q, timing, enable) \/ Edit(a, q, timing, enable)
        PROVE  FALSE
    BY <1>0, <1>1, <1>2, <2>3 DEF Create, Edit, Exists
  <2>4. ASSUME NEW q \in Schedules, RunNow(a, q)
        PROVE  FALSE
    BY <1>0, <1>1, <1>2, <2>4 DEF RunNow
  <2>5. ASSUME NEW q \in Schedules, Skip(a, q) \/ Retry(a, q) \/ RetryManual(a, q)
        PROVE  row[s].token \in waived' /\ row[s].until <= clock
    BY <2>1, <2>5 DEF Skip, Retry, RetryManual, Retriable
  <2> QED BY <1>4, <2>2, <2>3, <2>4, <2>5 DEF Request, StartRequest, Refused
<1>5. ASSUME NEW a \in Actors, RunDue(a)
      PROVE  FALSE
  <2> DEFINE table == Sweep(op[a].now)
  <2>1. /\ table \in [Schedules -> Row \cup {None, Deleted}]
        /\ table[s] = Swept(row[s], op[a].now)
    BY <1>0, <1>1, SweepTyped
  <2>2. table[s] \in Row /\ table[s].started
    BY <1>0, <1>1, <2>1, SweptShape
  <2> HIDE DEF table
  <2>3. CASE row' = row \/ row' = table
    BY <1>2, <1>3, <2>2, <2>3
  <2>4. ASSUME NEW q \in DueRows(table, op[a].now), NEW new, row' = [table EXCEPT ![q] = new]
        PROVE  FALSE
    BY <1>3, <2>1, <2>2, <2>4 DEF DueRows, Due
  <2>5. CASE StartTick(a)
    BY <2>3, <2>5 DEF StartTick
  <2>6. CASE ClaimNextDue(a)
    BY <2>3, <2>4, <2>6 DEF ClaimNextDue, table
  <2> QED BY <1>5, <2>5, <2>6 DEF RunDue
<1>6. ASSUME NEW a \in Actors, Dispatch(a)
      PROVE  Settle(a) /\ Owns(a) /\ op[a].s = s
  <2>1. CASE Refresh(a) \/ CallDispatch(a) \/ Acknowledged(a)
    BY <1>2, <2>1 DEF Refresh, CallDispatch, Acknowledged
  <2>2. CASE Release(a)
    BY <1>0, <1>1, <1>2, <2>2 DEF Release, HoldsClaim
  <2>3. CASE Fence(a)
    BY <1>0, <1>1, <1>2, <2>3 DEF Fence, CanFence, HoldsClaim
  <2>4. CASE DispatchFails(a)
    <3>1. op[a].s \in Schedules
      BY <1>0, <2>4 DEF DispatchFails, HoldsClaim
    <3> DEFINE new == [row[s] EXCEPT !.enabled = FALSE, !.uncertain = TRUE, !.until = op[a].now]
    <3>2. new \in Row /\ new.started
      BY <1>0, <1>1 DEF Row
    <3>3. row'[s] = new
      BY <1>0, <1>2, <2>4, <3>1 DEF DispatchFails
    <3> QED BY <1>3, <3>2, <3>3
  <2>5. CASE Settle(a)
    BY <1>0, <1>2, <2>5 DEF Settle, HoldsClaim
  <2> QED BY <1>6, <2>1, <2>2, <2>3, <2>4, <2>5 DEF Dispatch
<1>7. ASSUME NEW q \in Schedules, Delete(q)
      PROVE  row[s].token \in waived' /\ ~Exists(s)'
  BY <1>0, <1>1, <1>2, <1>7 DEF Delete, Exists
<1>8. ASSUME \/ \E a \in Actors : Cancel(a) \/ Crash(a)
             \/ Tick
             \/ UNCHANGED vars
      PROVE  FALSE
  BY <1>2, <1>8 DEF Cancel, Crash, Tick, vars
<1> QED BY <1>4, <1>5, <1>6, <1>7, <1>8 DEF Next

\* A fence disappears in three ways only: its owner acknowledges it, the user
\* resolves it after its lease, or the schedule is deleted.
THEOREM FenceLifting == Spec => FenceLiftedByOwnerOrUser
<1>1. ASSUME DueInv, [Next]_vars, NEW s \in Schedules, FenceLifted(s)
      PROVE  \/ \E a \in Actors : /\ op[a].pc \in {"acked", "notStarted"}
                                  /\ op[a].s = s /\ op[a].token = row[s].token
             \/ row[s].token \in waived' /\ (Exists(s)' => row[s].until <= clock)
  BY <1>1, FenceStep DEF Settle, Owns
<1> DEFINE Lifted == \A s \in Schedules : FenceLifted(s) =>
        \/ \E a \in Actors : /\ op[a].pc \in {"acked", "notStarted"}
                              /\ op[a].s = s /\ op[a].token = row[s].token
        \/ row[s].token \in waived' /\ (Exists(s)' => row[s].until <= clock)
<1>2. DueInv /\ [Next]_vars => [Lifted]_vars
  BY <1>1
<1> QED BY <1>2, DueInvariance, PTL DEF Spec, FenceLiftedByOwnerOrUser

\* A one-shot that was armed when it was fenced is disarmed by its dispatch only
\* if work began, the user gave it up, or its end is nearer than the retry.
THEOREM OneShotKept == Spec => OneShotNotLost
<1> DEFINE Kept == \A a \in Actors, s \in Schedules :
        LET o == op[a] IN
        /\ o.pc \in {"acked", "notStarted"} /\ o.tick /\ o.s = s
        /\ o.snap.timing.kind = "at"
        /\ Exists(s) /\ row[s].token = o.token /\ row[s].started
        /\ Exists(s)' /\ ~row'[s].started /\ ~row'[s].enabled
        => \/ o.token \in open[s]
           \/ o.token \in waived'
           \/ PastEnd(o.snap.timing, o.now + RetryDelay)
<1>1. ASSUME DueInv, [Next]_vars PROVE Kept
  <2> SUFFICES ASSUME NEW a \in Actors, NEW s \in Schedules,
                      op[a].pc \in {"acked", "notStarted"}, op[a].tick, op[a].s = s,
                      op[a].snap.timing.kind = "at",
                      Exists(s), row[s].token = op[a].token, row[s].started,
                      Exists(s)', ~row'[s].started, ~row'[s].enabled,
                      op[a].token \notin open[s], op[a].token \notin waived'
               PROVE  PastEnd(op[a].snap.timing, op[a].now + RetryDelay)
    OBVIOUS
  <2>1. FenceLifted(s)
    BY DEF FenceLifted
  <2>2. PICK b \in Actors : Settle(b) /\ Owns(b) /\ op[b].s = s
    BY <1>1, <2>1, FenceStep
  <2>3. Typed /\ TokensDistinct /\ ClaimAhead(a) /\ HoldsClaim(a) /\ HasRead(a)
    BY <1>1 DEF DueInv, IInv, HoldsClaim, HasRead
  <2>4. b = a
    BY <2>2, <2>3 DEF TokensDistinct, Owns, Typed, OpTyped
  <2>5. waived' = waived /\ op[a].pc = "notStarted"
    BY <2>2, <2>3, <2>4 DEF Settle, ClaimAhead
  <2>6. /\ row[s] \in Row /\ NextPlan(a) \in PlanType
        /\ row \in [Schedules -> Row \cup {None, Deleted}]
    BY <2>3, ExistsRow, NextPlanType DEF Typed, TypeOK
  <2>7. row'[s] = Resolved(row[s], NextPlan(a))
    BY <2>2, <2>4, <2>6 DEF Settle, Resolved
  <2>8. Unfenced(row[s]) \in Row
    BY <2>6, RowTypes
  <2>9. Resolved(row[s], NextPlan(a)).enabled = NextPlan(a).enabled
    BY <2>8 DEF Resolved, Replanned, Row
  <2>10. ~NextPlan(a).enabled
    BY <2>7, <2>9
  <2> QED BY <2>5, <2>10 DEF NextPlan, Plan
<1>2. DueInv /\ [Next]_vars => [Kept]_vars
  BY <1>1
<1> QED BY <1>2, DueInvariance, PTL DEF Spec, OneShotNotLost
=============================================================================
