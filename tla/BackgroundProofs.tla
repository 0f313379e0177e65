--------------------------- MODULE BackgroundProofs ---------------------------
(***************************************************************************)
(* What goes on in the background of a task (MCBackground): live computer  *)
(* use, for every set of tasks and actions, any number of sessions, calls  *)
(* and slices of an input; the specialists, for any number of dispatches.  *)
(*                                                                         *)
(* The argument about the desktop follows its lease.  A current session    *)
(* that nobody has stopped has the lease, unless the worker is still about *)
(* to take it, and it loses the lease only to the thread that took it out  *)
(* of _session, under the action lock.  The worker sends input with that   *)
(* lock held, so the session it drives is current, and has the lease, to   *)
(* the last slice.  The inputs of a sequence begin in their order.  The    *)
(* argument about the specialists: only the children of the dispatch under *)
(* way are at work, and of an ended one nobody is.                         *)
(***************************************************************************)
EXTENDS MCBackground, SequenceTheorems, FiniteSetTheorems, TLAPS

-----------------------------------------------------------------------------
(* The inductive invariant of the desktop.                                 *)

Live(i) == i # None /\ ~sessions[i].stop

\* The worker has a job of a task that waits for it, or was cancelled meanwhile.
AtWork ==
    /\ inputs \in [Ids \X Inputs -> Nat]
    /\ worker.at = "idle" => worker = Idle
    /\ worker.at # "idle" => worker.task \in Tasks /\ tasks[worker.task].at \in {"called", "over"}
    /\ worker.at \notin {"idle", "begin"} => worker.id \in Created
    /\ worker.at = "deliver" => worker.left \in 1 .. MaxSlices
    /\ worker.at \in {"deliver", "after"} => worker.action \in Inputs
    /\ \A t \in Tasks : tasks[t].at = "judging" => tasks[t].action \in Inputs

\* Who stops a session stops one that exists; who closes it has taken it out.
Left == \A thread \in Threads :
    /\ stops[thread].at \in {"asked", "closing"} => stops[thread].id \in Created
    /\ stops[thread].at = "closing" => stops[thread].id # current

\* A current session that was not stopped has the desktop, or the worker is about to
\* take it.
Holding == Live(current) =>
    desktop = current \/ (worker.at = "registered" /\ worker.id = current)

\* No input began twice; in the current session what began has its receipt.
Counted ==
    /\ \A i \in Ids, k \in Inputs :
          inputs[<<i, k>>] <= 1 /\ (i \notin Created => inputs[<<i, k>>] = 0)
    /\ Live(current) => \A k \in Inputs :
          inputs[<<current, k>>] = 0 \/ <<sessions[current].task, current, k[1]>> \in receipts

\* An input that is being judged has its receipt, and neither it nor a later one has begun.
From(k, first) == \A n \in 1 .. MaxSteps : n >= first => inputs[<<current, <<k[1], n>>>>] = 0
Judged == \A t \in Tasks : tasks[t].at = "judging" /\ Valid(t) =>
    /\ <<t, current, tasks[t].action[1]>> \in receipts
    /\ From(tasks[t].action, tasks[t].action[2])

\* What the worker sends has its receipt, and no later input has begun.
Sending == worker.at \in {"deliver", "after"} /\ Live(current) =>
    /\ <<sessions[current].task, current, worker.action[1]>> \in receipts
    /\ From(worker.action, worker.action[2] + 1)

IInv == TypeOK /\ AtWork /\ Left /\ Holding /\ InputOnlyWhileCurrent /\ Counted /\ Judged /\ Sending

Rest == Left /\ Holding /\ InputOnlyWhileCurrent /\ Counted /\ Judged /\ Sending

\* An input is an action id and a number.
LEMMA InputParts ==
    /\ \A k \in Inputs : k[1] \in Actions /\ k[2] \in 1 .. MaxSteps /\ k = <<k[1], k[2]>>
    /\ \A a \in Actions, n \in 1 .. MaxSteps : <<a, n>> \in Inputs /\ <<a, n>>[1] = a /\ <<a, n>>[2] = n
BY DEF Inputs

-----------------------------------------------------------------------------
(* Steps that leave the current session and the desktop alone.             *)

Session == [task : Tasks, stop : BOOLEAN, leased : BOOLEAN]
Asking == [at : {"none", "asked", "closing"}, id : Ids \cup {None}, again : BOOLEAN]
Job == [at : {"idle", "begin", "registered", "leased", "capture", "deliver", "after", "stopping"},
        task : Tasks \cup {None}, id : Ids \cup {None}, action : Inputs \cup {None}, left : 0 .. MaxSlices]
Caller == [calls : Nat, action : Inputs \cup {None}, at : {"free", "called", "judging", "failed", "over"}]

\* The type invariant by the names above.
LEMMA Types ==
    TypeOK <=> /\ sessions \in Seq(Session) /\ Len(sessions) <= MaxSessions
               /\ current \in Created \cup {None} /\ lock \in BOOLEAN
               /\ desktop \in Created \cup {None}
               /\ worker \in Job /\ (lock <=> worker.at \in {"capture", "deliver", "after"})
               /\ stops \in [Threads -> Asking]
               /\ monitors \in [Ids -> {"none", "watch", "stopping", "gone"}]
               /\ tasks \in [Tasks -> Caller] /\ receipts \subseteq Tasks \X Ids \X Actions
BY DEF TypeOK, Session, Asking, Job, Caller

\* Sessions that exist have an id.
LEMMA Numbers ==
    ASSUME TypeOK
    PROVE  /\ Len(sessions) \in Nat /\ Created = 1 .. Len(sessions) /\ Created \subseteq Ids
           /\ \A i \in Created : sessions[i] \in Session /\ i # None
           /\ MaxSessions \in Nat
BY Types, ControlAssumption DEF Created, Ids

\* Sessions are stopped at most, and nobody begins to close one.
Softer ==
    /\ sessions' \in Seq(Session) /\ Len(sessions') = Len(sessions)
    /\ Created' = Created
    /\ \A i \in Created : /\ sessions'[i].task = sessions[i].task
                          /\ sessions[i].stop => sessions'[i].stop
    /\ stops' \in [Threads -> Asking]
    /\ \A thread \in Threads :
          /\ stops'[thread].at = "asked" => stops'[thread].id \in Created
          /\ stops'[thread].at = "closing" => stops'[thread] = stops[thread]

\* A step that changes neither sessions nor stops.
LEMMA SofterSame ==
    ASSUME TypeOK, Left, UNCHANGED <<sessions, stops>>
    PROVE  Softer
BY Types DEF Softer, Left, Created

\* A thread that is done with stopping.
LEMMA SofterDone ==
    ASSUME TypeOK, Left, NEW thread \in Threads, UNCHANGED sessions,
           stops' = [stops EXCEPT ![thread] = NoStop]
    PROVE  Softer
<1>1. NoStop \in Asking /\ NoStop.at = "none"
  BY DEF NoStop, Asking
<1> QED
  BY <1>1, Types DEF Softer, Left, Created

\* emergency_stop up to its wait for the lock: the current session has its stop set.
LEMMA SofterAsked ==
    ASSUME TypeOK, Left, NEW thread \in Threads, NEW i \in Created, NEW again \in BOOLEAN,
           AskStop(thread, i, again)
    PROVE  Softer /\ (current = i => sessions'[i].stop)
<1>1. CASE current = i
  <2>1. /\ sessions' = [sessions EXCEPT ![i].stop = TRUE]
        /\ stops' = [stops EXCEPT ![thread] = [at |-> "asked", id |-> i, again |-> again]]
    BY <1>1, Numbers DEF AskStop, Stopping, Asked
  <2>2. sessions[i] \in Session /\ i \in 1 .. Len(sessions) /\ i \in Ids
    BY Numbers
  <2>3. [sessions[i] EXCEPT !.stop = TRUE] \in Session
    BY <2>2 DEF Session
  <2>4. /\ sessions' \in Seq(Session) /\ Len(sessions') = Len(sessions) /\ Created' = Created
        /\ \A j \in Created : sessions'[j] = IF j = i THEN [sessions[i] EXCEPT !.stop = TRUE] ELSE sessions[j]
    BY <2>1, <2>2, <2>3, Types DEF Created
  <2>5. \A j \in Created : /\ sessions'[j].task = sessions[j].task
                           /\ sessions[j].stop => sessions'[j].stop
    BY <2>2, <2>4 DEF Session
  <2>6. sessions'[i].stop
    BY <2>2, <2>4 DEF Session
  <2>7. [at |-> "asked", id |-> i, again |-> again] \in Asking
    BY <2>2 DEF Asking
  <2>8. stops' \in [Threads -> Asking]
    BY <2>1, <2>7, Types
  <2>9. \A th \in Threads : /\ stops'[th].at = "asked" => stops'[th].id \in Created
                            /\ stops'[th].at = "closing" => stops'[th] = stops[th]
    BY <2>1, Types DEF Left
  <2> QED
    BY <2>4, <2>5, <2>6, <2>8, <2>9 DEF Softer
<1>2. CASE current # i
  <2>1. UNCHANGED <<sessions, stops>>
    BY <1>2 DEF AskStop
  <2> QED
    BY <1>2, <2>1, SofterSame
<1> QED
  BY <1>1, <1>2

\* What a step must leave alone for the rest of the invariant to stay.
LEMMA Undisturbed ==
    ASSUME IInv, Softer, UNCHANGED <<current, desktop, inputs>>,
           worker'.at \in {"deliver", "after"} =>
               worker.at \in {"deliver", "after"} /\ worker'.id = worker.id /\ worker'.action = worker.action,
           (worker.at = "registered" /\ worker.id = current /\ current # None /\ ~sessions'[current].stop)
               => worker'.at = "registered" /\ worker'.id = worker.id,
           current # None /\ ~sessions'[current].stop =>
               \A a \in Actions : <<sessions[current].task, current, a>> \in receipts
                                  => <<sessions[current].task, current, a>> \in receipts',
           \A t \in Tasks : tasks'[t].at = "judging" =>
               tasks[t].at = "judging" /\ tasks'[t].action = tasks[t].action
    PROVE  Rest'
<1>1. /\ TypeOK /\ AtWork /\ Left /\ Holding /\ InputOnlyWhileCurrent /\ Counted /\ Judged /\ Sending
      /\ current # None => current \in Created
  BY Types DEF IInv
<1>2. current # None => /\ sessions'[current].task = sessions[current].task
                        /\ sessions[current].stop => sessions'[current].stop
  BY <1>1 DEF Softer
<1>3. Left'
  BY <1>1 DEF Left, Softer
<1>4. Holding'
  BY <1>1, <1>2 DEF Holding, Live
<1>5. InputOnlyWhileCurrent'
  BY <1>1 DEF InputOnlyWhileCurrent
<1>6. Counted'
  <2>1. \A i \in Ids, k \in Inputs : inputs'[<<i, k>>] <= 1 /\ (i \notin Created' => inputs'[<<i, k>>] = 0)
    BY <1>1 DEF Counted, Softer
  <2>2. ASSUME Live(current)', NEW k \in Inputs
        PROVE  inputs'[<<current', k>>] = 0 \/ <<sessions'[current'].task, current', k[1]>> \in receipts'
    <3>1. Live(current) /\ current # None /\ ~sessions'[current].stop /\ sessions'[current].task = sessions[current].task
      BY <1>2, <2>2 DEF Live
    <3>2. inputs[<<current, k>>] = 0 \/ <<sessions[current].task, current, k[1]>> \in receipts
      BY <1>1, <3>1 DEF Counted
    <3> QED BY <3>1, <3>2, InputParts
  <2> QED BY <2>1, <2>2 DEF Counted
<1>8. Sending'
  <2> SUFFICES ASSUME worker'.at \in {"deliver", "after"}, Live(current)'
               PROVE  /\ <<sessions'[current].task, current, worker'.action[1]>> \in receipts'
                      /\ From(worker.action, worker.action[2] + 1) /\ worker'.action = worker.action
    BY DEF Sending, From
  <2>1. Live(current) /\ ~sessions'[current].stop /\ current # None /\ sessions'[current].task = sessions[current].task
    BY <1>2 DEF Live
  <2>2. /\ <<sessions[current].task, current, worker.action[1]>> \in receipts
        /\ From(worker.action, worker.action[2] + 1)
    BY <1>1, <2>1 DEF Sending
  <2>3. worker.action \in Inputs /\ worker'.action = worker.action
    BY <1>1 DEF AtWork
  <2> QED
    BY <2>1, <2>2, <2>3, InputParts
<1>7. Judged'
  <2> SUFFICES ASSUME NEW t \in Tasks, tasks'[t].at = "judging", Valid(t)'
               PROVE  /\ <<t, current, tasks'[t].action[1]>> \in receipts'
                      /\ From(tasks'[t].action, tasks'[t].action[2])
    BY DEF Judged, From
  <2>1. Valid(t) /\ current # None /\ ~sessions'[current].stop /\ sessions[current].task = t
    BY <1>2 DEF Valid, Owns
  <2>2. tasks[t].at = "judging" /\ tasks'[t].action = tasks[t].action /\ tasks[t].action \in Inputs
    BY <1>1 DEF AtWork
  <2> QED
    BY <1>1, <2>1, <2>2, InputParts DEF Judged
<1> QED
  BY <1>3, <1>4, <1>5, <1>6, <1>7, <1>8 DEF Rest

-----------------------------------------------------------------------------
(* The steps of the stoppers and of the monitor.                           *)

\* The type invariant after a step, and the whole invariant from its parts.
LEMMA TypesNext ==
    TypeOK' <=> /\ sessions' \in Seq(Session) /\ Len(sessions') <= MaxSessions
                /\ current' \in Created' \cup {None} /\ lock' \in BOOLEAN
                /\ desktop' \in Created' \cup {None}
                /\ worker' \in Job /\ (lock' <=> worker'.at \in {"capture", "deliver", "after"})
                /\ stops' \in [Threads -> Asking]
                /\ monitors' \in [Ids -> {"none", "watch", "stopping", "gone"}]
                /\ tasks' \in [Tasks -> Caller] /\ receipts' \subseteq Tasks \X Ids \X Actions
BY DEF TypeOK, Session, Asking, Job, Caller

\* The invariant, as the parts that a step may disturb and the rest.
LEMMA Parts == IInv <=> TypeOK /\ AtWork /\ Rest
BY DEF IInv, Rest

\* The same of the next state.
LEMMA PartsNext == TypeOK' /\ AtWork' /\ Rest' => IInv'
BY DEF IInv, Rest

\* A stop that changes nothing but sessions, stops and monitors.
LEMMA StopperStep ==
    ASSUME IInv, Softer, monitors' \in [Ids -> {"none", "watch", "stopping", "gone"}],
           UNCHANGED <<current, lock, desktop, worker, tasks, receipts, inputs>>
    PROVE  IInv'
<1>1. TypeOK /\ AtWork /\ Rest
  BY Parts
<1>2. TypeOK'
  BY <1>1, Types, TypesNext DEF Softer
<1>3. AtWork'
  BY <1>1 DEF AtWork, Softer
<1>4. Rest'
  BY Undisturbed
<1> QED
  BY <1>2, <1>3, <1>4, PartsNext

\* The monitor watches a session that was created.
LEMMA MonitorStep ==
    ASSUME IInv, NEW i \in Created, MonitorStops(i) \/ MonitorReturns(i) \/ MonitorEnds(i)
    PROVE  IInv'
<1>1. TypeOK /\ Left
  BY DEF IInv
<1>2. i \in Ids /\ <<"monitor", i>> \in Threads
  BY <1>1, Numbers DEF Threads
<1>3. Softer
  <2>1. CASE MonitorStops(i) \/ MonitorReturns(i)
    BY <1>1, <1>2, <2>1, SofterAsked DEF MonitorStops, MonitorReturns
  <2>2. CASE MonitorEnds(i)
    BY <1>1, <2>2, SofterSame DEF MonitorEnds
  <2> QED
    BY <2>1, <2>2
<1>4. monitors' \in [Ids -> {"none", "watch", "stopping", "gone"}]
  BY <1>1, Types DEF MonitorStops, MonitorReturns, MonitorEnds
<1> QED
  BY <1>3, <1>4, StopperStep DEF MonitorStops, MonitorReturns, MonitorEnds

\* The four seconds are over.
LEMMA GiveUpStep ==
    ASSUME IInv, NEW thread \in Threads, GiveUp(thread)
    PROVE  IInv'
<1>1. TypeOK /\ Left
  BY DEF IInv
<1>2. Softer
  BY <1>1, SofterDone DEF GiveUp
<1> QED
  BY <1>1, <1>2, Types, StopperStep DEF GiveUp

\* The session leaves _session, with no input under way.
LEMMA LeaveStep ==
    ASSUME IInv, NEW thread \in Threads, Leave(thread)
    PROVE  IInv'
<1>1. /\ TypeOK /\ AtWork /\ Left /\ Holding /\ InputOnlyWhileCurrent /\ Counted /\ Judged
  BY DEF IInv
<1>2. /\ stops[thread].at = "asked" /\ ~lock
      /\ UNCHANGED <<sessions, lock, desktop, worker, monitors, tasks, receipts, inputs>>
  BY DEF Leave, Quiesced
<1>3. CASE current # stops[thread].id
  <2>1. stops' = [stops EXCEPT ![thread] = NoStop] /\ UNCHANGED current
    BY <1>3 DEF Leave
  <2>2. Softer
    BY <1>1, <1>2, <2>1, SofterDone
  <2> QED
    BY <1>1, <1>2, <2>1, <2>2, Types, StopperStep
<1>4. CASE current = stops[thread].id
  <2>1. current' = None /\ stops' = [stops EXCEPT ![thread].at = "closing"]
    BY <1>4 DEF Leave
  <2>2. stops[thread] \in Asking /\ stops[thread].id \in Created
    BY <1>1, <1>2, Types DEF Left
  <2>3. /\ stops' \in [Threads -> Asking]
        /\ \A th \in Threads : stops'[th].id = stops[th].id
        /\ \A th \in Threads : th # thread => stops'[th] = stops[th]
        /\ stops'[thread].at = "closing"
    <3>1. [stops[thread] EXCEPT !.at = "closing"] \in Asking
      BY <2>2 DEF Asking
    <3> QED
      BY <1>1, <2>1, <2>2, <3>1, Types DEF Asking
  <2>4. TypeOK'
    BY <1>1, <1>2, <2>1, <2>3, Types, TypesNext DEF Created
  <2>5. AtWork'
    BY <1>1, <1>2 DEF AtWork, Created
  <2>6. Left'
    BY <1>1, <1>2, <2>1, <2>2, <2>3, Numbers DEF Left, Created
  <2>7. Holding' /\ Counted' /\ Judged'
    BY <1>1, <1>2, <2>1 DEF Holding, Counted, Judged, Live, Valid, Owns, Created
  <2>9. Sending'
    BY <2>1 DEF Sending, Live
  <2>8. InputOnlyWhileCurrent'
    BY <1>1, <1>2, Types DEF InputOnlyWhileCurrent
  <2> QED
    BY <2>4, <2>5, <2>6, <2>7, <2>8, <2>9 DEF IInv
<1> QED
  BY <1>3, <1>4

\* What is closed is no longer current, so the current session keeps its lease.
LEMMA CloseStep ==
    ASSUME IInv, NEW thread \in Threads, CloseSession(thread)
    PROVE  IInv'
<1> DEFINE i == stops[thread].id
<1>1. /\ TypeOK /\ AtWork /\ Left /\ Holding /\ InputOnlyWhileCurrent /\ Counted /\ Judged /\ Sending
  BY DEF IInv
<1>2. /\ stops[thread].at = "closing" /\ stops' = [stops EXCEPT ![thread] = NoStop]
      /\ sessions' = [sessions EXCEPT ![i].leased = FALSE]
      /\ desktop' = desktop \/ (desktop = i /\ desktop' = None)
      /\ UNCHANGED <<current, lock, worker, monitors, tasks, receipts, inputs>>
  BY DEF CloseSession
<1>3. i \in Created /\ i # current /\ sessions[i] \in Session /\ i \in 1 .. Len(sessions)
  BY <1>1, <1>2, Numbers DEF Left
<1>4. /\ sessions' \in Seq(Session) /\ Len(sessions') = Len(sessions) /\ Created' = Created
      /\ \A j \in Created : sessions'[j].task = sessions[j].task /\ sessions'[j].stop = sessions[j].stop
  <2>1. [sessions[i] EXCEPT !.leased = FALSE] \in Session
    BY <1>3 DEF Session
  <2>2. /\ sessions' \in Seq(Session) /\ Len(sessions') = Len(sessions) /\ Created' = Created
        /\ \A j \in Created : sessions'[j] = IF j = i THEN [sessions[i] EXCEPT !.leased = FALSE] ELSE sessions[j]
    BY <1>1, <1>2, <1>3, <2>1, Types DEF Created
  <2> QED
    BY <1>3, <2>2 DEF Session
<1>5. /\ stops' \in [Threads -> Asking]
      /\ \A th \in Threads : stops'[th].at \in {"asked", "closing"} => stops'[th] = stops[th]
  <2>1. NoStop \in Asking /\ NoStop.at = "none"
    BY DEF NoStop, Asking
  <2> QED
    BY <1>1, <1>2, <2>1, Types
<1>6. current # None => current \in Created
  BY <1>1, Types
<1> HIDE DEF i
<1>7. TypeOK'
  BY <1>1, <1>2, <1>4, <1>5, Types, TypesNext
<1>8. AtWork'
  BY <1>1, <1>2, <1>4 DEF AtWork
<1>9. Left'
  BY <1>1, <1>2, <1>4, <1>5 DEF Left
<1>10. Holding' /\ InputOnlyWhileCurrent'
  BY <1>1, <1>2, <1>3, <1>4, <1>6 DEF Holding, Live, InputOnlyWhileCurrent
<1>11. Counted'
  BY <1>1, <1>2, <1>4, <1>6 DEF Counted, Live
<1>12. Judged'
  <2>1. \A t \in Tasks : Valid(t)' => Valid(t)
    BY <1>2, <1>4, <1>6 DEF Valid, Owns
  <2> QED BY <1>1, <1>2, <2>1 DEF Judged, From
<1>13. Sending'
  <2>1. Live(current)' => Live(current) /\ sessions'[current'].task = sessions[current].task
    BY <1>2, <1>4, <1>6 DEF Live
  <2> QED BY <1>1, <1>2, <2>1 DEF Sending, From
<1> QED
  BY <1>7, <1>8, <1>9, <1>10, <1>11, <1>12, <1>13 DEF IInv

-----------------------------------------------------------------------------
(* The steps of the worker.                                                *)

\* The worker's job and the callers' states, which the next lemmas hand over.
Handed ==
    /\ worker' \in Job /\ tasks' \in [Tasks -> Caller] /\ lock' \in BOOLEAN
    /\ lock' <=> worker'.at \in {"capture", "deliver", "after"}
    /\ worker'.at = "idle" => worker' = Idle
    /\ worker'.at # "idle" => worker'.task \in Tasks /\ tasks'[worker'.task].at \in {"called", "over"}
    /\ worker'.at \notin {"idle", "begin"} => worker'.id \in Created
    /\ worker'.at = "deliver" => worker'.left \in 1 .. MaxSlices
    /\ worker'.at \in {"deliver", "after"} => worker'.action \in Inputs
    /\ \A t \in Tasks : tasks'[t].at = "judging" =>
          tasks[t].at = "judging" /\ tasks'[t].action = tasks[t].action

\* A step of the worker or of a call that begins no input.
LEMMA HandedStep ==
    ASSUME IInv, Softer, Handed, UNCHANGED <<current, desktop, inputs>>,
           monitors' \in [Ids -> {"none", "watch", "stopping", "gone"}], receipts' \subseteq receipts,
           worker'.at \in {"deliver", "after"} =>
               worker.at \in {"deliver", "after"} /\ worker'.id = worker.id /\ worker'.action = worker.action,
           (worker.at = "registered" /\ worker.id = current /\ current # None /\ ~sessions'[current].stop)
               => worker'.at = "registered" /\ worker'.id = worker.id,
           current # None /\ ~sessions'[current].stop =>
               \A a \in Actions : <<sessions[current].task, current, a>> \in receipts
                                  => <<sessions[current].task, current, a>> \in receipts'
    PROVE  IInv'
<1>1. TypeOK /\ AtWork /\ Rest
  BY Parts
<1>2. TypeOK'
  BY <1>1, Types, TypesNext DEF Softer, Handed
<1>3. AtWork'
  BY <1>1 DEF AtWork, Softer, Handed
<1>4. Rest'
  BY Undisturbed DEF Handed
<1> QED
  BY <1>2, <1>3, <1>4, PartsNext

\* What a call's answer changes.
LEMMA Answers ==
    ASSUME TypeOK, NEW t \in Tasks, NEW place \in {"free", "failed"}, Answered(t, place)
    PROVE  /\ tasks' \in [Tasks -> Caller]
           /\ \A s \in Tasks : tasks'[s].at = "judging" =>
                 tasks[s].at = "judging" /\ tasks'[s].action = tasks[s].action
<1>1. tasks \in [Tasks -> Caller] /\ tasks[t] \in Caller
  BY Types
<1>2. tasks' = [tasks EXCEPT ![t] = [tasks[t] EXCEPT !.at = IF tasks[t].at = "called" THEN place ELSE tasks[t].at]]
  BY DEF Answered
<1>3. [tasks[t] EXCEPT !.at = IF tasks[t].at = "called" THEN place ELSE tasks[t].at] \in Caller
  BY <1>1 DEF Caller
<1> QED
  BY <1>1, <1>2, <1>3 DEF Caller

\* A call of the tool, which finds its task free.
LEMMA CallsBegin ==
    ASSUME TypeOK, NEW t \in Tasks, NEW place \in {"free", "called", "failed", "judging"},
           NEW a \in Inputs \cup {None}, Called(t, place, a)
    PROVE  /\ tasks' \in [Tasks -> Caller] /\ tasks'[t].at = place /\ tasks'[t].action = a
           /\ \A s \in Tasks : s # t => tasks'[s] = tasks[s]
<1>1. tasks \in [Tasks -> Caller] /\ tasks[t] \in Caller
  BY Types
<1>2. tasks' = [tasks EXCEPT ![t] = [calls |-> tasks[t].calls + 1, at |-> place, action |-> a]]
  BY DEF Called
<1>3. [calls |-> tasks[t].calls + 1, at |-> place, action |-> a] \in Caller
  BY <1>1 DEF Caller
<1> QED
  BY <1>1, <1>2, <1>3

\* An idle worker has a job, of no task.
LEMMA IdleIsJob == Idle \in Job /\ Idle.at = "idle"
BY ControlAssumption DEF Idle, Job

\* The worker is done with its call.
LEMMA AnsweredStep ==
    ASSUME IInv, worker.at # "idle", worker' = Idle, lock' = FALSE,
           NEW place \in {"free", "failed"}, Answered(worker.task, place),
           monitors' \in [Ids -> {"none", "watch", "stopping", "gone"}],
           worker.at = "registered" => worker.id # current,
           UNCHANGED <<sessions, current, desktop, stops, receipts, inputs>>
    PROVE  IInv'
<1>1. TypeOK /\ AtWork /\ Left /\ worker.task \in Tasks
  BY DEF IInv, AtWork
<1>2. Softer
  BY <1>1, SofterSame
<1>3. Handed
  BY <1>1, Answers, IdleIsJob DEF Handed
<1> QED
  BY <1>2, <1>3, HandedStep, IdleIsJob

\* Start, up to its registration.
LEMMA CallStartStep ==
    ASSUME IInv, NEW t \in Tasks, CallStart(t)  PROVE IInv'
<1>1. TypeOK /\ AtWork /\ Left
  BY DEF IInv
<1>2. /\ worker = Idle /\ tasks[t].at = "free" /\ Called(t, "called", None)
      /\ worker' = [Idle EXCEPT !.at = "begin", !.task = t]
      /\ UNCHANGED <<sessions, current, lock, desktop, stops, monitors, receipts, inputs>>
  BY DEF CallStart, MayCall, CallBegins
<1>3. worker' \in Job /\ worker'.at = "begin" /\ worker'.task = t
  BY <1>2, IdleIsJob DEF Job, Idle
<1>4. /\ tasks' \in [Tasks -> Caller] /\ tasks'[t].at = "called"
      /\ \A s \in Tasks : s # t => tasks'[s] = tasks[s]
  BY <1>1, <1>2, CallsBegin
<1>5. Softer
  BY <1>1, <1>2, SofterSame
<1>6. Handed
  BY <1>1, <1>2, <1>3, <1>4, Types, IdleIsJob DEF Handed
<1> QED
  BY <1>1, <1>2, <1>3, <1>5, <1>6, Types, HandedStep, IdleIsJob

\* Another session is current: the call is answered.
LEMMA StartRefusedStep ==
    ASSUME IInv, StartRefused  PROVE IInv'
<1>1. TypeOK /\ ~lock
  BY Types DEF IInv, StartRefused
<1> QED
  BY <1>1, Types, AnsweredStep DEF StartRefused

\* A new session: its id is new, so nothing that was closed or counted is its own.
LEMMA RegisterStep ==
    ASSUME IInv, Register  PROVE IInv'
<1> DEFINE n == Len(sessions) + 1
           s == [task |-> worker.task, stop |-> FALSE, leased |-> FALSE]
<1>1. /\ TypeOK /\ AtWork /\ Left /\ Holding /\ InputOnlyWhileCurrent /\ Counted /\ Judged
  BY DEF IInv
<1>2. /\ worker.at = "begin" /\ current = None /\ Len(sessions) < MaxSessions
      /\ sessions' = Append(sessions, s) /\ current' = Len(sessions')
      /\ worker' = [worker EXCEPT !.at = "registered", !.id = Len(sessions')]
      /\ UNCHANGED <<lock, desktop, stops, monitors, tasks, receipts, inputs>>
  BY DEF Register
<1>3. worker.task \in Tasks /\ tasks[worker.task].at \in {"called", "over"} /\ s \in Session
  BY <1>1, <1>2 DEF AtWork, Session
<1>4. /\ sessions' \in Seq(Session) /\ Len(sessions') = n /\ n \in Ids /\ n \in Nat
      /\ Created' = Created \cup {n} /\ n \notin Created /\ sessions'[n] = s
      /\ current' = n /\ n # None
  BY <1>1, <1>2, <1>3, Types, Numbers, ControlAssumption DEF Created, Ids
<1>5. worker' \in Job /\ worker'.at = "registered" /\ worker'.id = n /\ worker'.task = worker.task
  BY <1>1, <1>2, <1>4, Types DEF Job
<1>6. s.task = worker.task /\ s.stop = FALSE
  OBVIOUS
<1> HIDE DEF n, s
<1>7. TypeOK'
  BY <1>1, <1>2, <1>4, <1>5, Types, Numbers, TypesNext DEF Ids
<1>8. AtWork'
  BY <1>1, <1>2, <1>3, <1>4, <1>5 DEF AtWork
<1>9. Left'
  BY <1>1, <1>2, <1>4 DEF Left
<1>10. Holding' /\ InputOnlyWhileCurrent'
  BY <1>1, <1>2, <1>4, <1>5 DEF Holding, Live, InputOnlyWhileCurrent
<1>11. Counted'
  BY <1>1, <1>2, <1>4 DEF Counted, Live
<1>12. Judged'
  <2> SUFFICES ASSUME NEW t \in Tasks, tasks[t].at = "judging", Valid(t)'  PROVE FALSE
    BY <1>2 DEF Judged
  <2>1. t = worker.task
    BY <1>4, <1>6 DEF Valid, Owns
  <2> QED
    BY <1>3, <2>1
<1>13. Sending'
  BY <1>5 DEF Sending
<1> QED
  BY <1>7, <1>8, <1>9, <1>10, <1>11, <1>12, <1>13 DEF IInv

\* A start that failed stops the session it had registered, if it is still there.
LEMMA StartFailsStep ==
    ASSUME IInv, worker.at \in {"registered", "leased"}, StartFails  PROVE IInv'
<1>1. TypeOK /\ AtWork /\ Left
  BY DEF IInv
<1>2. /\ worker' = [worker EXCEPT !.at = "stopping"]
      /\ AskStop(<<"worker">>, worker.id, FALSE)
      /\ UNCHANGED <<current, lock, desktop, monitors, tasks, receipts, inputs>>
  BY DEF StartFails
<1>3. worker.id \in Created /\ worker.task \in Tasks /\ tasks[worker.task].at \in {"called", "over"}
  BY <1>1 DEF AtWork
<1>4. Softer /\ (current = worker.id => sessions'[current].stop)
  BY <1>1, <1>2, <1>3, SofterAsked DEF Threads
<1>5. worker' \in Job /\ worker'.at = "stopping" /\ worker'.task = worker.task /\ worker'.id = worker.id
  BY <1>1, <1>2, Types DEF Job
<1>6. Handed
  BY <1>1, <1>2, <1>3, <1>5, Types DEF Handed
<1> QED
  BY <1>1, <1>2, <1>4, <1>5, <1>6, Types, HandedStep

\* The desktop is free: the registered session takes it.
LEMMA TakeLeaseStep ==
    ASSUME IInv, TakeLease  PROVE IInv'
<1>1. CASE desktop # None
  BY <1>1, StartFailsStep DEF TakeLease
<1>2. CASE desktop = None
  <2> DEFINE i == worker.id
  <2>1. /\ TypeOK /\ AtWork /\ Left /\ Holding /\ InputOnlyWhileCurrent /\ Counted /\ Judged
    BY DEF IInv
  <2>2. /\ worker.at = "registered" /\ desktop' = i
        /\ sessions' = [sessions EXCEPT ![i].leased = TRUE]
        /\ worker' = [worker EXCEPT !.at = "leased"]
        /\ UNCHANGED <<current, lock, stops, monitors, tasks, receipts, inputs>>
    BY <1>2 DEF TakeLease
  <2>3. i \in Created /\ sessions[i] \in Session /\ i \in 1 .. Len(sessions)
    BY <2>1, <2>2, Numbers DEF AtWork
  <2>4. /\ sessions' \in Seq(Session) /\ Len(sessions') = Len(sessions) /\ Created' = Created
        /\ \A j \in Created : sessions'[j].task = sessions[j].task /\ sessions'[j].stop = sessions[j].stop
    <3>1. [sessions[i] EXCEPT !.leased = TRUE] \in Session
      BY <2>3 DEF Session
    <3>2. /\ sessions' \in Seq(Session) /\ Len(sessions') = Len(sessions) /\ Created' = Created
          /\ \A j \in Created : sessions'[j] = IF j = i THEN [sessions[i] EXCEPT !.leased = TRUE] ELSE sessions[j]
      BY <2>1, <2>2, <2>3, <3>1, Types DEF Created
    <3> QED
      BY <2>3, <3>2 DEF Session
  <2>5. worker' \in Job /\ worker'.at = "leased" /\ worker'.id = i /\ worker'.task = worker.task
    BY <2>1, <2>2, Types DEF Job
  <2>6. current # None => current \in Created
    BY <2>1, Types
  <2> HIDE DEF i
  <2>7. TypeOK'
    BY <2>1, <2>2, <2>3, <2>4, <2>5, Types, TypesNext
  <2>8. AtWork'
    BY <2>1, <2>2, <2>3, <2>4, <2>5 DEF AtWork
  <2>9. Left'
    BY <2>1, <2>2, <2>4 DEF Left
  <2>10. Holding' /\ InputOnlyWhileCurrent'
    BY <1>2, <2>1, <2>2, <2>4, <2>5, <2>6 DEF Holding, Live, InputOnlyWhileCurrent, i
  <2>11. Counted'
    BY <2>1, <2>2, <2>4, <2>6 DEF Counted, Live
  <2>12. Judged'
    BY <2>1, <2>2, <2>4, <2>6 DEF Judged, Valid, Owns, From
  <2>13. Sending'
    BY <2>5 DEF Sending
  <2> QED
    BY <2>7, <2>8, <2>9, <2>10, <2>11, <2>12, <2>13 DEF IInv
<1> QED
  BY <1>1, <1>2

\* The start ends: it failed, or the monitor watches.
LEMMA StartedStep ==
    ASSUME IInv, Started  PROVE IInv'
<1>1. worker.at = "leased" /\ TypeOK /\ AtWork
  BY DEF Started, IInv
<1>2. CASE StartFails
  BY <1>1, <1>2, StartFailsStep
<1>3. CASE /\ monitors' = [monitors EXCEPT ![worker.id] = "watch"]
           /\ worker' = Idle /\ Answered(worker.task, "free")
           /\ UNCHANGED <<sessions, current, lock, desktop, stops, receipts, inputs>>
  BY <1>1, <1>3, Types, AnsweredStep
<1> QED
  BY <1>1, <1>2, <1>3 DEF Started

\* The worker's stop is over, and its call answered.
LEMMA RaisedStep ==
    ASSUME IInv, Raised  PROVE IInv'
<1>1. worker.at = "stopping" /\ TypeOK
  BY DEF Raised, IInv
<1> QED
  BY <1>1, Types, AnsweredStep DEF Raised

\* The observation is over, and the lock free.
LEMMA CapturedStep ==
    ASSUME IInv, Captured  PROVE IInv'
<1>1. TypeOK
  BY DEF IInv
<1> QED
  BY <1>1, Types, AnsweredStep DEF Captured

\* The worker asks for the stop of its session, with the lock released.
LEMMA ReleasedStep ==
    ASSUME IInv, worker.at \in {"deliver", "after"}, Released,
           UNCHANGED <<current, desktop, monitors, tasks, receipts, inputs>>
    PROVE  IInv'
<1>1. TypeOK /\ AtWork /\ Left
  BY DEF IInv
<1>2. worker' = [worker EXCEPT !.at = "stopping"] /\ AskStop(<<"worker">>, worker.id, FALSE) /\ lock' = FALSE
  BY DEF Released
<1>3. worker.id \in Created /\ worker.task \in Tasks /\ tasks[worker.task].at \in {"called", "over"}
  BY <1>1 DEF AtWork
<1>4. Softer
  BY <1>1, <1>2, <1>3, SofterAsked DEF Threads
<1>5. worker' \in Job /\ worker'.at = "stopping" /\ worker'.task = worker.task /\ worker'.id = worker.id
  BY <1>1, <1>2, Types DEF Job
<1>6. Handed
  BY <1>1, <1>2, <1>3, <1>5, Types DEF Handed
<1> QED
  BY <1>1, <1>2, <1>4, <1>5, <1>6, Types, HandedStep

\* A slice of the input: the lock stays with the worker.
LEMMA SliceStep ==
    ASSUME IInv, Slice  PROVE IInv'
<1>1. /\ TypeOK /\ AtWork /\ Left /\ worker.at = "deliver"
      /\ UNCHANGED <<current, desktop, monitors, tasks, receipts, inputs>>
  BY DEF IInv, Slice
<1>2. CASE Released
  BY <1>1, <1>2, ReleasedStep
<1>3. CASE /\ worker' = [worker EXCEPT !.left = @ - 1, !.at = IF worker.left = 1 THEN "after" ELSE "deliver"]
           /\ UNCHANGED <<sessions, lock, stops>>
  <2>1. worker.left \in 1 .. MaxSlices /\ MaxSlices \in Nat /\ worker.id \in Created
        /\ worker.task \in Tasks /\ tasks[worker.task].at \in {"called", "over"}
    BY <1>1, ControlAssumption DEF AtWork
  <2>2. worker.left - 1 \in 0 .. MaxSlices /\ (worker.left # 1 => worker.left - 1 \in 1 .. MaxSlices)
    BY <2>1
  <2>3. /\ worker' \in Job /\ worker'.at \in {"deliver", "after"}
        /\ worker'.id = worker.id /\ worker'.task = worker.task /\ worker'.action = worker.action
        /\ worker'.at = "deliver" => worker'.left \in 1 .. MaxSlices
    BY <1>1, <1>3, <2>2, Types DEF Job
  <2>6. worker.action \in Inputs
    BY <1>1 DEF AtWork
  <2>4. Softer
    BY <1>1, <1>3, SofterSame
  <2>5. Handed
    BY <1>1, <1>3, <2>1, <2>3, <2>6, Types DEF Handed
  <2> QED
    BY <1>1, <2>3, <2>4, <2>5, Types, HandedStep
<1> QED
  BY <1>1, <1>2, <1>3 DEF Slice

\* Another input of the sequence is to be judged: no later one has begun.
LEMMA NextInputStep ==
    ASSUME IInv, worker.at = "after", lock' = FALSE, worker' = Idle, worker.action[2] < MaxSteps,
           NextInput(worker.task),
           UNCHANGED <<sessions, stops, current, desktop, monitors, receipts, inputs>>
    PROVE  IInv'
<1> DEFINE t == worker.task
           k == worker.action
           next == <<k[1], k[2] + 1>>
<1>1. /\ TypeOK /\ AtWork /\ Left /\ Holding /\ InputOnlyWhileCurrent /\ Counted /\ Judged /\ Sending
  BY DEF IInv
<1>2. t \in Tasks /\ k \in Inputs
  BY <1>1 DEF AtWork
<1>3. next \in Inputs /\ next[1] = k[1] /\ next[2] = k[2] + 1
  <2>1. k[1] \in Actions /\ k[2] \in 1 .. MaxSteps /\ MaxSteps \in Nat
    BY <1>2, InputParts, ControlAssumption
  <2>2. k[2] + 1 \in 1 .. MaxSteps
    BY <2>1
  <2> QED BY <2>1, <2>2, InputParts
<1>4. tasks' = [tasks EXCEPT ![t] = IF tasks[t].at = "called"
                    THEN [tasks[t] EXCEPT !.at = "judging", !.action = next] ELSE tasks[t]]
  BY DEF NextInput
<1> HIDE DEF t, k, next
<1>5. /\ tasks' \in [Tasks -> Caller]
      /\ \A s \in Tasks : s # t => tasks'[s] = tasks[s]
      /\ tasks[t].at = "called" => tasks'[t].at = "judging" /\ tasks'[t].action = next
      /\ tasks[t].at # "called" => tasks'[t] = tasks[t]
  <2>1. tasks \in [Tasks -> Caller] /\ tasks[t] \in Caller
    BY <1>1, <1>2, Types
  <2>2. [tasks[t] EXCEPT !.at = "judging", !.action = next] \in Caller
    BY <1>3, <2>1 DEF Caller
  <2> QED BY <1>2, <1>4, <2>1, <2>2 DEF Caller
<1>6. TypeOK'
  BY <1>1, <1>5, Types, TypesNext, IdleIsJob DEF Created
<1>7. AtWork'
  BY <1>1, <1>2, <1>3, <1>5, IdleIsJob DEF AtWork, Created
<1>8. Left' /\ InputOnlyWhileCurrent' /\ Sending'
  BY <1>1, IdleIsJob DEF Left, InputOnlyWhileCurrent, Sending, Created
<1>9. Holding' /\ Counted'
  BY <1>1, IdleIsJob DEF Holding, Counted, Live, Created
<1>10. Judged'
  <2> SUFFICES ASSUME NEW s \in Tasks, tasks'[s].at = "judging", Valid(s)'
               PROVE  /\ <<s, current, tasks'[s].action[1]>> \in receipts
                      /\ From(tasks'[s].action, tasks'[s].action[2])
    BY DEF Judged, From
  <2>1. Valid(s) /\ Live(current) /\ sessions[current].task = s
    BY DEF Valid, Owns, Live
  <2>2. CASE s = t /\ tasks[t].at = "called"
    <3>1. /\ <<s, current, k[1]>> \in receipts
          /\ \A n \in 1 .. MaxSteps : n >= k[2] + 1 => inputs[<<current, <<k[1], n>>>>] = 0
      BY <1>1, <2>1 DEF Sending, From, k
    <3>2. tasks'[s].action = next /\ next[1] = k[1] /\ next[2] = k[2] + 1
      BY <1>3, <1>5, <2>2
    <3> QED BY <3>1, <3>2 DEF From
  <2>3. CASE ~(s = t /\ tasks[t].at = "called")
    <3>1. tasks'[s] = tasks[s]
      BY <1>5, <2>3
    <3> QED BY <1>1, <2>1, <3>1 DEF Judged
  <2> QED BY <2>2, <2>3
<1> QED
  BY <1>6, <1>7, <1>8, <1>9, <1>10 DEF IInv

\* The last capture: the call goes on or is answered, or the session stopped.
LEMMA AfterInputStep ==
    ASSUME IInv, AfterInput  PROVE IInv'
<1>1. /\ TypeOK /\ worker.at = "after"
      /\ UNCHANGED <<current, desktop, monitors, receipts, inputs>>
  BY DEF IInv, AfterInput
<1>2. CASE Released /\ UNCHANGED tasks
  BY <1>1, <1>2, ReleasedStep
<1>3. CASE lock' = FALSE /\ worker' = Idle /\ Answered(worker.task, "free") /\ UNCHANGED <<sessions, stops>>
  BY <1>1, <1>3, Types, AnsweredStep
<1>4. CASE /\ lock' = FALSE /\ worker' = Idle /\ UNCHANGED <<sessions, stops>>
           /\ worker.action[2] < MaxSteps /\ NextInput(worker.task)
  BY <1>1, <1>4, NextInputStep
<1> QED
  BY <1>1, <1>2, <1>3, <1>4 DEF AfterInput

-----------------------------------------------------------------------------
(* The steps of a task's calls.                                            *)

\* A call changes its own task and drops receipts, of the current session only when
\* that is stopped.
LEMMA CallerStep ==
    ASSUME IInv, Softer, NEW t \in Tasks, tasks' \in [Tasks -> Caller], tasks'[t].at # "judging",
           \A s \in Tasks : s # t => tasks'[s] = tasks[s],
           worker.at # "idle" /\ worker.task = t => tasks'[t].at \in {"called", "over"},
           receipts' \subseteq receipts,
           current # None /\ ~sessions'[current].stop =>
               \A a \in Actions : <<sessions[current].task, current, a>> \in receipts
                                  => <<sessions[current].task, current, a>> \in receipts',
           UNCHANGED <<current, lock, desktop, worker, monitors, inputs>>
    PROVE  IInv'
<1>1. TypeOK /\ AtWork
  BY DEF IInv
<1>2. Handed
  BY <1>1, Types DEF Handed, AtWork
<1> QED
  BY <1>1, <1>2, Types, HandedStep

\* No valid session: the call fails at once.
LEMMA RefusedStep ==
    ASSUME IInv, NEW t \in Tasks, Refused(t)  PROVE IInv'
<1>1. TypeOK /\ Left
  BY DEF IInv
<1>2. /\ worker = Idle /\ Called(t, "failed", None)
      /\ UNCHANGED <<sessions, current, lock, desktop, worker, stops, monitors, receipts, inputs>>
  BY DEF Refused, CallBegins
<1>3. Softer
  BY <1>1, <1>2, SofterSame
<1>4. /\ tasks' \in [Tasks -> Caller] /\ tasks'[t].at = "failed"
      /\ \A s \in Tasks : s # t => tasks'[s] = tasks[s]
  BY <1>1, <1>2, CallsBegin
<1> QED
  BY <1>2, <1>3, <1>4, IdleIsJob, CallerStep

\* An idle worker observes, with the lock.
LEMMA ObserveStep ==
    ASSUME IInv, NEW t \in Tasks, Observe(t)  PROVE IInv'
<1>1. TypeOK /\ AtWork /\ Left
  BY DEF IInv
<1>2. /\ worker = Idle /\ Valid(t) /\ Called(t, "called", None) /\ lock' = TRUE
      /\ worker' = [Idle EXCEPT !.at = "capture", !.task = t, !.id = current]
      /\ UNCHANGED <<sessions, current, desktop, stops, monitors, receipts, inputs>>
  BY DEF Observe, CallBegins
<1>3. current \in Created /\ current \in Ids
  BY <1>1, <1>2, Types, Numbers DEF Valid, Owns
<1>4. worker' \in Job /\ worker'.at = "capture" /\ worker'.task = t /\ worker'.id = current
  BY <1>2, <1>3, IdleIsJob DEF Job, Idle
<1>5. Softer
  BY <1>1, <1>2, SofterSame
<1>6. /\ tasks' \in [Tasks -> Caller] /\ tasks'[t].at = "called"
      /\ \A s \in Tasks : s # t => tasks'[s] = tasks[s]
  BY <1>1, <1>2, CallsBegin
<1>7. Handed
  BY <1>1, <1>2, <1>3, <1>4, <1>6, Types, IdleIsJob DEF Handed
<1> QED
  BY <1>1, <1>2, <1>4, <1>5, <1>7, Types, HandedStep, IdleIsJob

\* Judge puts the receipt before any input; without one the action has not begun.
LEMMA JudgeStep ==
    ASSUME IInv, NEW t \in Tasks, NEW a \in Actions, Judge(t, a)  PROVE IInv'
<1> DEFINE k == <<a, 1>>
<1>0. k \in Inputs /\ k[1] = a /\ k[2] = 1
  BY InputParts, ControlAssumption
<1>1. /\ TypeOK /\ AtWork /\ Left /\ Holding /\ InputOnlyWhileCurrent /\ Counted /\ Judged /\ Sending
  BY DEF IInv
<1>2. /\ tasks[t].at = "free" /\ Valid(t) /\ <<t, current, a>> \notin receipts /\ Called(t, "judging", k)
      /\ receipts' = receipts \cup {<<t, current, a>>}
      /\ UNCHANGED <<sessions, current, lock, desktop, worker, stops, monitors, inputs>>
  BY DEF Judge, JudgeBegins, MayCall
<1>3. current \in Created /\ current \in Ids /\ Live(current) /\ sessions[current].task = t
  BY <1>1, <1>2, Types, Numbers DEF Valid, Owns, Live
<1> HIDE DEF k
<1>4. /\ tasks' \in [Tasks -> Caller] /\ tasks'[t].at = "judging" /\ tasks'[t].action = k
      /\ \A s \in Tasks : s # t => tasks'[s] = tasks[s]
  BY <1>0, <1>1, <1>2, CallsBegin
<1>5. From(k, 1)
  <2> SUFFICES ASSUME NEW n \in 1 .. MaxSteps PROVE inputs[<<current, <<a, n>>>>] = 0
    BY <1>0 DEF From
  <2>1. <<a, n>> \in Inputs /\ <<a, n>>[1] = a
    BY InputParts
  <2> QED BY <1>1, <1>2, <1>3, <2>1 DEF Counted
<1>6. TypeOK'
  BY <1>1, <1>2, <1>3, <1>4, Types, TypesNext DEF Created
<1>7. AtWork'
  BY <1>0, <1>1, <1>2, <1>4 DEF AtWork, Created
<1>8. Left' /\ Holding' /\ InputOnlyWhileCurrent'
  BY <1>1, <1>2 DEF Left, Holding, Live, InputOnlyWhileCurrent, Created
<1>9. Counted' /\ Sending'
  BY <1>1, <1>2 DEF Counted, Sending, From, Live, Created
<1>10. Judged'
  <2> SUFFICES ASSUME NEW s \in Tasks, tasks'[s].at = "judging", Valid(s)'
               PROVE  /\ <<s, current, tasks'[s].action[1]>> \in receipts'
                      /\ From(tasks'[s].action, tasks'[s].action[2])
    BY <1>2 DEF Judged, From
  <2>1. s = t
    BY <1>2, <1>3 DEF Valid, Owns
  <2> QED
    BY <1>0, <1>2, <1>4, <1>5, <2>1
<1> QED
  BY <1>6, <1>7, <1>8, <1>9, <1>10 DEF IInv

\* The visual check refuses: the receipt stays.
LEMMA RejectedStep ==
    ASSUME IInv, NEW t \in Tasks, Rejected(t)  PROVE IInv'
<1>1. TypeOK /\ AtWork /\ Left
  BY DEF IInv
<1>2. /\ tasks[t].at = "judging" /\ tasks' = [tasks EXCEPT ![t].at = "free"]
      /\ UNCHANGED <<sessions, current, lock, desktop, worker, stops, monitors, receipts, inputs>>
  BY DEF Rejected
<1>3. Softer
  BY <1>1, <1>2, SofterSame
<1>4. /\ tasks' \in [Tasks -> Caller] /\ tasks'[t].at = "free"
      /\ \A s \in Tasks : s # t => tasks'[s] = tasks[s]
  BY <1>1, <1>2, Types DEF Caller
<1>5. worker.at # "idle" => worker.task # t
  BY <1>1, <1>2 DEF AtWork
<1> QED
  BY <1>2, <1>3, <1>4, <1>5, CallerStep

\* The worker is idle, so the session has the desktop; input begins.
LEMMA PerformStep ==
    ASSUME IInv, NEW t \in Tasks, Perform(t)  PROVE IInv'
<1> DEFINE a == tasks[t].action
<1>1. /\ TypeOK /\ AtWork /\ Left /\ Holding /\ InputOnlyWhileCurrent /\ Counted /\ Judged /\ Sending
  BY DEF IInv
<1>2. /\ tasks[t].at = "judging" /\ worker = Idle /\ Valid(t)
      /\ tasks' = [tasks EXCEPT ![t].at = "called"] /\ lock' = TRUE
      /\ inputs' = [inputs EXCEPT ![<<current, a>>] = @ + 1]
      /\ worker' = [at |-> "deliver", task |-> t, id |-> current, action |-> a, left |-> MaxSlices]
      /\ UNCHANGED <<sessions, current, desktop, stops, monitors, receipts>>
  BY DEF Perform
<1>3. current \in Created /\ current \in Ids /\ Live(current) /\ sessions[current].task = t /\ current # None
  BY <1>1, <1>2, Types, Numbers DEF Valid, Owns, Live
<1>4. /\ a \in Inputs /\ <<t, current, a[1]>> \in receipts /\ inputs[<<current, a>>] = 0
      /\ a[2] \in 1 .. MaxSteps /\ From(a, a[2])
  <2>1. a \in Inputs /\ <<t, current, a[1]>> \in receipts /\ From(a, a[2])
    BY <1>1, <1>2 DEF AtWork, Judged
  <2>2. a[2] \in 1 .. MaxSteps /\ a = <<a[1], a[2]>>
    BY <2>1, InputParts
  <2>3. inputs[<<current, <<a[1], a[2]>>>>] = 0
    BY <2>1, <2>2, ControlAssumption DEF From
  <2> QED BY <2>1, <2>2, <2>3
<1>5. desktop = current
  BY <1>1, <1>2, <1>3, IdleIsJob DEF Holding
<1>6. /\ tasks' \in [Tasks -> Caller] /\ tasks'[t].at = "called"
      /\ \A s \in Tasks : s # t => tasks'[s] = tasks[s]
  BY <1>1, <1>2, Types DEF Caller
<1>7. /\ worker' \in Job /\ worker'.at = "deliver" /\ worker'.task = t /\ worker'.id = current
      /\ worker'.left \in 1 .. MaxSlices
  BY <1>2, <1>3, <1>4, ControlAssumption DEF Job
<1>8. /\ inputs' \in [Ids \X Inputs -> Nat]
      /\ \A i \in Ids, b \in Inputs :
            inputs'[<<i, b>>] = IF i = current /\ b = a THEN 1 ELSE inputs[<<i, b>>]
  BY <1>1, <1>2, <1>3, <1>4 DEF AtWork
<1> HIDE DEF a
<1>9. TypeOK'
  BY <1>1, <1>2, <1>6, <1>7, Types, TypesNext DEF Created
<1>10. AtWork'
  BY <1>1, <1>2, <1>3, <1>6, <1>7, <1>8 DEF AtWork, Created
<1>11. Left' /\ Holding' /\ InputOnlyWhileCurrent'
  BY <1>1, <1>2, <1>5, <1>7 DEF Left, Holding, Live, InputOnlyWhileCurrent, Created
<1>12. Counted'
  <2>1. \A i \in Ids, b \in Inputs :
           inputs'[<<i, b>>] <= 1 /\ (i \notin Created => inputs'[<<i, b>>] = 0)
    <3> TAKE i \in Ids, b \in Inputs
    <3>1. inputs[<<i, b>>] <= 1 /\ (i \notin Created => inputs[<<i, b>>] = 0)
      BY <1>1 DEF Counted
    <3>2. CASE i = current /\ b = a
      BY <1>3, <1>8, <3>2
    <3>3. CASE ~(i = current /\ b = a)
      BY <1>8, <3>1, <3>3
    <3> QED
      BY <3>2, <3>3
  <2>2. \A b \in Inputs : inputs'[<<current, b>>] = 0 \/ <<t, current, b[1]>> \in receipts
    BY <1>1, <1>3, <1>4, <1>8 DEF Counted
  <2> QED
    BY <1>2, <1>3, <2>1, <2>2 DEF Counted, Live, Created
<1>13. Judged'
  BY <1>2, <1>3, <1>6 DEF Judged, Valid, Owns
<1>14. Sending'
  <2> SUFFICES ASSUME NEW n \in 1 .. MaxSteps, n >= a[2] + 1 PROVE inputs'[<<current, <<a[1], n>>>>] = 0
    BY <1>2, <1>3, <1>4, <1>7 DEF Sending, From, a
  <2>1. <<a[1], n>> \in Inputs /\ <<a[1], n>> # a /\ n >= a[2]
    BY <1>4, InputParts, ControlAssumption
  <2> QED BY <1>3, <1>4, <1>8, <2>1 DEF From
<1> QED
  BY <1>9, <1>10, <1>11, <1>12, <1>13, <1>14 DEF IInv

\* The tool's handler stops the session of its task.
LEMMA ToolErrorStep ==
    ASSUME IInv, NEW t \in Tasks, ToolError(t)  PROVE IInv'
<1>1. TypeOK /\ AtWork /\ Left
  BY DEF IInv
<1>2. /\ tasks[t].at = "failed" /\ tasks' = [tasks EXCEPT ![t].at = "free"]
      /\ UNCHANGED <<current, lock, desktop, worker, monitors, receipts, inputs>>
  BY DEF ToolError
<1>3. Softer
  BY <1>1, Types, SofterSame, SofterAsked DEF ToolError, Owns, Threads
<1>4. /\ tasks' \in [Tasks -> Caller] /\ tasks'[t].at = "free"
      /\ \A s \in Tasks : s # t => tasks'[s] = tasks[s]
  BY <1>1, <1>2, Types DEF Caller
<1>5. worker.at # "idle" => worker.task # t
  BY <1>1, <1>2 DEF AtWork
<1> QED
  BY <1>2, <1>3, <1>4, <1>5, CallerStep

\* The receipts that a stop releases are of the session it stops.
LEMMA ToolStopStep ==
    ASSUME IInv, NEW t \in Tasks, ToolStop(t)  PROVE IInv'
<1>1. TypeOK /\ AtWork /\ Left
  BY DEF IInv
<1>2. /\ tasks[t].at = "free" /\ Valid(t) /\ Called(t, "free", None)
      /\ AskStop(t, current, FALSE) /\ receipts' = {r \in receipts : r[1] # t}
      /\ UNCHANGED <<current, lock, desktop, worker, monitors, inputs>>
  BY DEF ToolStop, CallBegins, MayCall
<1>3. Softer /\ sessions'[current].stop
  BY <1>1, <1>2, Types, SofterAsked DEF Valid, Owns, Threads
<1>4. /\ tasks' \in [Tasks -> Caller] /\ tasks'[t].at = "free"
      /\ \A s \in Tasks : s # t => tasks'[s] = tasks[s]
  BY <1>1, <1>2, CallsBegin
<1>5. worker.at # "idle" => worker.task # t
  BY <1>1, <1>2 DEF AtWork
<1> QED
  BY <1>2, <1>3, <1>4, <1>5, CallerStep

\* A cancelled call stops the session of its task.
LEMMA CancelStep ==
    ASSUME IInv, NEW t \in Tasks, Cancel(t)  PROVE IInv'
<1>1. TypeOK /\ AtWork /\ Left
  BY DEF IInv
<1>2. /\ tasks' = [tasks EXCEPT ![t].at = "over"]
      /\ UNCHANGED <<current, lock, desktop, worker, monitors, receipts, inputs>>
  BY DEF Cancel
<1>3. Softer
  BY <1>1, Types, SofterSame, SofterAsked DEF Cancel, Owns, Threads
<1>4. /\ tasks' \in [Tasks -> Caller] /\ tasks'[t].at = "over"
      /\ \A s \in Tasks : s # t => tasks'[s] = tasks[s]
  BY <1>1, <1>2, Types DEF Caller
<1> QED
  BY <1>2, <1>3, <1>4, CallerStep

\* Cleanup stops the task's session; another task's session keeps its receipts.
LEMMA CleanupStep ==
    ASSUME IInv, NEW t \in Tasks, Cleanup(t)  PROVE IInv'
<1>1. TypeOK /\ AtWork /\ Left
  BY DEF IInv
<1>2. /\ tasks' = [tasks EXCEPT ![t].at = "over"] /\ receipts' = {r \in receipts : r[1] # t}
      /\ UNCHANGED <<current, lock, desktop, worker, monitors, inputs>>
  BY DEF Cleanup
<1>3. Softer /\ (Owns(t) => sessions'[current].stop)
  BY <1>1, Types, SofterSame, SofterAsked DEF Cleanup, Owns, Threads
<1>4. /\ tasks' \in [Tasks -> Caller] /\ tasks'[t].at = "over"
      /\ \A s \in Tasks : s # t => tasks'[s] = tasks[s]
  BY <1>1, <1>2, Types DEF Caller
<1>5. current # None /\ ~sessions'[current].stop =>
         \A a \in Actions : <<sessions[current].task, current, a>> \in receipts
                            => <<sessions[current].task, current, a>> \in receipts'
  BY <1>2, <1>3 DEF Owns
<1> QED
  BY <1>2, <1>3, <1>4, <1>5, CallerStep

-----------------------------------------------------------------------------
(* The theorems.                                                           *)

\* Nothing has begun.
LEMMA InitIInv == Init => IInv
<1> SUFFICES ASSUME Init PROVE IInv
  OBVIOUS
<1>1. /\ sessions = <<>> /\ current = None /\ lock = FALSE /\ desktop = None /\ worker = Idle
      /\ stops = [t \in Threads |-> NoStop] /\ monitors = [i \in Ids |-> "none"]
      /\ tasks = [t \in Tasks |-> [calls |-> 0, at |-> "free", action |-> None]]
      /\ receipts = {} /\ inputs = [k \in Ids \X Inputs |-> 0]
  BY DEF Init
<1>2. TypeOK
  <2>1. sessions \in Seq(Session) /\ Len(sessions) = 0 /\ 0 <= MaxSessions
    BY <1>1, ControlAssumption
  <2>2. NoStop \in Asking /\ [calls |-> 0, at |-> "free", action |-> None] \in Caller
    BY DEF NoStop, Asking, Caller
  <2> QED
    BY <1>1, <2>1, <2>2, IdleIsJob, Types
<1>3. AtWork
  BY <1>1, IdleIsJob DEF AtWork
<1>4. Rest
  BY <1>1, IdleIsJob DEF Rest, Left, Holding, Live, InputOnlyWhileCurrent, Counted, Judged, Sending, NoStop
<1> QED
  BY <1>2, <1>3, <1>4, Parts

\* Every step keeps the invariant.
LEMMA StepIInv == IInv /\ [Next]_vars => IInv'
<1> SUFFICES ASSUME IInv, [Next]_vars PROVE IInv'
  OBVIOUS
<1>1. CASE Work
  BY <1>1, StartRefusedStep, RegisterStep, TakeLeaseStep, StartedStep, RaisedStep, CapturedStep,
     SliceStep, AfterInputStep DEF Work
<1>2. CASE \E thread \in Threads : Stop(thread) \/ GiveUp(thread)
  BY <1>2, LeaveStep, CloseStep, GiveUpStep DEF Stop
<1>3. CASE \E i \in Created : MonitorStops(i) \/ MonitorReturns(i) \/ MonitorEnds(i)
  BY <1>3, MonitorStep
<1>4. CASE \E t \in Tasks :
              \/ CallStart(t) \/ Refused(t) \/ Observe(t) \/ Rejected(t)
              \/ ToolError(t) \/ ToolStop(t) \/ Cancel(t) \/ Cleanup(t)
              \/ Perform(t) \/ \E a \in Actions : Judge(t, a)
  BY <1>4, CallStartStep, RefusedStep, ObserveStep, RejectedStep, ToolErrorStep, ToolStopStep,
     CancelStep, CleanupStep, PerformStep, JudgeStep
<1>5. CASE UNCHANGED vars
  <2>1. TypeOK /\ Left
    BY DEF IInv
  <2> QED
    BY <1>5, <2>1, SofterSame, Types, StopperStep DEF vars
<1> QED
  BY <1>1, <1>2, <1>3, <1>4, <1>5 DEF Next

\* IInv holds in every reachable state.
THEOREM Invariance == Spec => []IInv
BY InitIInv, StepIInv, PTL DEF Spec

\* InputIsOurs: input is sent only by the current session while it holds the desktop,
\* and no input of an action id begins twice, whoever stops the session and whenever.
THEOREM Desktop == Spec => []InputIsOurs
<1>1. IInv => InputIsOurs
  <2> SUFFICES ASSUME IInv PROVE InputOnce
    BY DEF IInv, InputIsOurs
  <2>1. DOMAIN inputs = Ids \X Inputs /\ \A i \in Ids, k \in Inputs : inputs[<<i, k>>] <= 1
    BY DEF IInv, AtWork, Counted
  <2> QED
    BY <2>1 DEF InputOnce
<1> QED
  BY <1>1, Invariance, PTL

-----------------------------------------------------------------------------
(* The specialists.                                                        *)

Run == [dispatch : 1 .. MaxDispatches, place : Agents!Places, status : Agents!Final \cup {"queued", "running"}]

\* Only the children of the dispatch under way are at work, and of an ended one nobody.
OthersRest == \A i \in DOMAIN runs \ Agents!Current : runs[i].place \in {"none", "over"}
CurrentRest == parent \notin {"waiting", "joining"} => \A i \in Agents!Current : runs[i].place \in {"none", "over"}
EndsRecorded == \A i \in DOMAIN runs : runs[i].place \in {"reporting", "handling", "over"} => runs[i].status \in Agents!Final
AgentsInv == Agents!TypeOK /\ OthersRest /\ CurrentRest /\ EndsRecorded

\* The instance counts as FiniteSets does.
LEMMA AgentsCardinality == \A S : Agents!Cardinality(S) = Cardinality(S)
BY DEF Agents!Cardinality, Cardinality, Agents!IsFiniteSet, IsFiniteSet

\* A sequence changed element by element is one.
LEMMA RunsMapped ==
    ASSUME NEW S, NEW s \in Seq(S), NEW T, NEW f \in [DOMAIN s -> T]
    PROVE  f \in Seq(T) /\ Len(f) = Len(s) /\ DOMAIN f = DOMAIN s
<1>1. DOMAIN s = 1 .. Len(s) /\ Len(s) \in Nat
  OBVIOUS
<1>2. f \in [1 .. Len(s) -> T]
  BY <1>1
<1>3. f \in Seq(T)
  BY <1>1, <1>2, IsASeq
<1>4. Len(f) = Len(s)
  BY <1>1, <1>2, <1>3
<1> QED BY <1>1, <1>3, <1>4

\* The invariant, conjunct by conjunct.
LEMMA AgentsParts ==
    AgentsInv <=> /\ runs \in Seq(Run) /\ Len(runs) <= MaxTotalRuns
                  /\ parent \in Agents!Idle \cup {"announcing", "waiting", "joining"}
                  /\ cancel \in BOOLEAN /\ stopped \in BOOLEAN
                  /\ EndsRecorded /\ OthersRest /\ CurrentRest
BY DEF AgentsInv, Agents!TypeOK, Run, EndsRecorded

\* The same of the next state.
LEMMA AgentsPartsNext ==
    ASSUME runs' \in Seq(Run), Len(runs') <= MaxTotalRuns,
           parent' \in Agents!Idle \cup {"announcing", "waiting", "joining"},
           cancel' \in BOOLEAN, stopped' \in BOOLEAN, EndsRecorded', OthersRest', CurrentRest'
    PROVE  AgentsInv'
BY DEF AgentsInv, Agents!TypeOK, Run, EndsRecorded

\* A change of the runs that keeps the dispatch of each.
LEMMA RunsMove ==
    ASSUME AgentsInv, NEW f, f \in [DOMAIN runs -> Run], runs' = f,
           \A i \in DOMAIN runs : f[i].dispatch = runs[i].dispatch
    PROVE  runs' \in Seq(Run) /\ Len(runs') = Len(runs) /\ DOMAIN runs' = DOMAIN runs /\ Agents!Current' = Agents!Current
<1>1. runs \in Seq(Run)
  BY AgentsParts
<1>2. runs' \in Seq(Run) /\ Len(runs') = Len(runs) /\ DOMAIN runs' = DOMAIN runs
  BY <1>1, RunsMapped
<1>3. CASE runs = <<>>
  BY <1>1, <1>2, <1>3 DEF Agents!Current
<1>4. CASE runs # <<>>
  <2>1. Len(runs) \in DOMAIN runs
    BY <1>1, <1>4
  <2> QED BY <1>2, <2>1 DEF Agents!Current
<1> QED BY <1>2, <1>3, <1>4

\* A step of one child, whose new place is at rest only in a final state.
LEMMA ChildMoves ==
    ASSUME AgentsInv, NEW i \in DOMAIN runs, runs[i].place \notin {"none", "over"},
           NEW place \in Agents!Places \ {"none"}, NEW status \in Agents!Final \cup {"queued", "running"},
           place \in {"reporting", "handling", "over"} => status \in Agents!Final,
           Agents!Child(i, place, status)
    PROVE  AgentsInv'
<1> DEFINE next == [runs[i] EXCEPT !.place = place, !.status = status]
           f == [runs EXCEPT ![i] = next]
<1>0. /\ runs \in Seq(Run) /\ Len(runs) <= MaxTotalRuns
      /\ parent \in Agents!Idle \cup {"announcing", "waiting", "joining"}
      /\ cancel \in BOOLEAN /\ stopped \in BOOLEAN
      /\ EndsRecorded /\ OthersRest /\ CurrentRest
  BY AgentsParts
<1>1. runs' = f /\ UNCHANGED <<parent, cancel, stopped>>
  BY DEF Agents!Child
<1>2. runs[i] \in Run /\ next \in Run /\ next.dispatch = runs[i].dispatch /\ next.place = place /\ next.status = status
  <2>1. runs[i] \in Run
    BY <1>0
  <2>2. place \in Agents!Places
    OBVIOUS
  <2> QED BY <2>1, <2>2 DEF Run
<1> HIDE DEF next
<1>3. f \in [DOMAIN runs -> Run] /\ f[i] = next /\ \A j \in DOMAIN runs \ {i} : f[j] = runs[j]
  BY <1>0, <1>2
<1>4. runs' \in Seq(Run) /\ Len(runs') = Len(runs) /\ DOMAIN runs' = DOMAIN runs /\ Agents!Current' = Agents!Current
  BY <1>1, <1>2, <1>3, RunsMove
<1>5. i \in Agents!Current /\ parent \in {"waiting", "joining"}
  BY <1>0 DEF OthersRest, CurrentRest
<1>6. EndsRecorded'
  BY <1>0, <1>1, <1>2, <1>3, <1>4 DEF EndsRecorded
<1>7. OthersRest' /\ CurrentRest'
  BY <1>0, <1>1, <1>3, <1>4, <1>5 DEF OthersRest, CurrentRest
<1> QED BY <1>0, <1>1, <1>4, <1>6, <1>7, AgentsPartsNext

\* A specialist that is cancelled goes on to its end, and an ended one stays ended.
LEMMA ThrownRun ==
    ASSUME NEW run \in Run, run.place \in {"reporting", "handling", "over"} => run.status \in Agents!Final
    PROVE  LET after == Agents!Thrown(run)
           IN /\ after \in Run /\ after.dispatch = run.dispatch
              /\ after.place \in {"reporting", "handling", "over"} => after.status \in Agents!Final
              /\ run.place \in {"none", "over"} => after.place = run.place
BY DEF Run, Agents!Thrown, Agents!Places, Agents!Final

\* A parent that is cancelled or stopped cancels its children and joins them.
LEMMA CancelMoves ==
    ASSUME AgentsInv, runs' = Agents!ChildrenCancelled, UNCHANGED cancel, stopped' \in BOOLEAN, parent' = "joining"
    PROVE  AgentsInv'
<1> DEFINE f == Agents!ChildrenCancelled
<1>0. /\ runs \in Seq(Run) /\ Len(runs) <= MaxTotalRuns /\ cancel \in BOOLEAN
      /\ EndsRecorded /\ OthersRest
  BY AgentsParts
<1>1. ASSUME NEW i \in DOMAIN runs
      PROVE  /\ f[i] \in Run /\ f[i].dispatch = runs[i].dispatch
             /\ f[i].place \in {"reporting", "handling", "over"} => f[i].status \in Agents!Final
             /\ i \notin Agents!Current => f[i] = runs[i]
  <2>1. runs[i] \in Run /\ (runs[i].place \in {"reporting", "handling", "over"} => runs[i].status \in Agents!Final)
    BY <1>0 DEF EndsRecorded
  <2>2. f[i] = IF i \in Agents!Current THEN Agents!Thrown(runs[i]) ELSE runs[i]
    BY DEF Agents!ChildrenCancelled
  <2> QED BY <2>1, <2>2, ThrownRun
<1>2. f \in [DOMAIN runs -> Run]
  BY <1>1 DEF Agents!ChildrenCancelled
<1> HIDE DEF f
<1>3. runs' = f
  BY DEF f
<1>4. runs' \in Seq(Run) /\ Len(runs') = Len(runs) /\ DOMAIN runs' = DOMAIN runs /\ Agents!Current' = Agents!Current
  BY <1>1, <1>2, <1>3, RunsMove
<1>5. EndsRecorded' /\ OthersRest' /\ CurrentRest'
  BY <1>0, <1>1, <1>3, <1>4 DEF EndsRecorded, OthersRest, CurrentRest
<1> QED BY <1>0, <1>4, <1>5, AgentsPartsNext

\* Every step keeps the invariant of the specialists.
LEMMA AgentsStep == AgentsInv /\ Agents!Next => AgentsInv'
<1> SUFFICES ASSUME AgentsInv, Agents!Next PROVE AgentsInv'
  OBVIOUS
<1>0. /\ runs \in Seq(Run) /\ Len(runs) <= MaxTotalRuns
      /\ parent \in Agents!Idle \cup {"announcing", "waiting", "joining"}
      /\ cancel \in BOOLEAN /\ stopped \in BOOLEAN
      /\ EndsRecorded /\ OthersRest /\ CurrentRest
  BY AgentsParts
<1>1. CASE Agents!Delegate
  <2>1. PICK n \in 1 .. MaxPerDispatch :
          /\ parent \in {"idle", "returned"}
          /\ Agents!Cardinality(Agents!Dispatches) < MaxDispatches /\ Len(runs) + n <= MaxTotalRuns
          /\ runs' = runs \o [i \in 1 .. n |->
                 [dispatch |-> Agents!Cardinality(Agents!Dispatches) + 1, place |-> "none", status |-> "queued"]]
          /\ parent' = "announcing" /\ UNCHANGED <<cancel, stopped>>
    BY <1>1 DEF Agents!Delegate
  <2> DEFINE number == Agents!Cardinality(Agents!Dispatches) + 1
             new == [dispatch |-> number, place |-> "none", status |-> "queued"]
             more == [i \in 1 .. n |-> new]
  <2>2. number \in 1 .. MaxDispatches
    <3>1. Agents!Dispatches \subseteq 1 .. MaxDispatches
      <4>1. \A i \in DOMAIN runs : runs[i] \in Run
        BY <1>0
      <4> QED BY <4>1 DEF Agents!Dispatches, Run
    <3>2. IsFiniteSet(Agents!Dispatches)
      <4>1. IsFiniteSet(1 .. MaxDispatches)
        BY AgentsAssumption, FS_Interval
      <4> QED BY <3>1, <4>1, FS_Subset
    <3> QED BY <2>1, <3>2, FS_CardinalityType, AgentsCardinality, AgentsAssumption
  <2>3. new \in Run /\ new.place = "none"
    BY <2>2 DEF Run, Agents!Places
  <2>4. n \in Nat
    BY AgentsAssumption
  <2> HIDE DEF number, new
  <2>5. more \in Seq(Run) /\ Len(more) = n /\ \A i \in 1 .. n : more[i] = new
    <3>1. more \in [1 .. n -> Run]
      BY <2>3
    <3>2. more \in Seq(Run)
      BY <2>4, <3>1, IsASeq
    <3> QED BY <2>4, <3>1, <3>2
  <2>6. runs' = runs \o more
    BY <2>1 DEF more, new, number
  <2> HIDE DEF more
  <2>7. /\ runs' \in Seq(Run) /\ Len(runs') = Len(runs) + n
        /\ \A i \in 1 .. Len(runs') : runs'[i] = IF i <= Len(runs) THEN runs[i] ELSE new
    BY <1>0, <2>4, <2>5, <2>6, ConcatProperties
  <2>8. \A i \in DOMAIN runs : runs[i].place \in {"none", "over"}
    BY <1>0, <2>1 DEF OthersRest, CurrentRest
  <2>9. \A i \in DOMAIN runs' : runs'[i].place \in {"none", "over"}
    BY <1>0, <2>3, <2>7, <2>8
  <2>10. OthersRest' /\ CurrentRest'
    BY <2>9 DEF OthersRest, CurrentRest, Agents!Current
  <2>11. EndsRecorded'
    BY <1>0, <2>3, <2>7 DEF EndsRecorded
  <2> QED BY <1>0, <2>1, <2>7, <2>10, <2>11, AgentsPartsNext
<1>2. CASE Agents!Announced
  <2> DEFINE f == [i \in DOMAIN runs |->
                     IF i \in Agents!Current THEN [runs[i] EXCEPT !.place = "queued"] ELSE runs[i]]
  <2>1. runs' = f /\ parent' = "waiting" /\ UNCHANGED <<cancel, stopped>>
    BY <1>2 DEF Agents!Announced
  <2>2. ASSUME NEW i \in DOMAIN runs
        PROVE  /\ f[i] \in Run /\ f[i].dispatch = runs[i].dispatch
               /\ f[i].place = "queued" \/ f[i] = runs[i]
               /\ i \notin Agents!Current => f[i] = runs[i]
    <3>1. runs[i] \in Run
      BY <1>0
    <3> DEFINE queued == [runs[i] EXCEPT !.place = "queued"]
    <3>2. queued \in Run /\ queued.dispatch = runs[i].dispatch /\ queued.place = "queued"
      BY <3>1 DEF Run, Agents!Places
    <3>3. f[i] = IF i \in Agents!Current THEN queued ELSE runs[i]
      OBVIOUS
    <3> HIDE DEF f, queued
    <3> QED BY <3>1, <3>2, <3>3
  <2>3. f \in [DOMAIN runs -> Run]
    BY <2>2
  <2> HIDE DEF f
  <2>4. runs' \in Seq(Run) /\ Len(runs') = Len(runs) /\ DOMAIN runs' = DOMAIN runs /\ Agents!Current' = Agents!Current
    BY <2>1, <2>2, <2>3, RunsMove
  <2>5. EndsRecorded' /\ OthersRest' /\ CurrentRest'
    BY <1>0, <2>1, <2>2, <2>4 DEF EndsRecorded, OthersRest, CurrentRest
  <2> QED BY <1>0, <2>1, <2>4, <2>5, AgentsPartsNext
<1>3. CASE Agents!Noticed
  BY <1>0, <1>3, CancelMoves DEF Agents!Noticed
<1>4. CASE Agents!AnnounceFails \/ Agents!Gathered \/ Agents!Joined \/ Agents!SetCancel
  <2>1. /\ UNCHANGED <<runs, stopped>> /\ cancel' \in BOOLEAN
        /\ parent' \in Agents!Idle \cup {"announcing", "waiting", "joining"}
    BY <1>0, <1>4 DEF Agents!AnnounceFails, Agents!Gathered, Agents!Joined, Agents!SetCancel, Agents!Idle
  <2>2. CurrentRest'
    BY <1>0, <1>4 DEF Agents!AnnounceFails, Agents!Gathered, Agents!Joined, Agents!SetCancel, CurrentRest,
       Agents!Current, Agents!AllOver, Agents!Over
  <2> QED BY <1>0, <2>1, <2>2, AgentsPartsNext DEF EndsRecorded, OthersRest, Agents!Current
<1>5. CASE Agents!CancelCaller
  <2>1. CASE parent \in {"waiting", "joining"}
    BY <1>0, <1>5, <2>1, CancelMoves DEF Agents!CancelCaller
  <2>2. CASE parent \in {"idle", "announcing"}
    <3>1. UNCHANGED <<runs, cancel>> /\ parent' = "raised" /\ stopped' = TRUE
      BY <1>5, <2>2 DEF Agents!CancelCaller
    <3> QED BY <1>0, <2>2, <3>1, AgentsPartsNext DEF EndsRecorded, OthersRest, CurrentRest, Agents!Current, Agents!Idle
  <2> QED BY <1>0, <1>5, <2>1, <2>2 DEF Agents!CancelCaller, Agents!Idle
<1>6. ASSUME NEW i \in DOMAIN runs, Agents!Work(i) \/ Agents!Provider(i) PROVE AgentsInv'
  <2>1. runs[i] \in Run /\ TRUE
    BY <1>0
  <2>2. CASE Agents!Enter(i)
    BY <2>2, ChildMoves DEF Agents!Enter, Agents!Places, Agents!Final
  <2>3. CASE Agents!Started(i) \/ Agents!TimesOut(i) \/ Agents!Fails(i) \/ Agents!Reports(i)
    BY <2>3, ChildMoves DEF Agents!Started, Agents!TimesOut, Agents!Fails, Agents!Reports, Agents!Places, Agents!Final
  <2>4. CASE Agents!Reported(i) \/ Agents!Handled(i)
    <3> DEFINE status == runs[i].status
    <3>1. status \in Agents!Final
      BY <1>0, <2>4 DEF Agents!Reported, Agents!Handled, EndsRecorded
    <3>2. runs[i].place \notin {"none", "over"} /\ Agents!Child(i, "over", status)
      BY <2>4 DEF Agents!Reported, Agents!Handled
    <3>3. "over" \in Agents!Places \ {"none"}
      BY DEF Agents!Places
    <3> HIDE DEF status
    <3> QED BY <3>1, <3>2, <3>3, ChildMoves
  <2> QED BY <1>6, <2>2, <2>3, <2>4 DEF Agents!Work, Agents!Provider
<1> QED BY <1>1, <1>2, <1>3, <1>4, <1>5, <1>6 DEF Agents!Next, Agents!Caller

\* No specialist at first.
LEMMA AgentsStart == Agents!Init => AgentsInv
<1> SUFFICES ASSUME Agents!Init PROVE AgentsInv
  OBVIOUS
<1>1. runs = <<>> /\ runs \in Seq(Run) /\ Len(runs) = 0 /\ DOMAIN runs = {}
  BY EmptySeq DEF Agents!Init
<1>2. Len(runs) <= MaxTotalRuns
  BY <1>1, AgentsAssumption
<1>3. EndsRecorded /\ OthersRest /\ CurrentRest
  BY <1>1 DEF EndsRecorded, OthersRest, CurrentRest, Agents!Current
<1>4. parent \in Agents!Idle /\ cancel \in BOOLEAN /\ stopped \in BOOLEAN
  BY DEF Agents!Init, Agents!Idle
<1> QED BY <1>1, <1>2, <1>3, <1>4, AgentsParts

\* No specialist outlives the call that dispatched it, and each has an end that says
\* how it ended, whatever fails, is stopped or is cancelled.
THEOREM AgentsSettle == BackgroundSpec => []EndedIsSettled
<1>1. BackgroundInit => AgentsInv
  BY AgentsStart DEF BackgroundInit
<1>2. AgentsInv /\ [BackgroundNext]_allVars => AgentsInv'
  <2> SUFFICES ASSUME AgentsInv, [BackgroundNext]_allVars PROVE AgentsInv'
    OBVIOUS
  <2>1. CASE UNCHANGED agents
    BY <2>1 DEF agents, AgentsInv, Agents!TypeOK, OthersRest, CurrentRest, EndsRecorded, Agents!Current
  <2> QED BY <2>1, AgentsStep DEF BackgroundNext, allVars
<1>3. AgentsInv => EndedIsSettled
  <2> SUFFICES ASSUME AgentsInv PROVE EndedIsSettled
    OBVIOUS
  <2>1. parent \in Agents!Idle => \A i \in DOMAIN runs : runs[i].place \in {"none", "over"}
    BY DEF AgentsInv, OthersRest, CurrentRest, Agents!Idle
  <2> QED BY <2>1 DEF AgentsInv, EndedIsSettled, Agents!EndedIsSettled, Agents!Children, Agents!Over, Agents!TypeOK
<1> QED BY <1>1, <1>2, <1>3, PTL DEF BackgroundSpec
=============================================================================
