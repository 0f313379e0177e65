-------------------------- MODULE TaskManagerProofs --------------------------
(***************************************************************************)
(* Theorems about TaskManager.  The properties of the runs are not         *)
(* inductive: that a late commit cannot undo an outcome depends on what    *)
(* the lock holder prepared, on what memory and table agree on while the   *)
(* lock is taken, and on which places of a worker follow the write of its  *)
(* outcome.  IInv below says so; its parts are named for what they relate. *)
(* The steps come in four groups: turns of a worker, steps that take the   *)
(* lock, steps that change flags only, and the commit with its publication.*)
(***************************************************************************)
EXTENDS TaskManager, TLAPS

-----------------------------------------------------------------------------
(* The inductive invariant.                                                *)

\* What the place of a worker says of the status of its row.
Placed(t) ==
    /\ t.pc \in {"new", "setup", "starting", "run", "busy", "final"} => t.row.status \in Active
    /\ t.pc \in {"completed", "closing"} => t.row.status = "completed"
    /\ t.pc \in {"failing", "mfailed"} => t.row.status = "failed"
    /\ t.pc \in {"cancelled", "unwinding", "mcancelled"} => t.row.status = "cancelled"
    /\ t.pc \in {"cleanup", "done"} => t.row.status \in Terminal
    /\ t.pc = "died" => t.row.status # "completed"

\* A worker past the event that reports its outcome.
Settled(t) == t.pc \in {"closing", "unwinding", "cleanup", "done"}
              /\ t.row.status \in {"completed", "cancelled"}

\* Who refers to whom.
Registered ==
    /\ \A c \in Conv : tasks[c] # None => heap[tasks[c]] # None /\ heap[tasks[c]].conv = c
    /\ \A c \in Conv : background[c] # None => background[c] \in Alive /\ heap[background[c]].conv = c
    /\ \A o \in Alive : background[heap[o].conv] = o
    /\ \A c \in Conv \ deleted : background[c] # None => tasks[c] = background[c]
    /\ \A call \in calls : call.op = "continue" => heap[call.obj] # None /\ heap[call.obj].conv = call.conv
    /\ \A o \in Objects : Placed(heap[o])

\* Ids are handed out once; what refers to a conversation refers to one of them.
Known ==
    /\ fence \subseteq deleted /\ deleted \subseteq used
    /\ \A c \in Conv \ used : rows[c] = None /\ tasks[c] = None /\ accepted[c] = {}
    /\ \A o \in Objects : heap[o].conv \in used
    /\ \A call \in calls : call.conv \in used
    /\ listed # None => \A c \in Conv \ used : listed[c] = None
    /\ recovering # None => recovering.conv \in used
    /\ writing # None => writing.conv \in used

\* A deleted conversation is behind the fence, or it is unknown to this process.
Buried ==
    \A c \in deleted :
        /\ rows[c] = None
        /\ c \notin fence =>
              /\ tasks[c] = None /\ background[c] = None
              /\ \A call \in calls : call.conv # c
              /\ writing # None => writing.conv # c
              /\ listed # None => listed[c] = None
              /\ recovering # None => recovering.conv # c

\* The lock holder and what it writes.
Locked ==
    writing # None =>
        /\ writing.kind \in {"steer", "emit", "mark"} => writing.obj # None
        /\ writing.obj # None => tasks[writing.conv] = writing.obj /\ writing.row # None
        /\ writing.kind = "rename" /\ writing.obj = None =>
              /\ writing.row # None /\ rows[writing.conv] = writing.row
              /\ writing.conv \notin deleted /\ background[writing.conv] = None
        /\ writing.kind = "emit" => heap[writing.obj].pc \in Emits /\ writing.row = heap[writing.obj].row
        /\ writing.kind = "steer" /\ writing.conv \notin deleted => heap[writing.obj].pc # "none"
        /\ writing.kind = "mark" => /\ recovering # None /\ writing.obj = recovering.obj
                                    /\ recovering.heir # None
                                    /\ writing.row = [recovering.row EXCEPT !.mark = "recovered"]
        /\ writing.kind \in {"run", "resume"} =>
              /\ writing.row # None /\ writing.row.status = "queued" /\ writing.row.mark = "none"
              /\ background[writing.conv] = None
              /\ listed # None /\ tasks[writing.conv] = None => listed[writing.conv] = None
        /\ writing.kind = "resume" => /\ recovering # None /\ recovering.heir = None
                                      /\ tasks[writing.conv] = None /\ writing.conv \notin deleted
                                      /\ writing.row.parent = recovering.conv
        /\ writing.kind = "delete" => writing.row = None

\* Shutdown ends requests and the recovery before it touches the workers.
Stopping ==
    stopping # 0 => /\ calls = {} /\ recovering = None /\ listed \in {NoRows, None}
                    /\ writing # None => writing.kind = "emit"

\* A committed write is in the table until its owner publishes it.
Saved ==
    writing # None /\ writing.saved =>
        IF writing.kind = "delete" THEN writing.conv \in fence
        ELSE writing.conv \in fence \/ rows[writing.conv] = writing.row

Over(row) == row.status \in Terminal

\* A new turn of the conversation is in the table and not yet in memory.
Ahead(c) == writing # None /\ writing.saved /\ writing.kind = "run" /\ writing.conv = c

\* Memory and table agree on a conversation as far as the lock allows.
Agreed ==
    \A c \in Conv \ deleted :
        /\ rows[c] # None => accepted[c] \subseteq rows[c].said
        /\ tasks[c] # None =>
              LET t == heap[tasks[c]] IN
              /\ rows[c] # None /\ accepted[c] \subseteq t.row.said
              /\ t.row.parent = rows[c].parent
              /\ Ahead(c) => rows[c].turn > t.row.turn
              /\ ~Ahead(c) => /\ rows[c].turn = t.row.turn
                              /\ Over(rows[c]) => Over(t.row)
                              /\ Settled(t) => Over(rows[c])

\* What is about to be written agrees with memory and table.
Prepared ==
    (writing # None /\ writing.row # None /\ writing.conv \notin deleted) =>
        LET c == writing.conv IN
        /\ accepted[c] \subseteq writing.row.said
        /\ rows[c] # None => writing.row.parent = rows[c].parent
        /\ writing.kind \in {"run", "resume"} /\ ~writing.saved => 
               IF tasks[c] = None THEN rows[c] = None ELSE writing.row.turn > rows[c].turn
        /\ writing.kind \in {"steer", "emit", "rename", "mark"} /\ writing.obj # None =>
               /\ writing.row.turn = rows[c].turn
               /\ Over(rows[c]) => Over(writing.row)
               /\ Over(writing.row) => Over(heap[writing.obj].row)
               /\ writing.kind # "emit" /\ Settled(heap[writing.obj]) => Over(writing.row)

\* What the recovery read is what the table holds while nobody took it over.
Listed ==
    /\ listed # None => \A c \in Conv : listed[c] # None =>
          /\ listed[c].status = "failed" /\ listed[c].mark = "interrupted"
          /\ c \notin deleted /\ tasks[c] = None => listed[c] = rows[c]
    /\ recovering # None =>
          /\ recovering.row.status = "failed" /\ recovering.row.mark = "interrupted"
          /\ recovering.obj # None =>
                /\ heap[recovering.obj] # None /\ heap[recovering.obj].pc = "none"
                /\ heap[recovering.obj].conv = recovering.conv
                /\ recovering.conv \notin deleted => heap[recovering.obj].row = recovering.row

\* A conversation that carries on c is in the table, or was there and was
\* deleted since.
CarriesOn(d, c) ==
    /\ heirs[d] = c
    /\ IF d \in deleted THEN rows[d] = None ELSE rows[d] # None /\ rows[d].parent = c

Heir(c) == \E d \in used : CarriesOn(d, c)

\* Every copy of a row marked as recovered has an heir.
Marked ==
    /\ \A c \in Conv : rows[c] # None => heirs[c] = rows[c].parent
    /\ \A c \in Conv : rows[c] # None /\ rows[c].mark = "recovered" => Heir(c)
    /\ \A o \in Objects : heap[o].row.mark = "recovered" => Heir(heap[o].conv)
    /\ recovering # None /\ recovering.heir # None =>
          CarriesOn(recovering.heir, recovering.conv)
    /\ writing # None /\ writing.row # None /\ writing.row.mark = "recovered" => Heir(writing.conv)

IInv == /\ TypeOK /\ Registered /\ Known /\ Buried /\ Locked /\ Stopping /\ Saved
        /\ Agreed /\ Prepared /\ Listed /\ Marked

-----------------------------------------------------------------------------
(* Objects and rows.                                                       *)

\* Two rows that differ in their status only.
Alike(r, s) == r.turn = s.turn /\ r.said = s.said /\ r.mark = s.mark /\ r.parent = s.parent

\* A step of a worker leaves the conversation and all of the row but the status.
Follows(t, u) ==
    /\ u \in Object /\ u.conv = t.conv /\ Alike(u.row, t.row)

\* With changes the status and the place of a worker only.
LEMMA WithIs ==
    ASSUME NEW t \in Object, NEW s \in Active \cup Terminal, NEW p \in Place
    PROVE  /\ Follows(t, With(t, s, p)) /\ With(t, s, p).pc = p /\ With(t, s, p).row.status = s
           /\ With(t, s, p).hit = t.hit /\ With(t, s, p).stop = t.stop /\ With(t, s, p).queue = t.queue
  BY DEF With, Follows, Alike, Object, Row

\* At changes its place only.
LEMMA AtIs ==
    ASSUME NEW t \in Object, NEW p \in Place
    PROVE  /\ Follows(t, At(t, p)) /\ At(t, p).pc = p /\ At(t, p).row = t.row
           /\ At(t, p).hit = t.hit /\ At(t, p).stop = t.stop /\ At(t, p).queue = t.queue
  BY DEF At, Follows, Alike, Object, Row

\* An event changes the place, and the final one the status.
LEMMA EmittedIs ==
    ASSUME NEW t \in Object, t.pc \in Emits
    PROVE  /\ Follows(t, Emitted(t)) /\ Emitted(t).pc = After[t.pc]
           /\ Emitted(t).row.status = IF t.pc = "final" THEN "completed" ELSE t.row.status
<1> DEFINE p == After[t.pc]  s == IF t.pc = "final" THEN "completed" ELSE t.row.status
<1>1. p \in Place
  BY DEF After, Emits, Place, Live
<1>2. s \in Active \cup Terminal
  BY DEF Object, Row, Terminal
<1>3. Emitted(t) = With(t, s, p)
  BY DEF Emitted, With, Object, Row
<1> HIDE DEF p, s
<1>4. QED
  BY <1>1, <1>2, <1>3, WithIs DEF p, s

\* A failed write or an exception makes the row failed, but in the handlers of
\* managed_run.
LEMMA BrokenIs ==
    ASSUME NEW t \in Object
    PROVE  /\ Follows(t, Broken(t))
           /\ Broken(t).row.status = IF t.pc \in {"mcancelled", "mfailed"} THEN t.row.status ELSE "failed"
           /\ Broken(t).pc = IF t.pc \in {"run", "busy", "final", "completed", "closing"} THEN "failing"
                             ELSE IF t.pc \in {"mcancelled", "mfailed"} THEN "died" ELSE "mfailed"
  BY DEF Broken, Follows, Alike, Object, Row, Place, Live, Emits, Terminal

\* Clearing the registries of an ended worker leaves its row alone.
LEMMA RestIs ==
    ASSUME NEW t \in Object
    PROVE  LET u == [t EXCEPT !.hit = FALSE, !.stop = FALSE, !.queue = {}] IN
           u \in Object /\ u.conv = t.conv /\ u.row = t.row /\ u.pc = t.pc
  BY DEF Object

-----------------------------------------------------------------------------
(* Steps of the workers.                                                   *)

\* What a step of a worker does to memory.
Turned(o, u) ==
    /\ o \in Alive /\ Follows(heap[o], u) /\ Placed(u) /\ u.pc # "none"
    /\ Over(heap[o].row) => Over(u.row)
    /\ heap' = [heap EXCEPT ![o] = u]
    /\ background' = [c \in Conv |-> IF u.pc \notin Live /\ background[c] = o THEN None ELSE background[c]]

\* A worker that has not ended is an object of its type.
LEMMA AliveIs ==
    ASSUME TypeOK, NEW o \in Alive
    PROVE  /\ o \in Obj /\ o # None /\ heap[o] \in Object /\ heap[o].pc \in Live
           /\ heap[o].conv \in Conv /\ heap[o].row \in Row
  BY BoundAssumption, NoneAssumption DEF Alive, Objects, TypeOK, Object

\* Become, with the done callback of a worker that ended, is one replaced
\* object and one registry without it.
LEMMA BecomeIs ==
    ASSUME TypeOK, Registered, NEW o \in Alive, NEW t, Follows(heap[o], t), Placed(t), t.pc # "none",
           Over(heap[o].row) => Over(t.row), Become(o, t)
    PROVE  \E u \in Object : Turned(o, u) /\ u.pc = t.pc /\ u.row = t.row
<1> DEFINE u == IF t.pc \in Live THEN t ELSE [t EXCEPT !.hit = FALSE, !.stop = FALSE, !.queue = {}]
<1>1. t \in Object
  BY DEF Follows
<1>2. u \in Object /\ u.conv = t.conv /\ u.row = t.row /\ u.pc = t.pc
  BY <1>1, RestIs
<1>3. heap' = [heap EXCEPT ![o] = u]
  BY DEF Become
<1>4. background' = [c \in Conv |-> IF u.pc \notin Live /\ background[c] = o THEN None ELSE background[c]]
  <2>1. background \in [Conv -> Obj \cup {None}] /\ t.conv = heap[o].conv /\ heap[o].conv \in Conv /\ o # None
    BY AliveIs DEF TypeOK, Follows
  <2>2. \A c \in Conv : background[c] = o => c = t.conv
    BY <2>1 DEF Registered
  <2>3. CASE t.pc \notin Live /\ background[t.conv] = o
    BY <1>2, <2>1, <2>2, <2>3 DEF Become
  <2>4. CASE ~(t.pc \notin Live /\ background[t.conv] = o)
    BY <1>2, <2>1, <2>2, <2>4 DEF Become
  <2>5. QED
    BY <2>3, <2>4
<1>5. Follows(heap[o], u) /\ Placed(u)
  BY <1>2 DEF Follows, Alike, Placed
<1> HIDE DEF u
<1>6. QED
  BY <1>2, <1>3, <1>4, <1>5 DEF Turned, Over

\* Where an event leads.
LEMMA EmittedPlaced ==
    ASSUME NEW t \in Object, t.pc \in Emits, Placed(t)
    PROVE  /\ Follows(t, Emitted(t)) /\ Placed(Emitted(t)) /\ Emitted(t).pc # "none"
           /\ Over(t.row) => Over(Emitted(t).row)
           /\ Settled(Emitted(t)) => Over(t.row)
<1>1. Emitted(t).pc = After[t.pc] /\ Follows(t, Emitted(t))
      /\ Emitted(t).row.status = IF t.pc = "final" THEN "completed" ELSE t.row.status
  BY EmittedIs
<1>2. After[t.pc] # "none"
  BY DEF After, Emits
<1>3. Placed(Emitted(t))
  BY <1>1 DEF Placed, After, Emits, Active, Terminal
<1>4. Settled(Emitted(t)) => Over(t.row)
  BY <1>1 DEF Settled, Placed, After, Emits, Active, Terminal, Over
<1>5. QED
  BY <1>1, <1>2, <1>3, <1>4 DEF Over, Terminal

\* Where a failed write or an exception leads.
LEMMA BrokenPlaced ==
    ASSUME NEW t \in Object, Placed(t)
    PROVE  /\ Follows(t, Broken(t)) /\ Placed(Broken(t)) /\ Broken(t).pc # "none"
           /\ Over(Broken(t).row) /\ ~Settled(Broken(t))
  BY BrokenIs DEF Placed, Over, Terminal, Settled

\* Where a cancellation leads.
LEMMA CancelledPlaced ==
    ASSUME NEW t \in Object, Placed(t), t.pc \in Live
    PROVE  /\ Follows(t, Cancelled(t)) /\ Placed(Cancelled(t)) /\ Cancelled(t).pc # "none"
           /\ Over(t.row) => Over(Cancelled(t).row)
           /\ Settled(Cancelled(t)) => Settled(t)
<1>1. CASE t.pc \in {"setup", "starting", "cancelled", "unwinding"}
  <2>1. Cancelled(t) = With(t, "cancelled", "mcancelled")
    BY <1>1 DEF Cancelled
  <2>2. QED
    BY <2>1, WithIs DEF Placed, Over, Terminal, Settled, Place, Live, Emits
<1>2. CASE t.pc \in {"run", "busy", "final", "completed", "closing"}
  <2>1. Cancelled(t) = With(t, "cancelled", "cancelled")
    BY <1>2 DEF Cancelled
  <2>2. QED
    BY <2>1, WithIs DEF Placed, Over, Terminal, Settled, Place, Live, Emits
<1>3. CASE t.pc \in {"failing", "cleanup"} /\ t.row.status \in {"completed", "failed"}
  <2>1. Cancelled(t) = At(t, "done")
    BY <1>3 DEF Cancelled
  <2>2. QED
    BY <1>3, <2>1, AtIs DEF Placed, Over, Terminal, Settled, Place
<1>4. CASE t.pc \in {"failing", "cleanup"} /\ t.row.status \notin {"completed", "failed"}
  <2>1. Cancelled(t) = With(t, "cancelled", "mcancelled")
    BY <1>4 DEF Cancelled
  <2>2. QED
    BY <2>1, WithIs DEF Placed, Over, Terminal, Settled, Place, Live, Emits
<1>5. CASE t.pc \in {"new", "mcancelled", "mfailed"}
  <2>1. Cancelled(t) = At(t, "died")
    BY <1>5 DEF Cancelled
  <2>2. t.row.status # "completed"
    BY <1>5 DEF Placed, Active
  <2>3. QED
    BY <2>1, <2>2, AtIs DEF Placed, Over, Terminal, Settled, Place
<1>6. QED
  BY <1>1, <1>2, <1>3, <1>4, <1>5 DEF Live, Emits

\* A step of a worker outside its writes.
Works(o, u) ==
    /\ ~InWrite(o) /\ Turned(o, u)
    /\ Settled(u) /\ tasks[heap[o].conv] = o => Settled(heap[o])
    /\ UNCHANGED <<rows, fence, tasks, writing, calls, recovery, stopping, history, budget>>

EmitBegins(o) ==
    /\ o \in Alive /\ heap[o].pc \in Emits /\ tasks[heap[o].conv] = o
    /\ Begin("emit", heap[o].conv, o, heap[o].row)
    /\ UNCHANGED <<rows, fence, memory, calls, recovery, stopping, history, budget>>

\* A turn of a worker that respects the places is a step Works.
LEMMA TurnWorks ==
    ASSUME TypeOK, Registered, NEW o \in Alive, ~InWrite(o), NEW t, Follows(heap[o], t), Placed(t),
           t.pc # "none", Over(heap[o].row) => Over(t.row),
           Settled(t) /\ tasks[heap[o].conv] = o => Settled(heap[o]), Turn(o, t)
    PROVE  \E u \in Object : Works(o, u)
<1>1. PICK u \in Object : Turned(o, u) /\ u.pc = t.pc /\ u.row = t.row
  BY BecomeIs DEF Turn
<1>2. Settled(u) <=> Settled(t)
  BY <1>1 DEF Settled
<1>3. QED
  BY <1>1, <1>2 DEF Works, Turn

\* Every step of a worker is a turn outside its writes, or begins the write
\* of an event.
LEMMA WorkerIs ==
    ASSUME TypeOK, Registered, NEW o \in Obj, Worker(o)
    PROVE  (\E u \in Object : Works(o, u)) \/ EmitBegins(o)
<1>1. o \in Alive /\ ~InWrite(o)
  BY DEF Worker, StartRun, SetStatus, Drain, Answer, Raise, Emit, Close, Interrupt, Free
<1>2. heap[o] \in Object /\ heap[o].pc \in Live /\ Placed(heap[o]) /\ heap[o].row.status \in Active \cup Terminal
  BY <1>1, AliveIs DEF Registered, Alive, Object, Row
<1>3. ASSUME NEW s \in Active \cup Terminal, NEW p \in Place, p # "none", Turn(o, With(heap[o], s, p)),
             Placed(With(heap[o], s, p)), Over(heap[o].row) => s \in Terminal,
             p \notin {"closing", "unwinding", "cleanup", "done"}
      PROVE  \E u \in Object : Works(o, u)
  BY <1>1, <1>2, <1>3, WithIs, TurnWorks DEF Over, Settled
<1>4. ASSUME NEW p \in Place, p # "none", Turn(o, At(heap[o], p)), Placed(At(heap[o], p)),
             p \in {"closing", "unwinding", "cleanup", "done"} /\ Settled(At(heap[o], p)) => Settled(heap[o])
      PROVE  \E u \in Object : Works(o, u)
  BY <1>1, <1>2, <1>4, AtIs, TurnWorks DEF Over, Settled
<1>5. CASE StartRun(o)
  <2>1. CASE heap[o].stop
    <3>1. Turn(o, With(heap[o], "cancelled", "mcancelled"))
      BY <1>5, <2>1 DEF StartRun
    <3>2. Placed(With(heap[o], "cancelled", "mcancelled"))
      BY <1>2, WithIs DEF Placed, Place, Live, Emits, Terminal
    <3>3. QED
      BY <1>3, <3>1, <3>2 DEF Place, Live, Emits, Terminal
  <2>2. CASE ~heap[o].stop
    BY <1>2, <1>4, <1>5, <2>2, AtIs DEF StartRun, Placed, Place, Live, Emits, Terminal
  <2>3. QED
    BY <2>1, <2>2
<1>6. CASE SetStatus(o)
  <2>1. PICK s \in {"running", "waiting", "waiting_user"}, p \in {"starting", "busy"} : Turn(o, With(heap[o], s, p))
    BY <1>6, BoundAssumption DEF SetStatus
  <2>2. heap[o].row.status \in Active
    BY <1>2, <1>6 DEF SetStatus, Placed
  <2>3. QED
    <3>1. s \in Active /\ p \in Place /\ heap[o].row.status \notin Terminal
      BY <2>2 DEF Active, Terminal, Place, Live, Emits
    <3>2. Placed(With(heap[o], s, p))
      BY <1>2, <3>1, WithIs DEF Placed
    <3>3. QED
      BY <1>3, <2>1, <3>1, <3>2 DEF Over
<1>7. CASE Drain(o)
  <2> DEFINE t == [heap[o] EXCEPT !.queue = {}, !.pc = "busy"]
  <2>1. t \in Object /\ t.conv = heap[o].conv /\ t.row = heap[o].row /\ t.pc = "busy"
    BY <1>2 DEF Object, Place, Live, Emits
  <2>2. t.row.status \in Active
    BY <1>2, <1>7, <2>1 DEF Drain, Placed
  <2>3. Follows(heap[o], t) /\ Placed(t) /\ ~Settled(t)
    BY <2>1, <2>2 DEF Follows, Alike, Placed, Settled
  <2>4. Turn(o, t)
    BY <1>7 DEF Drain
  <2> HIDE DEF t
  <2>5. QED
    BY <1>1, <2>1, <2>3, <2>4, TurnWorks DEF Over
<1>8. CASE Answer(o)
  BY <1>2, <1>4, <1>8, AtIs DEF Answer, Placed, Place, Live, Emits
<1>9. CASE Raise(o)
  BY <1>1, <1>2, <1>9, BrokenPlaced, TurnWorks DEF Raise
<1>10. CASE Emit(o)
  <2>1. CASE tasks[heap[o].conv] # o
    BY <1>1, <1>2, <1>10, <2>1, EmittedPlaced, TurnWorks DEF Emit
  <2>2. CASE tasks[heap[o].conv] = o
    BY <1>1, <1>10, <2>2 DEF Emit, EmitBegins
  <2>3. QED
    BY <2>1, <2>2
<1>11. CASE Close(o)
  BY <1>2, <1>4, <1>11, AtIs DEF Close, Placed, Settled, Place, Live, Emits, Terminal
<1>12. CASE Interrupt(o)
  <2> DEFINE t == [heap[o] EXCEPT !.hit = FALSE]
  <2>1. t \in Object /\ t.conv = heap[o].conv /\ t.row = heap[o].row /\ t.pc = heap[o].pc
    BY <1>2 DEF Object
  <2>2. Placed(t) /\ Turn(o, Cancelled(t)) /\ (Settled(t) <=> Settled(heap[o]))
    BY <1>2, <1>12, <2>1 DEF Interrupt, Placed, Settled
  <2> HIDE DEF t
  <2>3. Follows(t, Cancelled(t)) /\ Placed(Cancelled(t)) /\ Cancelled(t).pc # "none"
        /\ (Over(t.row) => Over(Cancelled(t).row)) /\ (Settled(Cancelled(t)) => Settled(t))
    BY <1>2, <2>1, <2>2, CancelledPlaced
  <2>4. Follows(heap[o], Cancelled(t))
    BY <2>1, <2>3 DEF Follows, Alike
  <2>5. QED
    BY <1>1, <2>1, <2>2, <2>3, <2>4, TurnWorks
<1>13. QED
  BY <1>5, <1>6, <1>7, <1>8, <1>9, <1>10, <1>11, <1>12 DEF Worker

\* What is alive and who is who after a worker moved.
LEMMA TurnedIs ==
    ASSUME TypeOK, NEW o \in Obj, NEW u \in Object, Turned(o, u)
    PROVE  /\ heap' \in [Obj -> Object \cup {None}] /\ background' \in [Conv -> Obj \cup {None}]
           /\ heap'[o] = u /\ \A p \in Obj \ {o} : heap'[p] = heap[p]
           /\ u # None /\ u.conv = heap[o].conv /\ Alike(u.row, heap[o].row)
           /\ Objects' = Objects /\ Alive' = IF u.pc \in Live THEN Alive ELSE Alive \ {o}
<1>1. u # None /\ heap[o] # None
  BY NoneAssumption DEF Turned, Alive, Objects
<1>2. heap \in [Obj -> Object \cup {None}] /\ background \in [Conv -> Obj \cup {None}]
  BY DEF TypeOK
<1>3. heap'[o] = u /\ \A p \in Obj \ {o} : heap'[p] = heap[p]
  BY <1>2 DEF Turned
<1>4. heap' \in [Obj -> Object \cup {None}] /\ background' \in [Conv -> Obj \cup {None}]
  BY <1>2 DEF Turned
<1>5. Objects' = Objects
  BY <1>1, <1>3 DEF Objects
<1>6. Alive' = IF u.pc \in Live THEN Alive ELSE Alive \ {o}
  BY <1>3, <1>5 DEF Alive, Turned
<1>7. QED
  BY <1>1, <1>3, <1>4, <1>5, <1>6 DEF Turned, Follows

\* A moved worker is registered as before, or no longer if it ended.
LEMMA TurnedRegistered ==
    ASSUME TypeOK, Registered, NEW o \in Obj, NEW u \in Object, Turned(o, u), UNCHANGED <<tasks, calls, deleted>>
    PROVE  Registered'
<1>1. /\ heap'[o] = u /\ \A p \in Obj \ {o} : heap'[p] = heap[p]
      /\ u # None /\ u.conv = heap[o].conv /\ u.conv \in Conv /\ heap[o] # None
      /\ Objects' = Objects /\ Alive' = IF u.pc \in Live THEN Alive ELSE Alive \ {o}
      /\ o \in Alive /\ o # None
  BY TurnedIs, AliveIs DEF Turned, Alive, Objects
<1>2. \A c \in Conv : background'[c] = IF u.pc \notin Live /\ background[c] = o THEN None ELSE background[c]
  BY DEF Turned
<1>3. \A c \in Conv : tasks[c] # None => tasks[c] \in Obj /\ heap'[tasks[c]] # None /\ heap'[tasks[c]].conv = c
  BY <1>1 DEF Registered, TypeOK
<1>4. \A c \in Conv : background'[c] # None =>
          background'[c] \in Alive' /\ heap'[background'[c]].conv = c /\ background'[c] = background[c]
  BY <1>1, <1>2 DEF Registered, Alive, Objects
<1>5. \A p \in Alive' : background'[heap'[p].conv] = p
  BY <1>1, <1>2, AliveIs DEF Registered
<1>6. \A c \in Conv \ deleted : background'[c] # None => tasks[c] = background'[c]
  BY <1>4 DEF Registered
<1>7. \A call \in calls : call.op = "continue" => heap'[call.obj] # None /\ heap'[call.obj].conv = call.conv
  BY <1>1 DEF Registered, TypeOK, Call
<1>8. \A p \in Objects' : Placed(heap'[p])
  BY <1>1 DEF Registered, Objects, Turned
<1>9. QED
  BY <1>3, <1>4, <1>5, <1>6, <1>7, <1>8 DEF Registered, Placed

\* The invariant, for every turn of a worker outside its writes.
LEMMA WorksKeeps ==
    ASSUME IInv, NEW o \in Obj, NEW u \in Object, Works(o, u)
    PROVE  IInv'
<1> USE DEF IInv
<1>1. /\ UNCHANGED <<rows, fence, tasks, writing, calls, listed, recovering, announced, stopping,
                     used, deleted, accepted, heirs, sent, faults, restarts>>
      /\ Turned(o, u) /\ ~InWrite(o) /\ (Settled(u) /\ tasks[heap[o].conv] = o => Settled(heap[o]))
  BY DEF Works, recovery, history, budget
<1>2. /\ heap' \in [Obj -> Object \cup {None}] /\ background' \in [Conv -> Obj \cup {None}]
      /\ heap'[o] = u /\ \A p \in Obj \ {o} : heap'[p] = heap[p]
      /\ u # None /\ u.conv = heap[o].conv /\ Alike(u.row, heap[o].row)
      /\ Objects' = Objects /\ Alive' \subseteq Alive
      /\ heap[o] # None /\ heap[o].pc \in Live /\ o \in Alive /\ u.pc # "none" /\ (Over(heap[o].row) => Over(u.row))
  BY <1>1, TurnedIs DEF Turned, Alive, Objects
<1>3. TypeOK'
  BY <1>1, <1>2 DEF TypeOK
<1>4. Registered'
  BY <1>1, TurnedRegistered
<1>5. Known'
  BY <1>1, <1>2 DEF Known, Objects
<1>6. \A c \in Conv : background[c] = None => background'[c] = None
  BY <1>1 DEF Turned
<1>7. Buried'
  BY <1>1, <1>6 DEF Buried, TypeOK
<1>8. writing # None => writing \in Write /\ (writing.obj # None => writing.obj \in Obj)
  BY DEF TypeOK, Write, Locked
<1>9. writing # None /\ writing.obj # None =>
        /\ writing.kind = "emit" => heap'[writing.obj] = heap[writing.obj]
        /\ heap[writing.obj].pc # "none" => heap'[writing.obj].pc # "none"
        /\ Settled(heap'[writing.obj]) => Settled(heap[writing.obj])
        /\ Over(heap[writing.obj].row) => Over(heap'[writing.obj].row)
  BY <1>1, <1>2, <1>8 DEF InWrite, Locked, Registered, Write
<1>10. Locked'
  BY <1>1, <1>6, <1>8, <1>9 DEF Locked, Write
<1>11. Stopping'
  BY <1>1 DEF Stopping, NoRows
<1>12. Saved'
  BY <1>1 DEF Saved
<1>13. Agreed'
  BY <1>1, <1>2 DEF Agreed, Registered, Ahead, Alike, TypeOK
<1>14. Prepared'
  BY <1>1, <1>9 DEF Prepared, Settled
<1>15. recovering # None /\ recovering.obj # None => recovering.obj \in Obj /\ heap[recovering.obj].pc = "none"
  BY DEF TypeOK, Recovering, Listed
<1>16. Listed'
  BY <1>1, <1>2, <1>15 DEF Listed, Live, Emits
<1>17. Marked'
  BY <1>1, <1>2 DEF Marked, Heir, CarriesOn, Alike, Objects
<1>18. QED
  BY <1>3, <1>4, <1>5, <1>7, <1>10, <1>11, <1>12, <1>13, <1>14, <1>16, <1>17

-----------------------------------------------------------------------------
(* Steps that take the lock.                                               *)

\* What taking the lock leaves alone.
Takes(w) ==
    /\ writing = None /\ writing' = w /\ w \in Write /\ w.saved = FALSE
    /\ UNCHANGED <<rows, fence, heap, tasks, background, listed, recovering, announced, stopping,
                   deleted, accepted, heirs, faults, restarts>>
    /\ used' = used \cup {w.conv} /\ calls' \subseteq calls /\ sent' \in 0 .. MaxMsg

\* Whoever takes the lock keeps the invariant if what it writes agrees with
\* memory and table (Locked' and Prepared').
LEMMA TakesKeeps ==
    ASSUME IInv, NEW w, Takes(w), Locked', Prepared',
           stopping # 0 => w.kind = "emit",
           w.row # None /\ w.row.mark = "recovered" => Heir(w.conv),
           w.conv \in deleted => w.conv \in fence
    PROVE  IInv'
<1> USE DEF IInv
<1>1. /\ UNCHANGED <<rows, fence, heap, tasks, background, listed, recovering, announced, stopping,
                     deleted, accepted, heirs, faults, restarts>>
      /\ writing = None /\ writing' = w /\ w \in Write /\ w.saved = FALSE /\ w # None
      /\ used' = used \cup {w.conv} /\ calls' \subseteq calls /\ sent' \in 0 .. MaxMsg /\ w.conv \in Conv
  BY NoneAssumption DEF Takes, Write
<1>2. TypeOK'
  BY <1>1 DEF TypeOK
<1>3. Objects' = Objects /\ Alive' = Alive
  BY <1>1 DEF Objects, Alive
<1>4. Registered'
  BY <1>1, <1>3 DEF Registered, Placed
<1>5. Known'
  BY <1>1, <1>3 DEF Known
<1>6. Buried'
  BY <1>1 DEF Buried
<1>7. Stopping'
  BY <1>1 DEF Stopping, NoRows
<1>8. Saved'
  BY <1>1 DEF Saved
<1>9. Agreed'
  BY <1>1 DEF Agreed, Ahead, Over, Settled
<1>10. Listed'
  BY <1>1 DEF Listed
<1>11. \A c : Heir(c) => Heir(c)'
  BY <1>1 DEF Heir, CarriesOn
<1>12. Marked'
  BY <1>1, <1>3, <1>11 DEF Marked, CarriesOn
<1>13. QED
  BY <1>2, <1>4, <1>5, <1>6, <1>7, <1>8, <1>9, <1>10, <1>12

\* What the holder of the lock is.
LEMMA BeginIs ==
    ASSUME NEW kind \in {"run", "resume", "steer", "emit", "rename", "mark", "delete"},
           NEW c \in Conv, NEW o \in Obj \cup {None}, NEW row \in Row \cup {None}, Begin(kind, c, o, row)
    PROVE  /\ writing = None /\ writing' \in Write /\ writing'.kind = kind /\ writing'.conv = c
           /\ writing'.obj = o /\ writing'.row = row /\ writing'.saved = FALSE /\ writing' # None
<1>1. writing = None /\ writing' = [kind |-> kind, conv |-> c, obj |-> o, row |-> row, saved |-> FALSE]
  BY DEF Begin
<1>2. writing' \in Write
  BY <1>1 DEF Write
<1>3. QED
  BY <1>1, <1>2, NoneAssumption

\* The object a conversation is registered with agrees with its row.
LEMMA TaskIs ==
    ASSUME IInv, NEW c \in Conv, tasks[c] # None
    PROVE  /\ tasks[c] \in Obj /\ heap[tasks[c]] \in Object /\ heap[tasks[c]].conv = c
           /\ heap[tasks[c]].row \in Row /\ heap[tasks[c]].row # None /\ c \in used
           /\ heap[tasks[c]].row.mark = "recovered" => Heir(c)
           /\ c \notin deleted /\ writing = None =>
                 /\ rows[c] # None /\ accepted[c] \subseteq heap[tasks[c]].row.said
                 /\ heap[tasks[c]].row.parent = rows[c].parent
                 /\ rows[c].turn = heap[tasks[c]].row.turn
                 /\ Over(rows[c]) => Over(heap[tasks[c]].row)
                 /\ Settled(heap[tasks[c]]) => Over(rows[c])
           /\ c \in deleted => c \in fence
<1> USE DEF IInv
<1>1. tasks[c] \in Obj /\ heap[tasks[c]] # None /\ heap[tasks[c]].conv = c /\ heap[tasks[c]] \in Object
  BY DEF TypeOK, Registered
<1>2. heap[tasks[c]].row \in Row /\ heap[tasks[c]].row # None
  BY <1>1, NoneAssumption DEF Object
<1>3. c \in used /\ (c \in deleted => c \in fence)
  BY DEF Known, Buried
<1>4. heap[tasks[c]].row.mark = "recovered" => Heir(c)
  BY <1>1 DEF Marked, Objects
<1>5. c \notin deleted /\ writing = None =>
                 /\ rows[c] # None /\ accepted[c] \subseteq heap[tasks[c]].row.said
                 /\ heap[tasks[c]].row.parent = rows[c].parent
                 /\ rows[c].turn = heap[tasks[c]].row.turn
                 /\ Over(rows[c]) => Over(heap[tasks[c]].row)
                 /\ Settled(heap[tasks[c]]) => Over(rows[c])
  BY DEF Agreed, Ahead
<1>6. QED
  BY <1>1, <1>2, <1>3, <1>4, <1>5

\* A worker writes its event: the row it writes is the one in memory.
LEMMA EmitBeginKeeps == ASSUME IInv, NEW o \in Obj, EmitBegins(o) PROVE IInv'
<1> USE DEF IInv
<1> DEFINE c == heap[o].conv  row == heap[o].row
<1>1. o \in Alive /\ c \in Conv /\ row \in Row /\ heap[o].pc \in Emits /\ tasks[c] = o /\ o # None /\ row # None
  BY AliveIs, NoneAssumption DEF EmitBegins
<1>2. /\ writing = None /\ writing' \in Write /\ writing'.kind = "emit" /\ writing'.conv = c
      /\ writing'.obj = o /\ writing'.row = row /\ writing'.saved = FALSE /\ writing' # None
  BY <1>1, BeginIs DEF EmitBegins
<1>3. UNCHANGED <<rows, fence, heap, tasks, background, calls, listed, recovering, announced, stopping,
                  used, deleted, accepted, heirs, sent, faults, restarts>>
  BY DEF EmitBegins, memory, recovery, history, budget
<1>4. /\ c \in used /\ (row.mark = "recovered" => Heir(c))
      /\ c \notin deleted => /\ rows[c] # None /\ accepted[c] \subseteq row.said /\ row.parent = rows[c].parent
                             /\ rows[c].turn = row.turn /\ (Over(rows[c]) => Over(row))
      /\ c \in deleted => c \in fence
  BY <1>1, <1>2, TaskIs
<1>5. Takes(writing')
  BY <1>2, <1>3, <1>4 DEF Takes, TypeOK
<1>6. Locked'
  BY <1>1, <1>2, <1>3 DEF Locked
<1>7. Prepared'
  BY <1>1, <1>2, <1>3, <1>4 DEF Prepared, Over
<1>8. QED
  BY <1>2, <1>4, <1>5, <1>6, <1>7, TakesKeeps

\* A new conversation is written first.
LEMMA CreateKeeps == ASSUME IInv, NEW c \in Conv, Create(c) PROVE IInv'
<1> USE DEF IInv
<1>1. Fresh(c) \in Row /\ Fresh(c) # None /\ None \in Obj \cup {None}
  BY NoneAssumption DEF Fresh, Row, Active
<1>2. /\ writing = None /\ writing' \in Write /\ writing'.kind = "run" /\ writing'.conv = c
      /\ writing'.obj = None /\ writing'.row = Fresh(c) /\ writing'.saved = FALSE /\ writing' # None
  BY <1>1, BeginIs DEF Create
<1>3. /\ UNCHANGED <<rows, fence, heap, tasks, background, calls, listed, recovering, announced, stopping,
                     deleted, accepted, heirs, sent, faults, restarts>>
      /\ used' = used \cup {c} /\ c \notin used /\ stopping = 0
  BY DEF Create, Request, Serving, recovery
<1>4. Takes(writing')
  BY <1>2, <1>3 DEF Takes, TypeOK
<1>5. rows[c] = None /\ tasks[c] = None /\ accepted[c] = {} /\ (listed # None => listed[c] = None) /\ c \notin deleted
  BY <1>3 DEF Known
<1>6. background[c] = None
  BY <1>5 DEF Registered, Known
<1>7. Locked'
  BY <1>1, <1>2, <1>3, <1>5, <1>6 DEF Locked, Fresh
<1>8. Prepared'
  BY <1>1, <1>2, <1>3, <1>5 DEF Prepared
<1>9. QED
  BY <1>1, <1>2, <1>3, <1>4, <1>5, <1>7, <1>8, TakesKeeps DEF Fresh

\* The recovery writes a new conversation that carries on an old one.
LEMMA ResumeKeeps == ASSUME IInv, NEW d \in Conv, Resume(d) PROVE IInv'
<1> USE DEF IInv
<1> DEFINE row == [Fresh(d) EXCEPT !.said = recovering.row.said, !.parent = recovering.conv]
<1>1. recovering # None /\ recovering.heir = None /\ recovering \in Recovering /\ stopping = 0
  BY DEF Resume, TypeOK, Stopping
<1>2. recovering.row \in Row /\ recovering.conv \in Conv
  BY <1>1 DEF Recovering
<1>3. row \in Row /\ row # None /\ row.status = "queued" /\ row.mark = "none" /\ row.parent = recovering.conv
  <2>1. Fresh(d) \in Row /\ Fresh(d).status = "queued" /\ Fresh(d).mark = "none"
    BY DEF Fresh, Row, Active
  <2>2. recovering.row.said \in SUBSET Msg
    BY <1>2 DEF Row
  <2>3. row \in Row /\ row.status = "queued" /\ row.mark = "none" /\ row.parent = recovering.conv
    BY <1>2, <2>1, <2>2 DEF Row
  <2>4. QED
    BY <2>3, NoneAssumption
<1>4. /\ writing = None /\ writing' \in Write /\ writing'.kind = "resume" /\ writing'.conv = d
      /\ writing'.obj = None /\ writing'.row = row /\ writing'.saved = FALSE /\ writing' # None
  <2>1. Begin("resume", d, None, row)
    BY DEF Resume
  <2> HIDE DEF row
  <2>2. QED
    BY <1>3, <2>1, BeginIs
<1>5. /\ UNCHANGED <<rows, fence, heap, tasks, background, calls, listed, recovering, announced, stopping,
                     deleted, accepted, heirs, sent, faults, restarts>>
      /\ used' = used \cup {d} /\ d \notin used
  BY DEF Resume, memory, recovery, budget
<1>6. Takes(writing')
  BY <1>4, <1>5 DEF Takes, TypeOK
<1>7. rows[d] = None /\ tasks[d] = None /\ accepted[d] = {} /\ (listed # None => listed[d] = None) /\ d \notin deleted
  BY <1>5 DEF Known
<1>8. background[d] = None
  BY <1>7 DEF Registered, Known
<1> HIDE DEF row
<1>9. Locked'
  BY <1>1, <1>3, <1>4, <1>5, <1>7, <1>8 DEF Locked
<1>10. Prepared'
  BY <1>3, <1>4, <1>5, <1>7 DEF Prepared
<1>11. QED
  BY <1>1, <1>3, <1>4, <1>5, <1>6, <1>7, <1>9, <1>10, TakesKeeps

\* A follow-up is written before the worker hears of it.
LEMMA SteerKeeps == ASSUME IInv, NEW c \in Conv, Steer(c) PROVE IInv'
<1> USE DEF IInv
<1> DEFINE o == tasks[c]  t == heap[o]  row == [t.row EXCEPT !.said = @ \cup {sent + 1}]
<1>1. /\ tasks[c] # None /\ ~Idle(c) /\ t.row.status \in {"queued", "running", "waiting"} /\ sent < MaxMsg
      /\ sent' = sent + 1 /\ Begin("steer", c, o, row) /\ stopping = 0 /\ writing = None
  BY DEF Steer, Serving, Begin
<1>2. /\ o \in Obj /\ t \in Object /\ t.conv = c /\ t.row \in Row /\ c \in used
      /\ t.row.mark = "recovered" => Heir(c)
      /\ c \notin deleted =>
            /\ rows[c] # None /\ accepted[c] \subseteq t.row.said
            /\ t.row.parent = rows[c].parent /\ rows[c].turn = t.row.turn
            /\ Over(rows[c]) => Over(t.row)
      /\ c \in deleted => c \in fence
  BY <1>1, TaskIs
<1>3. sent \in Nat /\ sent + 1 \in Msg /\ sent + 1 \in 0 .. MaxMsg
  BY <1>1, BoundAssumption DEF TypeOK, Msg
<1>4. /\ row \in Row /\ row.status = t.row.status /\ row.turn = t.row.turn /\ row.mark = t.row.mark
      /\ row.parent = t.row.parent /\ t.row.said \subseteq row.said
  BY <1>2, <1>3 DEF Row
<1>5. row # None /\ o # None /\ o \in Obj \cup {None}
  BY <1>1, <1>2, <1>4, NoneAssumption
<1>6. background[c] \in Alive
  BY <1>1 DEF Idle
<1>7. t.pc # "none" \/ c \in deleted
  BY <1>1, <1>6, AliveIs, NoneAssumption DEF Registered, Live, Emits
<1> HIDE DEF o, t, row
<1>8. /\ writing' \in Write /\ writing'.kind = "steer" /\ writing'.conv = c
      /\ writing'.obj = o /\ writing'.row = row /\ writing'.saved = FALSE /\ writing' # None
  BY <1>1, <1>4, <1>5, BeginIs
<1>9. UNCHANGED <<rows, fence, heap, tasks, background, calls, listed, recovering, announced, stopping,
                  used, deleted, accepted, heirs, faults, restarts>>
  BY DEF Steer, Request, recovery
<1>10. Takes(writing')
  BY <1>1, <1>2, <1>3, <1>8, <1>9 DEF Takes
<1>11. Locked'
  BY <1>1, <1>5, <1>7, <1>8, <1>9 DEF Locked, o, t
<1>12. ~Settled(t)
  BY <1>1 DEF Settled
<1>13. Prepared'
  BY <1>1, <1>2, <1>4, <1>8, <1>9, <1>12 DEF Prepared, Over, o, t
<1>14. QED
  BY <1>1, <1>2, <1>4, <1>8, <1>10, <1>11, <1>13, TakesKeeps

\* A new title is written over a snapshot of the row.
LEMMA RenameTitleKeeps == ASSUME IInv, NEW c \in Conv, Rename(c), tasks[c] # None PROVE IInv'
<1> USE DEF IInv
<1> DEFINE o == tasks[c]  t == heap[o]
<1>1. /\ tasks[c] # None /\ sent < MaxMsg
      /\ sent' = sent + 1 /\ Begin("rename", c, o, t.row) /\ stopping = 0 /\ writing = None
  BY DEF Rename, Serving, Begin
<1>2. /\ o \in Obj /\ t \in Object /\ t.conv = c /\ t.row \in Row /\ t.row # None /\ c \in used
      /\ t.row.mark = "recovered" => Heir(c)
      /\ c \notin deleted =>
            /\ rows[c] # None /\ accepted[c] \subseteq t.row.said
            /\ t.row.parent = rows[c].parent /\ rows[c].turn = t.row.turn
            /\ Over(rows[c]) => Over(t.row)
            /\ Settled(t) => Over(rows[c])
      /\ c \in deleted => c \in fence
  BY <1>1, TaskIs
<1>3. sent + 1 \in 0 .. MaxMsg /\ o # None /\ o \in Obj \cup {None}
  BY <1>1, <1>2, BoundAssumption DEF TypeOK
<1> HIDE DEF o, t
<1>4. /\ writing' \in Write /\ writing'.kind = "rename" /\ writing'.conv = c
      /\ writing'.obj = o /\ writing'.row = t.row /\ writing'.saved = FALSE /\ writing' # None
  BY <1>1, <1>2, <1>3, BeginIs
<1>5. UNCHANGED <<rows, fence, heap, tasks, background, calls, listed, recovering, announced, stopping,
                  used, deleted, accepted, heirs, faults, restarts>>
  BY DEF Rename, Request, recovery
<1>6. Takes(writing')
  BY <1>1, <1>2, <1>3, <1>4, <1>5 DEF Takes
<1>7. Locked'
  BY <1>1, <1>2, <1>3, <1>4, <1>5 DEF Locked, o
<1>8. Prepared'
  BY <1>1, <1>2, <1>4, <1>5 DEF Prepared, Over, Settled, o, t
<1>9. QED
  BY <1>1, <1>2, <1>4, <1>6, <1>7, <1>8, TakesKeeps

\* Outside the cache the snapshot is what the table holds.
LEMMA RenameCachedKeeps == ASSUME IInv, NEW c \in Conv, Rename(c), tasks[c] = None PROVE IInv'
<1> USE DEF IInv
<1>1. /\ rows[c] # None /\ sent < MaxMsg
      /\ sent' = sent + 1 /\ Begin("rename", c, None, rows[c]) /\ stopping = 0 /\ writing = None
  BY DEF Rename, Serving, Begin
<1>2. /\ rows[c] \in Row /\ c \in used /\ c \notin deleted
      /\ background[c] = None /\ accepted[c] \subseteq rows[c].said
      /\ rows[c].mark = "recovered" => Heir(c)
  <2>1. rows[c] \in Row /\ c \in used /\ c \notin deleted
    BY <1>1 DEF TypeOK, Known, Buried
  <2>2. QED
    BY <1>1, <2>1 DEF Registered, Agreed, Marked
<1>3. sent + 1 \in 0 .. MaxMsg
  BY <1>1, BoundAssumption DEF TypeOK
<1>4. /\ writing' \in Write /\ writing'.kind = "rename" /\ writing'.conv = c
      /\ writing'.obj = None /\ writing'.row = rows[c] /\ writing'.saved = FALSE /\ writing' # None
  BY <1>1, <1>2, BeginIs
<1>5. UNCHANGED <<rows, fence, heap, tasks, background, calls, listed, recovering, announced, stopping,
                  used, deleted, accepted, heirs, faults, restarts>>
  BY DEF Rename, Request, recovery
<1>6. Takes(writing')
  BY <1>1, <1>2, <1>3, <1>4, <1>5 DEF Takes
<1>7. Locked'
  BY <1>1, <1>2, <1>4, <1>5 DEF Locked
<1>8. Prepared'
  BY <1>1, <1>2, <1>4, <1>5 DEF Prepared
<1>9. QED
  BY <1>1, <1>2, <1>4, <1>6, <1>7, <1>8, TakesKeeps

\* Both.
LEMMA RenameKeeps == ASSUME IInv, NEW c \in Conv, Rename(c) PROVE IInv'
  BY RenameTitleKeeps, RenameCachedKeeps

\* A deletion takes the lock.
LEMMA DeleteKeeps == ASSUME IInv, NEW call \in calls, Delete(call) PROVE IInv'
<1> USE DEF IInv
<1>1. call.conv \in Conv /\ call.conv \in used /\ stopping = 0 /\ (call.conv \in deleted => call.conv \in fence)
  BY DEF TypeOK, Call, Known, Stopping, Buried
<1>2. /\ writing = None /\ writing' \in Write /\ writing'.kind = "delete" /\ writing'.conv = call.conv
      /\ writing'.obj = None /\ writing'.row = None /\ writing'.saved = FALSE /\ writing' # None
  BY <1>1, BeginIs DEF Delete
<1>3. /\ UNCHANGED <<rows, fence, heap, tasks, background, listed, recovering, announced, stopping,
                     used, deleted, accepted, heirs, sent, faults, restarts>>
      /\ calls' \subseteq calls
  BY DEF Delete, Request, recovery
<1>4. Takes(writing')
  BY <1>1, <1>2, <1>3 DEF Takes, TypeOK
<1>5. Locked'
  BY <1>2, <1>3 DEF Locked
<1>6. Prepared'
  BY <1>2, <1>3 DEF Prepared
<1>7. QED
  BY <1>1, <1>2, <1>4, <1>5, <1>6, TakesKeeps

\* The row of the next turn.
LEMMA NextTurnIs ==
    ASSUME NEW r \in Row, NEW m \in Msg
    PROVE  LET s == [r EXCEPT !.turn = @ + 1, !.status = "queued", !.mark = "none", !.said = @ \cup {m}]
           IN /\ s \in Row /\ s.status = "queued" /\ s.turn > r.turn /\ s.mark = "none"
              /\ s.parent = r.parent /\ r.said \subseteq s.said
<1> DEFINE r1 == [r EXCEPT !.turn = @ + 1]
           r2 == [r1 EXCEPT !.status = "queued"]
           r3 == [r2 EXCEPT !.mark = "none"]
<1>1. r1 \in Row /\ r1.turn > r.turn /\ r1.parent = r.parent /\ r1.said = r.said
  BY DEF Row
<1> HIDE DEF r1
<1>2. r2 \in Row /\ r2.turn > r.turn /\ r2.parent = r.parent /\ r2.said = r.said /\ r2.status = "queued"
  BY <1>1 DEF Row, Active
<1> HIDE DEF r2
<1>3. /\ r3 \in Row /\ r3.turn > r.turn /\ r3.parent = r.parent /\ r3.said = r.said /\ r3.status = "queued"
      /\ r3.mark = "none"
  BY <1>2 DEF Row
<1> HIDE DEF r3
<1> DEFINE s == [r3 EXCEPT !.said = r.said \cup {m}]
<1>4. /\ s \in Row /\ s.turn > r.turn /\ s.parent = r.parent /\ r.said \subseteq s.said /\ s.status = "queued"
      /\ s.mark = "none"
  BY <1>3 DEF Row
<1>5. QED
  BY <1>4 DEF r1, r2, r3

\* A continuation writes the next turn: its conversation has no worker.
LEMMA ContinueBegins ==
    ASSUME IInv, NEW call \in calls, Continue(call), MayContinue(call.obj)
    PROVE  IInv'
<1> USE DEF IInv
<1> DEFINE c == call.conv  o == call.obj  t == heap[o]
           row == [t.row EXCEPT !.turn = @ + 1, !.status = "queued", !.mark = "none",
                                !.said = @ \cup {sent + 1}]
<1>1. /\ call.op = "continue" /\ writing = None /\ calls' = calls \ {call} /\ sent < MaxMsg
      /\ sent' = sent + 1 /\ Begin("run", c, None, row)
  BY DEF Continue
<1>2. c \in Conv /\ o \in Obj /\ o # None /\ t # None /\ t.conv = c
  BY <1>1, BoundAssumption DEF TypeOK, Call, Registered
<1>3. tasks[c] = o /\ Idle(c) /\ t.row.status \in Terminal
  BY <1>2 DEF MayContinue
<1>4. /\ t \in Object /\ t.row \in Row /\ c \in used
      /\ c \notin deleted =>
            /\ rows[c] # None /\ accepted[c] \subseteq t.row.said
            /\ t.row.parent = rows[c].parent /\ rows[c].turn = t.row.turn
      /\ c \in deleted => c \in fence
  BY <1>1, <1>2, <1>3, TaskIs
<1>5. background[c] = None
  BY <1>2, <1>3 DEF Idle, Registered
<1>6. sent \in Nat /\ sent + 1 \in Msg /\ sent + 1 \in 0 .. MaxMsg
  BY <1>1, BoundAssumption DEF TypeOK, Msg
<1>7. /\ row \in Row /\ row.status = "queued" /\ row.turn > t.row.turn /\ row.mark = "none"
      /\ row.parent = t.row.parent /\ t.row.said \subseteq row.said
  BY <1>4, <1>6, NextTurnIs
<1>8. row # None
  BY <1>7, NoneAssumption
<1> HIDE DEF c, o, t, row
<1>9. /\ writing' \in Write /\ writing'.kind = "run" /\ writing'.conv = c
      /\ writing'.obj = None /\ writing'.row = row /\ writing'.saved = FALSE /\ writing' # None
  BY <1>1, <1>2, <1>7, BeginIs
<1>10. UNCHANGED <<rows, fence, heap, tasks, background, listed, recovering, announced, stopping,
                   used, deleted, accepted, heirs, faults, restarts>>
  BY DEF Continue, Request, recovery
<1>11. stopping = 0
  BY DEF Stopping
<1>12. Takes(writing')
  BY <1>1, <1>4, <1>6, <1>9, <1>10 DEF Takes
<1>13. Locked'
  BY <1>2, <1>3, <1>5, <1>7, <1>8, <1>9, <1>10 DEF Locked
<1>14. Prepared'
  BY <1>2, <1>3, <1>4, <1>7, <1>9, <1>10 DEF Prepared
<1>15. QED
  BY <1>4, <1>7, <1>9, <1>11, <1>12, <1>13, <1>14, TakesKeeps

\* The mark of a recovered task is written once its heir is there.
LEMMA MarkBegins ==
    ASSUME IInv, Mark, recovering.obj # None, tasks[recovering.conv] = recovering.obj
    PROVE  IInv'
<1> USE DEF IInv
<1> DEFINE c == recovering.conv  o == recovering.obj  row == [recovering.row EXCEPT !.mark = "recovered"]
<1>1. /\ recovering # None /\ recovering.heir # None /\ recovering \in Recovering
      /\ Begin("mark", c, o, row) /\ writing = None /\ stopping = 0
  BY DEF Mark, Begin, TypeOK, Stopping
<1>2. UNCHANGED <<rows, fence, heap, tasks, background, calls, listed, recovering, announced, stopping,
                  used, deleted, accepted, heirs, sent, faults, restarts>>
  BY <1>1 DEF Mark, memory, history, budget
<1>3. /\ c \in Conv /\ o \in Obj /\ tasks[c] = o /\ o # None /\ recovering.row \in Row
      /\ recovering.row.status = "failed" /\ heap[o].pc = "none"
      /\ c \notin deleted => heap[o].row = recovering.row
  BY <1>1 DEF Recovering, Listed
<1>4. /\ row \in Row /\ row.status = "failed" /\ row.turn = recovering.row.turn /\ row.mark = "recovered"
      /\ row.parent = recovering.row.parent /\ row.said = recovering.row.said
  BY <1>3 DEF Row
<1>5. row # None
  BY <1>4, NoneAssumption
<1>6. /\ c \in used
      /\ c \notin deleted =>
            /\ rows[c] # None /\ accepted[c] \subseteq heap[o].row.said
            /\ heap[o].row.parent = rows[c].parent /\ rows[c].turn = heap[o].row.turn
      /\ c \in deleted => c \in fence
  BY <1>1, <1>3, TaskIs
<1>7. Heir(c)
  BY <1>1 DEF Marked, Heir, CarriesOn, Recovering, Known
<1> HIDE DEF c, o, row
<1>8. /\ writing' \in Write /\ writing'.kind = "mark" /\ writing'.conv = c
      /\ writing'.obj = o /\ writing'.row = row /\ writing'.saved = FALSE /\ writing' # None
  BY <1>1, <1>3, <1>4, BeginIs
<1>9. Takes(writing')
  BY <1>1, <1>2, <1>6, <1>8 DEF Takes, TypeOK
<1>10. Locked'
  BY <1>1, <1>2, <1>3, <1>5, <1>8 DEF Locked, o, row, c
<1>11. Prepared'
  BY <1>2, <1>3, <1>4, <1>6, <1>8 DEF Prepared, Over, Terminal
<1>12. QED
  BY <1>6, <1>7, <1>8, <1>9, <1>10, <1>11, <1>1, TakesKeeps

-----------------------------------------------------------------------------
(* Steps that change flags of workers, requests and the recovery only.     *)

\* What such a step may do.
Flags ==
    /\ UNCHANGED <<rows, fence, tasks, background, writing, used, deleted, accepted, heirs, faults, restarts>>
    /\ heap' \in [Obj -> Object \cup {None}]
    /\ \A o \in Obj : heap[o] = None <=> heap'[o] = None
    /\ \A o \in Objects : heap'[o].conv = heap[o].conv /\ heap'[o].row = heap[o].row /\ heap'[o].pc = heap[o].pc
    /\ calls' \subseteq Call
    /\ \A call \in calls' \ calls :
          /\ call.conv \in used /\ (call.conv \in deleted => call.conv \in fence)
          /\ call.op = "continue" => tasks[call.conv] = call.obj
    /\ listed' \in {listed, NoRows}
    /\ recovering' = recovering
         \/ (recovering' = None /\ (writing # None => writing.kind \notin {"mark", "resume"}))
    /\ announced' \subseteq Conv /\ sent' \in 0 .. MaxMsg /\ stopping' \in 0 .. 2
    /\ Stopping'

\* Steps that change such flags keep the invariant: it speaks of no stop, hit
\* or queue.
LEMMA FlagsKeep == ASSUME IInv, Flags PROVE IInv'
<1> USE DEF IInv
<1>1. /\ UNCHANGED <<rows, fence, tasks, background, writing, used, deleted, accepted, heirs, faults, restarts>>
      /\ heap' \in [Obj -> Object \cup {None}]
      /\ \A o \in Obj : heap[o] = None <=> heap'[o] = None
      /\ \A o \in Objects : heap'[o].conv = heap[o].conv /\ heap'[o].row = heap[o].row /\ heap'[o].pc = heap[o].pc
      /\ listed' \in {listed, NoRows} /\ NoRows # None /\ NoRows \in [Conv -> Row \cup {None}]
      /\ recovering' \in {recovering, None}
  BY NoneAssumption DEF Flags, NoRows
<1>2. Objects' = Objects
  BY <1>1 DEF Objects
<1>3. Alive' = Alive
  BY <1>1, <1>2 DEF Alive
<1>4. \A o \in Objects : Placed(heap[o]) => Placed(heap'[o])
  BY <1>1 DEF Placed
<1>5. \A o \in Objects : Settled(heap'[o]) <=> Settled(heap[o])
  BY <1>1 DEF Settled
<1>6. TypeOK'
  BY <1>1 DEF TypeOK, Flags
<1>7. \A call \in calls' : call \in calls \/
         (/\ call.conv \in used /\ (call.conv \in deleted => call.conv \in fence)
          /\ call.op = "continue" => tasks[call.conv] = call.obj)
  BY DEF Flags
<1>8. \A c \in Conv : tasks[c] # None => tasks[c] \in Objects /\ heap'[tasks[c]].conv = c
  BY <1>1 DEF Registered, TypeOK, Objects
<1>9. calls' \subseteq Call
  BY DEF Flags
<1>10. \A call \in calls' : call.op = "continue" =>
          call.obj \in Objects /\ heap'[call.obj].conv = call.conv
  BY <1>1, <1>7, <1>8, <1>9, BoundAssumption DEF Registered, Call, Objects, TypeOK
<1>11. Registered'
  BY <1>1, <1>2, <1>3, <1>4, <1>8, <1>10 DEF Registered, Alive, Objects
<1>12. Known'
  <2>1. listed' # None => \A c \in Conv \ used : listed'[c] = None
    BY <1>1 DEF Known, NoRows
  <2>2. \A call \in calls' : call.conv \in used
    BY <1>7 DEF Known
  <2>3. recovering' # None => recovering'.conv \in used
    BY <1>1 DEF Known
  <2>4. \A o \in Objects' : heap'[o].conv \in used
    BY <1>1, <1>2 DEF Known
  <2>5. QED
    BY <1>1, <2>1, <2>2, <2>3, <2>4 DEF Known
<1>13. Buried'
  <2>1. \A c \in deleted : c \in Conv
    BY DEF TypeOK
  <2>2. \A c \in deleted : listed # None /\ listed[c] = None => listed'[c] = None
    BY <1>1, <2>1 DEF NoRows
  <2>3. \A c \in deleted : listed' # None /\ listed = None => listed'[c] = None
    BY <1>1, <2>1 DEF NoRows
  <2>4. QED
    BY <1>1, <1>7, <2>2, <2>3 DEF Buried
<1>14. writing # None =>
         /\ writing \in Write /\ (writing.obj # None => writing.obj \in Obj)
         /\ writing.obj # None => writing.obj \in Objects
  BY <1>8 DEF TypeOK, Write, Locked
<1>15. Locked'
  <2>1. writing # None /\ writing.kind \in {"mark", "resume"} => recovering' = recovering
    BY DEF Flags
  <2>2. QED
    BY <1>1, <1>14, <2>1 DEF Locked, NoRows, Write
<1>16. Stopping'
  BY DEF Flags
<1>17. Saved'
  BY <1>1 DEF Saved
<1>18. Agreed'
  BY <1>1, <1>5, <1>8 DEF Agreed, Ahead, Over
<1>19. Prepared'
  BY <1>1, <1>5, <1>14 DEF Prepared, Over
<1>20. recovering' # None /\ recovering'.obj # None => recovering'.obj \in Objects
  <2>1. recovering # None => recovering \in Recovering
    BY DEF TypeOK
  <2>2. recovering # None /\ recovering.obj # None => recovering.obj \in Objects
    BY <2>1 DEF Listed, Recovering, Objects
  <2>3. QED
    BY <1>1, <2>2
<1>21. Listed'
  <2>1. \A c \in Conv : listed' # None /\ listed'[c] # None => listed # None /\ listed'[c] = listed[c]
    BY <1>1 DEF NoRows
  <2>2. recovering' # None => recovering' = recovering
    BY <1>1
  <2>3. listed' # None => \A c \in Conv : listed'[c] # None =>
          /\ listed'[c].status = "failed" /\ listed'[c].mark = "interrupted"
          /\ c \notin deleted' /\ tasks'[c] = None => listed'[c] = rows'[c]
    BY <1>1, <2>1 DEF Listed
  <2>4. recovering' # None =>
          /\ recovering'.row.status = "failed" /\ recovering'.row.mark = "interrupted"
          /\ recovering'.obj # None =>
                /\ heap'[recovering'.obj] # None /\ heap'[recovering'.obj].pc = "none"
                /\ heap'[recovering'.obj].conv = recovering'.conv
                /\ recovering'.conv \notin deleted' => heap'[recovering'.obj].row = recovering'.row
    BY <1>1, <1>20, <2>2 DEF Listed, Objects
  <2>5. QED
    BY <2>3, <2>4 DEF Listed
<1>22. Marked'
  BY <1>1, <1>2 DEF Marked, Heir, CarriesOn
<1>23. QED
  BY <1>6, <1>11, <1>12, <1>13, <1>15, <1>16, <1>17, <1>18, <1>19, <1>21, <1>22

\* A cancellation sets flags of one worker.
LEMMA StoppedIs ==
    ASSUME TypeOK, NEW c \in Conv
    PROVE  /\ Stopped(c) \in [Obj -> Object \cup {None}]
           /\ \A o \in Obj : heap[o] = None <=> Stopped(c)[o] = None
           /\ \A o \in Objects : /\ Stopped(c)[o].conv = heap[o].conv /\ Stopped(c)[o].row = heap[o].row
                                 /\ Stopped(c)[o].pc = heap[o].pc
<1> DEFINE b == background[c]
<1>1. heap \in [Obj -> Object \cup {None}] /\ \A o \in Objects : o \in Obj /\ heap[o] \in Object
  BY DEF TypeOK, Objects
<1>2. CASE b = None \/ b \notin Alive \/ heap[b].stop
  BY <1>1, <1>2 DEF Stopped
<1>3. CASE ~(b = None \/ b \notin Alive \/ heap[b].stop)
  <2>1. b \in Objects
    BY <1>3 DEF Alive
  <2> DEFINE u == [[heap[b] EXCEPT !.stop = TRUE] EXCEPT !.hit = heap[b].pc # "new"]
  <2>2. u \in Object /\ u.conv = heap[b].conv /\ u.row = heap[b].row /\ u.pc = heap[b].pc
    BY <1>1, <2>1 DEF Object
  <2>3. Stopped(c) = [heap EXCEPT ![b] = u]
    BY <1>1, <1>3, <2>1 DEF Stopped, Objects
  <2>4. u # None /\ heap[b] # None
    BY <2>1, <2>2, NoneAssumption DEF Objects
  <2> HIDE DEF u, b
  <2>5. QED
    BY <1>1, <2>1, <2>2, <2>3, <2>4 DEF Objects
<1>4. QED
  BY <1>2, <1>3

\* A cancellation keeps the invariant.
LEMMA CancelKeeps == ASSUME IInv, NEW c \in Conv, Cancel(c) PROVE IInv'
<1>1. /\ UNCHANGED <<rows, fence, tasks, background, writing, calls, listed, recovering, announced, stopping,
                     used, deleted, accepted, heirs, sent, faults, restarts>>
      /\ heap' = Stopped(c) /\ stopping = 0
  BY DEF Cancel, Request, recovery, Serving
<1>2. Flags
  BY <1>1, StoppedIs DEF Flags, IInv, TypeOK, Stopping
<1>3. QED
  BY <1>2, FlagsKeep

\* A request to continue remembers the object it read.
LEMMA AskContinueKeeps == ASSUME IInv, NEW c \in Conv, AskContinue(c) PROVE IInv'
<1> DEFINE call == [op |-> "continue", conv |-> c, obj |-> tasks[c]]
<1>1. /\ UNCHANGED <<rows, fence, heap, tasks, background, writing, listed, recovering, announced, stopping,
                     used, deleted, accepted, heirs, sent, faults, restarts>>
      /\ calls' = calls \cup {call} /\ stopping = 0 /\ tasks[c] # None
  BY DEF AskContinue, Wait, Request, recovery, Serving
<1>2. c \in used /\ (c \in deleted => c \in fence) /\ tasks[c] \in Obj
  BY <1>1, TaskIs DEF IInv
<1>3. call \in Call /\ call.conv = c /\ call.obj = tasks[c]
  BY <1>2 DEF Call
<1> HIDE DEF call
<1>4. Flags
  BY <1>1, <1>2, <1>3 DEF Flags, IInv, TypeOK, Stopping
<1>5. QED
  BY <1>4, FlagsKeep

\* A request to delete stops the worker first.
LEMMA AskDeleteKeeps == ASSUME IInv, NEW c \in Conv, AskDelete(c) PROVE IInv'
<1> DEFINE call == [op |-> "delete", conv |-> c, obj |-> None]
<1>1. /\ UNCHANGED <<rows, fence, tasks, background, writing, listed, recovering, announced, stopping,
                     used, deleted, accepted, heirs, sent, faults, restarts>>
      /\ calls' = calls \cup {call} /\ stopping = 0 /\ heap' \in {Stopped(c), heap}
      /\ tasks[c] # None \/ rows[c] # None
  BY DEF AskDelete, Wait, Request, recovery, Serving
<1>2. c \in used /\ (c \in deleted => c \in fence)
  BY <1>1 DEF IInv, Known, Buried
<1>3. call \in Call /\ call.conv = c /\ call.op # "continue"
  BY DEF Call
<1>4. /\ heap' \in [Obj -> Object \cup {None}]
      /\ \A o \in Obj : heap[o] = None <=> heap'[o] = None
      /\ \A o \in Objects : heap'[o].conv = heap[o].conv /\ heap'[o].row = heap[o].row /\ heap'[o].pc = heap[o].pc
  BY <1>1, StoppedIs DEF IInv, TypeOK
<1> HIDE DEF call
<1>5. Flags
  BY <1>1, <1>2, <1>3, <1>4 DEF Flags, IInv, TypeOK, Stopping
<1>6. QED
  BY <1>5, FlagsKeep

\* A continuation is admitted or refused.
LEMMA ContinueKeeps == ASSUME IInv, NEW call \in calls, Continue(call) PROVE IInv'
<1>1. CASE MayContinue(call.obj)
  BY <1>1, ContinueBegins
<1>2. CASE ~MayContinue(call.obj)
  <2>1. /\ UNCHANGED <<rows, fence, heap, tasks, background, writing, listed, recovering, announced, stopping,
                       used, deleted, accepted, heirs, sent, faults, restarts>>
        /\ calls' = calls \ {call}
    BY <1>2 DEF Continue, Request, recovery
  <2>2. Stopping'
    BY <2>1 DEF IInv, Stopping, NoRows
  <2>3. Flags
    BY <2>1, <2>2 DEF Flags, IInv, TypeOK
  <2>4. QED
    BY <2>3, FlagsKeep
<1>3. QED
  BY <1>1, <1>2

\* The recovery marks its row, or only announces it when the task is not its
\* own any more.
LEMMA MarkKeeps == ASSUME IInv, Mark PROVE IInv'
<1>1. CASE recovering.obj # None /\ tasks[recovering.conv] = recovering.obj
  BY <1>1, MarkBegins
<1>2. CASE ~(recovering.obj # None /\ tasks[recovering.conv] = recovering.obj)
  <2>1. /\ UNCHANGED <<rows, fence, heap, tasks, background, writing, calls, listed, stopping,
                       used, deleted, accepted, heirs, sent, faults, restarts>>
        /\ recovering # None /\ recovering' = None /\ writing = None
        /\ announced' = announced \cup {recovering.conv}
    BY <1>2 DEF Mark, memory, history, budget
  <2>2. Stopping' /\ recovering.conv \in Conv
    BY <2>1 DEF IInv, Stopping, TypeOK, Recovering
  <2>3. Flags
    BY <2>1, <2>2 DEF Flags, IInv, TypeOK
  <2>4. QED
    BY <2>3, FlagsKeep
<1>3. QED
  BY <1>1, <1>2

\* Shutdown cancels the workers when requests and recovery are over.
LEMMA ShutdownKeeps == ASSUME IInv, Shutdown PROVE IInv'
<1>1. /\ UNCHANGED <<rows, fence, tasks, background, writing, calls, announced,
                     used, deleted, accepted, heirs, sent, faults, restarts>>
      /\ listed' = NoRows /\ recovering' = None /\ stopping < MaxStops /\ stopping' = stopping + 1
      /\ stopping \in 0 .. 2
  BY DEF Shutdown, history, budget, IInv, TypeOK
<1>2. /\ calls = {} /\ (writing # None => writing.kind = "emit")
      /\ stopping \in {0, 1}
  <2>1. \/ stopping = 0 /\ calls = {} /\ (writing # None => writing.kind = "emit")
        \/ stopping = 1
    BY DEF Shutdown
  <2>2. QED
    BY <2>1 DEF IInv, Stopping
<1>3. stopping' \in 0 .. 2 /\ Stopping'
  BY <1>1, <1>2 DEF Stopping
<1> DEFINE u(o) == [heap[o] EXCEPT !.stop = TRUE, !.hit = heap[o].pc # "new" \/ stopping = 1]
<1>4. \A o \in Obj : heap'[o] = heap[o] \/ (o \in Alive /\ heap'[o] = u(o))
  BY DEF Shutdown
<1>5. \A o \in Alive : u(o) \in Object /\ u(o).conv = heap[o].conv /\ u(o).row = heap[o].row /\ u(o).pc = heap[o].pc
  BY AliveIs DEF Object, IInv
<1> HIDE DEF u
<1>6. /\ \A o \in Obj : heap'[o] \in Object \cup {None} /\ (heap[o] = None <=> heap'[o] = None)
      /\ \A o \in Objects : heap'[o].conv = heap[o].conv /\ heap'[o].row = heap[o].row /\ heap'[o].pc = heap[o].pc
  <2>1. heap \in [Obj -> Object \cup {None}] /\ None \notin Object
    BY NoneAssumption DEF IInv, TypeOK
  <2>2. \A o \in Alive : o \in Obj /\ heap[o] # None
    BY DEF Alive, Objects
  <2>3. QED
    BY <1>4, <1>5, <2>1, <2>2 DEF Objects
<1>7. heap' \in [Obj -> Object \cup {None}]
  BY <1>6 DEF Shutdown
<1>8. Flags
  BY <1>1, <1>2, <1>3, <1>6, <1>7 DEF Flags, IInv, TypeOK
<1>9. QED
  BY <1>8, FlagsKeep

-----------------------------------------------------------------------------
(* Steps that read rows into memory.                                       *)

\* A new object is not one of those that exist.
LEMMA NewObjIs ==
    ASSUME Room
    PROVE  NewObj \in Obj /\ heap[NewObj] = None /\ NewObj \notin Objects
  BY DEF Room, NewObj, Objects

\* A row becomes an object without a worker.
Stores(c, row) ==
    /\ tasks[c] = None /\ row \in Row /\ NewObj \in Obj /\ heap[NewObj] = None
    /\ heap' = [heap EXCEPT ![NewObj] = Stored(c, row)]
    /\ tasks' = [tasks EXCEPT ![c] = NewObj]
    /\ UNCHANGED <<rows, fence, background, writing, calls, announced, stopping, used, deleted, accepted, heirs,
                   sent, faults, restarts>>
    /\ c \in used /\ (c \in deleted => c \in fence) /\ (c \notin deleted => row = rows[c])
    /\ row.mark = "recovered" => Heir(c)
    /\ writing # None => \/ writing.conv # c
                         \/ writing.kind = "delete"
                         \/ writing.kind = "rename" /\ writing.obj = None
    /\ stopping = 0

\* The recovery goes on to a listed row, or nothing of it changes.
Recovers(c, row) ==
    \/ UNCHANGED <<listed, recovering>>
    \/ /\ recovering = None
       /\ listed # None /\ listed[c] = row /\ row \in Row
       /\ c \in used /\ (c \in deleted => c \in fence)
       /\ row.status = "failed" /\ row.mark = "interrupted"
       /\ listed' = [listed EXCEPT ![c] = None]
       /\ recovering' \in Recovering
       /\ recovering'.conv = c /\ recovering'.row = row /\ recovering'.heir = None
       /\ recovering'.obj # None => /\ heap'[recovering'.obj] # None /\ heap'[recovering'.obj].pc = "none"
                                    /\ heap'[recovering'.obj].conv = c /\ heap'[recovering'.obj].row = row

\* What the recovery works on after such a step.
LEMMA RecoversIs ==
    ASSUME IInv, NEW c \in Conv, NEW row \in Row, Recovers(c, row),
           UNCHANGED <<deleted, writing, used>>
    PROVE  /\ listed' \in [Conv -> Row \cup {None}] \cup {None} /\ recovering' \in Recovering \cup {None}
           /\ listed' # None => listed # None
           /\ listed' # None => \A d \in Conv : listed'[d] = listed[d] \/ listed'[d] = None
           /\ (writing # None /\ writing.kind \in {"mark", "resume"}) => recovering' = recovering
           /\ recovering' = recovering \/
                /\ recovering' # None
                /\ recovering'.conv = c /\ recovering'.row = row /\ recovering'.heir = None
                /\ c \in used /\ (c \in deleted => c \in fence)
                /\ row.status = "failed" /\ row.mark = "interrupted"
                /\ recovering'.obj # None => /\ heap'[recovering'.obj] # None /\ heap'[recovering'.obj].pc = "none"
                                             /\ heap'[recovering'.obj].conv = c /\ heap'[recovering'.obj].row = row
<1>1. CASE UNCHANGED <<listed, recovering>>
  BY <1>1 DEF IInv, TypeOK
<1>2. CASE ~UNCHANGED <<listed, recovering>>
  <2>1. recovering' # None /\ listed \in [Conv -> Row \cup {None}]
    BY <1>2, NoneAssumption DEF Recovers, IInv, TypeOK
  <2>2. (writing # None /\ writing.kind \in {"mark", "resume"}) => recovering # None
    BY DEF IInv, Locked
  <2>3. QED
    BY <1>2, <2>1, <2>2 DEF Recovers
<1>3. QED
  BY <1>1, <1>2

\* Reading a row into memory keeps the invariant if it is the one of the
\* table, or its conversation is deleted and fenced.
LEMMA StoresKeeps ==
    ASSUME IInv, NEW c \in Conv, NEW row \in Row, Stores(c, row), Recovers(c, row)
    PROVE  IInv'
<1> USE DEF IInv
<1> DEFINE n == NewObj  t == Stored(c, row)
<1>1. /\ UNCHANGED <<rows, fence, background, writing, calls, announced, stopping, used, deleted, accepted, heirs,
                     sent, faults, restarts>>
      /\ tasks[c] = None /\ n \in Obj /\ n # None /\ heap[n] = None
      /\ c \in used /\ (c \in deleted => c \in fence) /\ (c \notin deleted => row = rows[c])
      /\ row.mark = "recovered" => Heir(c)
      /\ writing # None => \/ writing.conv # c
                           \/ writing.kind = "delete"
                           \/ writing.kind = "rename" /\ writing.obj = None
      /\ stopping = 0
  BY BoundAssumption DEF Stores
<1>2. t \in Object /\ t.conv = c /\ t.row = row /\ t.pc = "none"
  BY DEF Stored, Object, Place
<1>3. t # None /\ row # None /\ Placed(t) /\ t.pc \notin Live /\ ~Settled(t)
  BY <1>2, NoneAssumption DEF Placed, Live, Emits, Settled
<1>4. /\ heap' \in [Obj -> Object \cup {None}] /\ tasks' \in [Conv -> Obj \cup {None}]
      /\ heap'[n] = t /\ (\A o \in Obj \ {n} : heap'[o] = heap[o])
      /\ tasks'[c] = n /\ (\A d \in Conv \ {c} : tasks'[d] = tasks[d])
  BY <1>1, <1>2 DEF Stores, TypeOK
<1> HIDE DEF n, t
<1>5. Objects' = Objects \cup {n} /\ Alive' = Alive /\ n \notin Objects
  BY <1>1, <1>2, <1>3, <1>4 DEF Objects, Alive
<1>6. /\ listed' \in [Conv -> Row \cup {None}] \cup {None} /\ recovering' \in Recovering \cup {None}
      /\ listed' # None => listed # None
      /\ listed' # None => \A d \in Conv : listed'[d] = listed[d] \/ listed'[d] = None
      /\ (writing # None /\ writing.kind \in {"mark", "resume"}) => recovering' = recovering
      /\ recovering' = recovering \/
           /\ recovering' # None
           /\ recovering'.conv = c /\ recovering'.row = row /\ recovering'.heir = None
           /\ c \in used /\ (c \in deleted => c \in fence)
           /\ row.status = "failed" /\ row.mark = "interrupted"
           /\ recovering'.obj # None => /\ heap'[recovering'.obj] # None /\ heap'[recovering'.obj].pc = "none"
                                        /\ heap'[recovering'.obj].conv = c /\ heap'[recovering'.obj].row = row
  BY <1>1, RecoversIs
<1>7. TypeOK'
  BY <1>1, <1>4, <1>6 DEF TypeOK
<1>8. Registered'
  <2>1. \A d \in Conv : tasks'[d] # None => heap'[tasks'[d]] # None /\ heap'[tasks'[d]].conv = d
    BY <1>1, <1>2, <1>3, <1>4 DEF Registered, TypeOK
  <2>2. /\ \A d \in Conv : background'[d] # None => background'[d] \in Alive' /\ heap'[background'[d]].conv = d
        /\ \A o \in Alive' : background'[heap'[o].conv] = o
    BY <1>1, <1>4, <1>5 DEF Registered, Alive, Objects
  <2>3. \A d \in Conv \ deleted' : background'[d] # None => tasks'[d] = background'[d]
    BY <1>1, <1>4 DEF Registered
  <2>4. \A call \in calls' : call.op = "continue" => heap'[call.obj] # None /\ heap'[call.obj].conv = call.conv
    BY <1>1, <1>4 DEF Registered, TypeOK, Call
  <2>5. \A o \in Objects' : Placed(heap'[o])
    BY <1>2, <1>3, <1>4, <1>5 DEF Registered, Objects
  <2>6. QED
    BY <2>1, <2>2, <2>3, <2>4, <2>5 DEF Registered, Placed
<1>9. Known'
  BY <1>1, <1>2, <1>4, <1>5, <1>6 DEF Known, Objects
<1>10. Buried'
  BY <1>1, <1>4, <1>6 DEF Buried, TypeOK
<1>11. writing # None =>
         /\ writing \in Write /\ (writing.obj # None => writing.obj \in Obj)
         /\ writing.obj # None =>
               writing.obj \in Objects /\ writing.obj # n /\ tasks[writing.conv] = writing.obj
  BY <1>5 DEF TypeOK, Write, Locked, Registered, Objects
<1>12. Locked'
  BY <1>1, <1>4, <1>6, <1>11 DEF Locked, Write, Objects
<1>13. Stopping' /\ Saved'
  BY <1>1 DEF Stopping, Saved
<1>14. Agreed'
  BY <1>1, <1>2, <1>3, <1>4 DEF Agreed, Ahead, Over, Registered, TypeOK
<1>15. Prepared'
  BY <1>1, <1>4, <1>11 DEF Prepared, Over, Objects, Settled, Write
<1>16. Listed'
  <2>1. listed' # None => \A d \in Conv : listed'[d] # None =>
          /\ listed'[d].status = "failed" /\ listed'[d].mark = "interrupted"
          /\ d \notin deleted' /\ tasks'[d] = None => listed'[d] = rows'[d]
    BY <1>1, <1>4, <1>6 DEF Listed
  <2>2. recovering # None => recovering \in Recovering
    BY DEF TypeOK
  <2>3. recovering # None /\ recovering.obj # None => recovering.obj \in Obj \ {n}
    BY <1>1, <2>2 DEF Listed, Recovering
  <2>4. recovering' # None =>
          /\ recovering'.row.status = "failed" /\ recovering'.row.mark = "interrupted"
          /\ recovering'.obj # None =>
                /\ heap'[recovering'.obj] # None /\ heap'[recovering'.obj].pc = "none"
                /\ heap'[recovering'.obj].conv = recovering'.conv
                /\ recovering'.conv \notin deleted' => heap'[recovering'.obj].row = recovering'.row
    BY <1>1, <1>4, <1>6, <2>3 DEF Listed
  <2>5. QED
    BY <2>1, <2>4 DEF Listed
<1>17. Marked'
  <2>1. \A d : Heir(d) => Heir(d)'
    BY <1>1 DEF Heir, CarriesOn
  <2>2. QED
    BY <1>1, <1>2, <1>4, <1>5, <1>6, <2>1 DEF Marked, CarriesOn, Objects
<1>18. QED
  BY <1>7, <1>8, <1>9, <1>10, <1>12, <1>13, <1>14, <1>15, <1>16, <1>17

\* get_async of a row outside the cache.
LEMMA LoadKeeps == ASSUME IInv, NEW c \in Conv, Load(c) PROVE IInv'
<1> USE DEF IInv
<1>1. rows[c] \in Row /\ c \in used /\ c \notin deleted
  BY DEF Load, TypeOK, Known, Buried
<1>2. Stores(c, rows[c])
  BY <1>1, NewObjIs DEF Load, Stores, history, budget, Serving, recovery, Marked
<1>3. Recovers(c, rows[c])
  BY DEF Load, Recovers, recovery
<1>4. QED
  BY <1>1, <1>2, <1>3, StoresKeeps

\* The recovery takes up a row whose conversation is in memory already.
LEMMA TakeUpKnown ==
    ASSUME IInv, NEW c \in Conv, NEW row \in Row, Recovers(c, row),
           UNCHANGED <<rows, fence, heap, tasks, background, writing, calls, announced, stopping,
                       used, deleted, accepted, heirs, sent, faults, restarts>>,
           stopping = 0, row.mark # "recovered"
    PROVE  IInv'
<1> USE DEF IInv
<1>1. UNCHANGED <<rows, fence, heap, tasks, background, writing, calls, announced, stopping,
                  used, deleted, accepted, heirs, sent, faults, restarts>>
  OBVIOUS
<1>2. Objects' = Objects /\ Alive' = Alive
  BY <1>1 DEF Objects, Alive
<1>3. /\ listed' \in [Conv -> Row \cup {None}] \cup {None} /\ recovering' \in Recovering \cup {None}
      /\ listed' # None => listed # None
      /\ listed' # None => \A d \in Conv : listed'[d] = listed[d] \/ listed'[d] = None
      /\ (writing # None /\ writing.kind \in {"mark", "resume"}) => recovering' = recovering
      /\ recovering' = recovering \/
           /\ recovering' # None
           /\ recovering'.conv = c /\ recovering'.row = row /\ recovering'.heir = None
           /\ c \in used /\ (c \in deleted => c \in fence)
           /\ row.status = "failed" /\ row.mark = "interrupted"
           /\ recovering'.obj # None => /\ heap'[recovering'.obj] # None /\ heap'[recovering'.obj].pc = "none"
                                        /\ heap'[recovering'.obj].conv = c /\ heap'[recovering'.obj].row = row
  BY RecoversIs
<1>4. TypeOK'
  BY <1>1, <1>3 DEF TypeOK
<1>5. Registered'
  BY <1>1, <1>2 DEF Registered, Placed
<1>6. Known'
  BY <1>1, <1>2, <1>3 DEF Known
<1>7. Buried'
  BY <1>1, <1>3 DEF Buried, TypeOK
<1>8. Locked'
  BY <1>1, <1>3 DEF Locked, TypeOK, Write
<1>9. Stopping' /\ Saved'
  BY <1>1 DEF Stopping, Saved
<1>10. Agreed' /\ Prepared'
  BY <1>1 DEF Agreed, Ahead, Over, Settled, Prepared
<1>11. Listed'
  BY <1>1, <1>3 DEF Listed
<1>12. Marked'
  BY <1>1, <1>2, <1>3 DEF Marked, Heir, CarriesOn
<1>13. QED
  BY <1>4, <1>5, <1>6, <1>7, <1>8, <1>9, <1>10, <1>11, <1>12

\* The recovery takes up the next row it listed.
LEMMA TakeUpKeeps == ASSUME IInv, NEW c \in Conv, TakeUp(c) PROVE IInv'
<1> USE DEF IInv
<1> DEFINE row == listed[c]
<1>1. /\ listed # None /\ row # None /\ recovering = None /\ stopping = 0
      /\ listed' = [listed EXCEPT ![c] = None]
      /\ UNCHANGED <<rows, fence, background, writing, calls, announced, stopping, used, deleted, accepted, heirs,
                     sent, faults, restarts>>
  BY DEF TakeUp, Serving, history, budget
<1>2. /\ row \in Row /\ c \in used /\ (c \in deleted => c \in fence)
      /\ row.status = "failed" /\ row.mark = "interrupted"
      /\ c \notin deleted /\ tasks[c] = None => row = rows[c]
  BY <1>1 DEF TypeOK, Known, Buried, Listed
<1>3. CASE tasks[c] = None
  <2>1. /\ NewObj \in Obj /\ heap[NewObj] = None
        /\ heap' = [heap EXCEPT ![NewObj] = Stored(c, row)]
        /\ tasks' = [tasks EXCEPT ![c] = NewObj]
        /\ recovering' = [conv |-> c, obj |-> NewObj, row |-> row, heir |-> None]
    BY <1>3, NewObjIs DEF TakeUp
  <2>2. writing # None => \/ writing.conv # c
                          \/ writing.kind = "delete"
                          \/ writing.kind = "rename" /\ writing.obj = None
    <3>1. SUFFICES ASSUME writing # None, writing.conv = c, writing.kind # "delete"
                   PROVE  writing.kind = "rename" /\ writing.obj = None
      OBVIOUS
    <3>2. writing.obj = None /\ writing.kind \notin {"steer", "emit", "mark"}
      BY <1>3, <3>1 DEF Locked
    <3>3. writing.kind \notin {"run", "resume"}
      BY <1>1, <1>3, <3>1 DEF Locked
    <3>4. writing.kind \in {"run", "resume", "steer", "emit", "rename", "mark", "delete"}
      BY <3>1 DEF TypeOK, Write
    <3>5. QED
      BY <3>1, <3>2, <3>3, <3>4
  <2>3. Stores(c, row)
    <3> HIDE DEF row
    <3>1. row.mark = "recovered" => Heir(c)
      BY <1>2
    <3>2. c \notin deleted => row = rows[c]
      BY <1>2, <1>3
    <3>3. row \in Row /\ c \in used /\ (c \in deleted => c \in fence) /\ stopping = 0
      BY <1>1, <1>2
    <3>4. UNCHANGED <<rows, fence, background, writing, calls, announced, stopping, used, deleted, accepted, heirs,
                      sent, faults, restarts>>
      BY <1>1
    <3>5. QED
      BY <1>3, <2>1, <2>2, <3>1, <3>2, <3>3, <3>4 DEF Stores
  <2>4. recovering' \in Recovering
    BY <1>2, <2>1 DEF Recovering
  <2>5. heap'[NewObj] = Stored(c, row) /\ Stored(c, row) # None
    <3>1. Stored(c, row) \in Object
      BY <1>2 DEF Stored, Object, Place
    <3>2. QED
      BY <2>1, <3>1, NoneAssumption DEF TypeOK
  <2>6. Recovers(c, row)
    BY <1>1, <1>2, <2>1, <2>4, <2>5 DEF Recovers, Stored
  <2>7. QED
    BY <1>2, <2>3, <2>6, StoresKeeps
<1>4. CASE tasks[c] # None
  <2>1. /\ UNCHANGED <<heap, tasks>>
        /\ recovering' = [conv |-> c, obj |-> None, row |-> row, heir |-> None]
    BY <1>4 DEF TakeUp
  <2>2. recovering' \in Recovering
    BY <1>2, <2>1 DEF Recovering
  <2>3. Recovers(c, row)
    BY <1>1, <1>2, <2>1, <2>2 DEF Recovers
  <2>4. QED
    BY <1>1, <1>2, <2>1, <2>3, TakeUpKnown
<1>5. QED
  BY <1>3, <1>4

\* The scan for interrupted rows reads the table without the lock: what it
\* finds is not being written.
LEMMA ListKeeps == ASSUME IInv, List PROVE IInv'
<1> USE DEF IInv
<1>1. /\ UNCHANGED <<rows, fence, heap, tasks, background, writing, calls, recovering, announced, stopping,
                     used, deleted, accepted, heirs, sent, faults, restarts>>
      /\ stopping = 0 /\ listed = None
  BY DEF List, Serving, memory, history, budget
<1>2. /\ listed' \in [Conv -> Row \cup {None}]
      /\ \A c \in Conv : listed'[c] = None \/
            /\ listed'[c] = rows[c] /\ rows[c] # None /\ rows[c].status = "failed" /\ rows[c].mark = "interrupted"
  BY DEF List, TypeOK
<1>3. Objects' = Objects /\ Alive' = Alive
  BY <1>1 DEF Objects, Alive
<1>4. TypeOK'
  BY <1>1, <1>2 DEF TypeOK
<1>5. Registered'
  BY <1>1, <1>3 DEF Registered, Placed
<1>6. Known'
  BY <1>1, <1>2, <1>3 DEF Known
<1>7. Buried'
  BY <1>1, <1>2 DEF Buried, TypeOK
<1>8. Locked'
  <2>1. (writing # None /\ writing.kind \in {"run", "resume"} /\ tasks[writing.conv] = None)
           => listed'[writing.conv] = None
    <3>1. SUFFICES ASSUME writing # None, writing.kind \in {"run", "resume"}, tasks[writing.conv] = None,
                          listed'[writing.conv] # None
                   PROVE  FALSE
      OBVIOUS
    <3>2. writing.conv \in Conv /\ writing.saved \in BOOLEAN /\ writing.row # None /\ writing.row.status = "queued"
      BY <3>1 DEF TypeOK, Write, Locked
    <3>3. rows[writing.conv] # None /\ rows[writing.conv].status = "failed"
      BY <1>2, <3>1, <3>2
    <3>4. writing.conv \notin deleted /\ writing.conv \notin fence
      BY <3>3 DEF Buried, Known
    <3>5. CASE writing.saved
      BY <3>1, <3>2, <3>3, <3>4, <3>5 DEF Saved
    <3>6. CASE ~writing.saved
      BY <3>1, <3>2, <3>3, <3>4, <3>6 DEF Prepared
    <3>7. QED
      BY <3>2, <3>5, <3>6
  <2>2. QED
    BY <1>1, <2>1 DEF Locked
<1>9. Stopping' /\ Saved'
  BY <1>1 DEF Stopping, Saved
<1>10. Agreed' /\ Prepared'
  BY <1>1 DEF Agreed, Ahead, Over, Settled, Prepared
<1>11. Listed'
  BY <1>1, <1>2 DEF Listed
<1>12. Marked'
  BY <1>1, <1>2, <1>3 DEF Marked, Heir, CarriesOn
<1>13. QED
  BY <1>4, <1>5, <1>6, <1>7, <1>8, <1>9, <1>10, <1>11, <1>12

-----------------------------------------------------------------------------
(* The commit and the publication.                                         *)

\* Heir in the next state.
HeirNext(c) ==
    \E d \in used' : /\ heirs'[d] = c
                     /\ IF d \in deleted' THEN rows'[d] = None
                        ELSE rows'[d] # None /\ rows'[d].parent = c

\* Agreed of one conversation in the next state.
AgreesNext(d) ==
    /\ rows'[d] # None => accepted'[d] \subseteq rows'[d].said
    /\ tasks'[d] # None =>
          LET t == heap'[tasks'[d]] IN
          /\ rows'[d] # None /\ accepted'[d] \subseteq t.row.said
          /\ t.row.parent = rows'[d].parent
          /\ Ahead(d)' => rows'[d].turn > t.row.turn
          /\ ~Ahead(d)' => /\ rows'[d].turn = t.row.turn
                           /\ Over(rows'[d]) => Over(t.row)
                           /\ Settled(t) => Over(rows'[d])

\* The commit of a deletion.
LEMMA CommitDeletes ==
    ASSUME IInv, Commit, writing.kind = "delete"
    PROVE  IInv'
<1> USE DEF IInv
<1> DEFINE c == writing.conv
<1>1. /\ rows' = [rows EXCEPT ![c] = None] /\ fence' = fence \cup {c} /\ deleted' = deleted \cup {c}
      /\ writing' = [writing EXCEPT !.saved = TRUE]
      /\ UNCHANGED <<heap, tasks, background, calls, listed, recovering, announced, stopping,
                     used, accepted, heirs, sent, faults, restarts>>
      /\ writing # None /\ ~writing.saved
  BY DEF Commit, memory, recovery, budget
<1>2. writing \in Write /\ c \in Conv /\ c \in used
  BY <1>1 DEF TypeOK, Write, Known
<1>3. /\ writing' \in Write /\ writing'.kind = "delete" /\ writing'.conv = c /\ writing'.saved
      /\ writing'.obj = writing.obj /\ writing'.row = writing.row
  BY <1>1, <1>2 DEF Write
<1>4. writing' # None
  BY <1>3, NoneAssumption
<1>5. rows'[c] = None /\ \A d \in Conv \ {c} : rows'[d] = rows[d]
  BY <1>1, <1>2 DEF TypeOK
<1>6. Objects' = Objects /\ Alive' = Alive
  BY <1>1 DEF Objects, Alive
<1> HIDE DEF c
<1>7. TypeOK'
  BY <1>1, <1>2, <1>3 DEF TypeOK
<1>8. Registered'
  BY <1>1, <1>6 DEF Registered, Placed
<1>9. Known'
  BY <1>1, <1>2, <1>3, <1>5, <1>6 DEF Known
<1>10. Buried'
  BY <1>1, <1>2, <1>3, <1>5 DEF Buried, TypeOK, c
<1>11. Locked'
  BY <1>1, <1>3 DEF Locked
<1>12. Stopping'
  BY <1>1, <1>3 DEF Stopping, NoRows
<1>13. Saved'
  BY <1>1, <1>3 DEF Saved
<1>14. Agreed'
  BY <1>1, <1>3, <1>5 DEF Agreed, Ahead, Over, Settled
<1>15. Prepared'
  BY <1>1, <1>3 DEF Prepared
<1>16. Listed'
  BY <1>1, <1>5 DEF Listed
<1>17. \A d \in Conv : Heir(d) => HeirNext(d)
  BY <1>1, <1>2, <1>5 DEF Heir, CarriesOn, HeirNext, TypeOK
<1>18. Marked'
  <2>1. recovering # None => recovering.heir \in Conv \cup {None} /\ recovering.conv \in Conv
    BY DEF TypeOK, Recovering
  <2>2. recovering' # None /\ recovering'.heir # None =>
          /\ heirs'[recovering'.heir] = recovering'.conv
          /\ IF recovering'.heir \in deleted' THEN rows'[recovering'.heir] = None
             ELSE rows'[recovering'.heir] # None /\ rows'[recovering'.heir].parent = recovering'.conv
    BY <1>1, <1>5, <2>1 DEF Marked, CarriesOn
  <2>3. \A d \in Conv : rows'[d] # None /\ rows'[d].mark = "recovered" => HeirNext(d)
    BY <1>5, <1>17 DEF Marked
  <2>4. \A o \in Objects' : heap'[o].row.mark = "recovered" => HeirNext(heap'[o].conv)
    <3>1. \A o \in Objects : heap[o].conv \in Conv
      BY DEF Objects, TypeOK, Object
    <3>2. QED
      BY <1>1, <1>6, <1>17, <3>1 DEF Marked
  <2>5. writing'.row = None
    BY <1>1, <1>3 DEF Locked, c
  <2>6. \A d \in Conv : rows'[d] # None => heirs'[d] = rows'[d].parent
    BY <1>1, <1>5 DEF Marked
  <2>7. QED
    BY <2>2, <2>3, <2>4, <2>5, <2>6 DEF Marked, Heir, CarriesOn, HeirNext
<1>19. QED
  BY <1>7, <1>8, <1>9, <1>10, <1>11, <1>12, <1>13, <1>14, <1>15, <1>16, <1>18

\* The late commit of a row whose conversation is deleted changes nothing.
LEMMA CommitFenced ==
    ASSUME IInv, Commit, writing.kind # "delete", writing.conv \in fence
    PROVE  IInv'
<1> USE DEF IInv
<1>1. /\ UNCHANGED <<rows, fence, deleted, heap, tasks, background, calls, listed, recovering, announced,
                     stopping, used, accepted, heirs, sent, faults, restarts>>
      /\ writing' = [writing EXCEPT !.saved = TRUE] /\ writing # None /\ writing.conv \in deleted
  BY DEF Commit, memory, recovery, budget, Known
<1>2. /\ writing' \in Write /\ writing'.kind = writing.kind /\ writing'.conv = writing.conv /\ writing'.saved
      /\ writing'.obj = writing.obj /\ writing'.row = writing.row
  BY <1>1 DEF TypeOK, Write
<1>3. writing' # None
  BY <1>2, NoneAssumption
<1>4. Objects' = Objects /\ Alive' = Alive
  BY <1>1 DEF Objects, Alive
<1>5. TypeOK'
  BY <1>1, <1>2 DEF TypeOK
<1>6. Registered' /\ Known' /\ Buried'
  BY <1>1, <1>2, <1>4 DEF Registered, Placed, Known, Buried
<1>7. Locked' /\ Stopping' /\ Saved'
  BY <1>1, <1>2, <1>3 DEF Locked, Stopping, NoRows, Saved
<1>8. Agreed' /\ Prepared'
  BY <1>1, <1>2, <1>3 DEF Agreed, Ahead, Over, Settled, Prepared
<1>9. Listed' /\ Marked'
  BY <1>1, <1>2, <1>3, <1>4 DEF Listed, Marked, Heir, CarriesOn
<1>10. QED
  BY <1>5, <1>6, <1>7, <1>8, <1>9

\* Any other commit puts the prepared row into the table.
LEMMA CommitWrites ==
    ASSUME IInv, Commit, writing.kind # "delete", writing.conv \notin fence
    PROVE  IInv'
<1> USE DEF IInv
<1> DEFINE c == writing.conv
<1>1. /\ rows' = [rows EXCEPT ![c] = writing.row] /\ writing' = [writing EXCEPT !.saved = TRUE]
      /\ heirs' = [heirs EXCEPT ![c] = writing.row.parent]
      /\ UNCHANGED <<fence, deleted, heap, tasks, background, calls, listed, recovering, announced, stopping,
                     used, accepted, sent, faults, restarts>>
      /\ writing # None /\ ~writing.saved
  BY DEF Commit, memory, recovery, budget
<1>2. writing \in Write /\ c \in Conv /\ c \in used /\ c \notin deleted
  BY <1>1 DEF TypeOK, Write, Known, Buried
<1>3. /\ writing' \in Write /\ writing'.kind = writing.kind /\ writing'.conv = c /\ writing'.saved
      /\ writing'.obj = writing.obj /\ writing'.row = writing.row
  BY <1>1, <1>2 DEF Write
<1>4. writing' # None
  BY <1>3, NoneAssumption
<1>5. writing.row # None /\ writing.row \in Row
  BY <1>1, <1>2 DEF Locked, Write
<1>6. /\ rows'[c] = writing.row /\ \A d \in Conv \ {c} : rows'[d] = rows[d]
      /\ heirs'[c] = writing.row.parent /\ \A d \in Conv \ {c} : heirs'[d] = heirs[d]
  BY <1>1, <1>2 DEF TypeOK
<1>7. Objects' = Objects /\ Alive' = Alive
  BY <1>1 DEF Objects, Alive
<1>8. /\ writing.kind \in {"run", "resume"} => background[c] = None
                      /\ (listed # None /\ tasks[c] = None => listed[c] = None)
                      /\ IF tasks[c] = None THEN rows[c] = None ELSE writing.row.turn > rows[c].turn
      /\ writing.kind = "resume" => tasks[c] = None
      /\ writing.kind \in {"steer", "emit", "mark"} => writing.obj # None
      /\ writing.kind = "rename" /\ writing.obj = None => rows[c] = writing.row
      /\ writing.kind \in {"steer", "emit", "rename", "mark"} /\ writing.obj # None =>
                      /\ tasks[c] = writing.obj
                      /\ writing.row.turn = rows[c].turn
                      /\ Over(rows[c]) => Over(writing.row)
                      /\ Over(writing.row) => Over(heap[tasks[c]].row)
                      /\ Settled(heap[tasks[c]]) => Over(writing.row)
      /\ accepted[c] \subseteq writing.row.said
      /\ rows[c] # None => writing.row.parent = rows[c].parent
  <2>1. writing.kind = "emit" => ~Settled(heap[writing.obj])
    BY <1>1 DEF Locked, Settled, Emits
  <2>2. /\ writing.obj # None => tasks[c] = writing.obj
        /\ writing.kind = "rename" /\ writing.obj = None => rows[c] = writing.row
        /\ writing.kind \in {"steer", "emit", "mark"} => writing.obj # None
    BY <1>1 DEF Locked
  <2>3. writing.kind \in {"steer", "emit", "rename", "mark"} /\ writing.obj # None =>
                      /\ writing.row.turn = rows[c].turn
                      /\ Over(rows[c]) => Over(writing.row)
                      /\ Over(writing.row) => Over(heap[tasks[c]].row)
                      /\ Settled(heap[tasks[c]]) => Over(writing.row)
    BY <1>1, <1>2, <1>5, <2>1, <2>2 DEF Prepared
  <2>4. /\ writing.kind \in {"run", "resume"} => background[c] = None
                      /\ (listed # None /\ tasks[c] = None => listed[c] = None)
                      /\ IF tasks[c] = None THEN rows[c] = None ELSE writing.row.turn > rows[c].turn
        /\ writing.kind = "resume" => tasks[c] = None
    BY <1>1, <1>2, <1>5 DEF Locked, Prepared
  <2>5. accepted[c] \subseteq writing.row.said /\ (rows[c] # None => writing.row.parent = rows[c].parent)
    BY <1>1, <1>2, <1>5 DEF Prepared
  <2>6. writing.kind \in {"steer", "emit", "rename", "mark"} /\ writing.obj # None =>
                      /\ tasks[c] = writing.obj
                      /\ writing.row.turn = rows[c].turn
                      /\ Over(rows[c]) => Over(writing.row)
                      /\ Over(writing.row) => Over(heap[tasks[c]].row)
                      /\ Settled(heap[tasks[c]]) => Over(writing.row)
    BY <2>2, <2>3
  <2> HIDE DEF c
  <2>7. QED
    BY <2>2, <2>4, <2>5, <2>6
<1> HIDE DEF c
<1>9. TypeOK'
  <2>1. writing.row.parent \in Conv \cup {None}
    BY <1>5 DEF Row
  <2>2. QED
    BY <1>1, <1>2, <1>3, <1>5, <2>1 DEF TypeOK
<1>10. Registered'
  BY <1>1, <1>7 DEF Registered, Placed
<1>11. Known'
  BY <1>1, <1>2, <1>3, <1>6, <1>7 DEF Known
<1>12. Buried'
  BY <1>1, <1>2, <1>3, <1>6 DEF Buried, TypeOK, c
<1>13. Locked'
  BY <1>1, <1>3 DEF Locked, c
<1>14. Stopping' /\ Saved'
  BY <1>1, <1>3, <1>6 DEF Stopping, NoRows, Saved
<1>15. Agreed'
  <2>1. SUFFICES ASSUME NEW d \in Conv \ deleted' PROVE AgreesNext(d)
    BY DEF Agreed, AgreesNext, Over, Settled
  <2>2. CASE d # c
    BY <1>1, <1>3, <1>6, <2>2 DEF Agreed, AgreesNext, Ahead, Over, Settled, c
  <2>3. CASE d = c
    <3>1. writing.kind \in {"run", "resume", "steer", "emit", "rename", "mark"}
      BY <1>2 DEF Write, Commit
    <3>2. Ahead(d)' <=> writing.kind = "run"
      BY <1>3, <1>4, <2>3 DEF Ahead
    <3>3. tasks[c] # None =>
              LET t == heap[tasks[c]] IN
              /\ rows[c] # None /\ accepted[c] \subseteq t.row.said
              /\ t.row.parent = rows[c].parent
              /\ rows[c].turn = t.row.turn
              /\ Over(rows[c]) => Over(t.row)
              /\ Settled(t) => Over(rows[c])
      BY <1>1, <1>2 DEF Agreed, Ahead
    <3>4. QED
      BY <1>1, <1>5, <1>6, <1>8, <2>3, <3>1, <3>2, <3>3 DEF AgreesNext, Over, Settled
  <2>4. QED
    BY <2>2, <2>3
<1>16. Prepared'
  BY <1>1, <1>2, <1>3, <1>6, <1>8 DEF Prepared, Over, Settled
<1>17. Listed'
  BY <1>1, <1>2, <1>6, <1>8 DEF Listed, Locked, Write
<1>18. \A d \in Conv : Heir(d) => HeirNext(d)
  BY <1>1, <1>2, <1>5, <1>6, <1>8 DEF Heir, CarriesOn, HeirNext, TypeOK
<1>19. Marked'
  <2>1. recovering # None => recovering.heir \in Conv \cup {None} /\ recovering.conv \in Conv
    BY DEF TypeOK, Recovering
  <2>2. recovering' # None /\ recovering'.heir # None =>
          /\ heirs'[recovering'.heir] = recovering'.conv
          /\ IF recovering'.heir \in deleted' THEN rows'[recovering'.heir] = None
             ELSE rows'[recovering'.heir] # None /\ rows'[recovering'.heir].parent = recovering'.conv
    <3>1. recovering' = recovering /\ deleted' = deleted
      BY <1>1
    <3>2. CASE recovering.heir = c
      <4>1. recovering # None /\ recovering.heir # None =>
               heirs[c] = recovering.conv /\ rows[c] # None /\ rows[c].parent = recovering.conv
        BY <1>2, <3>2 DEF Marked, CarriesOn
      <4>2. rows[c] # None => writing.row.parent = rows[c].parent
        BY <1>8
      <4>3. QED
        BY <1>1, <1>2, <1>5, <1>6, <3>1, <3>2, <4>1, <4>2
    <3>3. CASE recovering.heir # c
      BY <1>6, <2>1, <3>1, <3>3 DEF Marked, CarriesOn
    <3>4. QED
      BY <3>2, <3>3
  <2>3. \A d \in Conv : rows'[d] # None /\ rows'[d].mark = "recovered" => HeirNext(d)
    BY <1>1, <1>2, <1>5, <1>6, <1>18 DEF Marked, c
  <2>4. \A o \in Objects' : heap'[o].row.mark = "recovered" => HeirNext(heap'[o].conv)
    <3>1. \A o \in Objects : heap[o].conv \in Conv
      BY DEF Objects, TypeOK, Object
    <3>2. QED
      BY <1>1, <1>7, <1>18, <3>1 DEF Marked
  <2>5. writing'.row.mark = "recovered" => HeirNext(writing'.conv)
    BY <1>1, <1>2, <1>3, <1>5, <1>18 DEF Marked, c
  <2>6. \A d \in Conv : rows'[d] # None => heirs'[d] = rows'[d].parent
    BY <1>6 DEF Marked
  <2>7. QED
    BY <2>2, <2>3, <2>4, <2>5, <2>6 DEF Marked, Heir, CarriesOn, HeirNext
<1>20. QED
  BY <1>9, <1>10, <1>11, <1>12, <1>13, <1>14, <1>15, <1>16, <1>17, <1>19

\* Every commit keeps the invariant.
LEMMA CommitKeeps == ASSUME IInv, Commit PROVE IInv'
  BY CommitDeletes, CommitFenced, CommitWrites

\* What every publication leaves alone.
LEMMA PublishIs ==
    ASSUME IInv, Publish
    PROVE  /\ UNCHANGED <<rows, fence, calls, listed, stopping, used, deleted, heirs, sent, faults, restarts>>
           /\ writing # None /\ writing.saved /\ writing' = None /\ writing \in Write /\ writing.conv \in Conv
           /\ writing.conv \in used /\ announced' \subseteq Conv
           /\ writing.kind # "delete" => writing.row # None /\ writing.row \in Row
           /\ writing.kind # "delete" /\ writing.conv \notin deleted =>
                 rows[writing.conv] = writing.row /\ accepted[writing.conv] \subseteq writing.row.said
           /\ writing.kind \in {"steer", "emit", "mark"} => writing.obj # None
           /\ writing.obj # None =>
                 /\ writing.obj \in Objects /\ tasks[writing.conv] = writing.obj
                 /\ heap[writing.obj].conv = writing.conv /\ heap[writing.obj] \in Object
           /\ Locked' /\ Stopping' /\ Saved' /\ Prepared'
<1> USE DEF IInv
<1>1. /\ UNCHANGED <<rows, fence, calls, listed, stopping, used, deleted, heirs, sent, faults, restarts>>
      /\ writing # None /\ writing.saved /\ writing' = None
      /\ announced' \in {announced, announced \cup {writing.conv}, announced \ {writing.conv}}
  BY DEF Publish, budget
<1>2. /\ writing \in Write /\ writing.conv \in Conv /\ writing.conv \in used
      /\ writing.kind \in {"run", "resume", "steer", "emit", "rename", "mark", "delete"}
  BY <1>1 DEF TypeOK, Write, Known
<1>3. announced' \subseteq Conv
  BY <1>1, <1>2 DEF TypeOK
<1>4. writing.kind # "delete" => writing.row # None /\ writing.row \in Row
  BY <1>1, <1>2 DEF Locked, Write
<1>5. writing.kind # "delete" /\ writing.conv \notin deleted =>
         rows[writing.conv] = writing.row /\ accepted[writing.conv] \subseteq writing.row.said
  BY <1>1, <1>2, <1>4 DEF Saved, Known, Prepared
<1>6. writing.obj # None =>
                 /\ writing.obj \in Objects /\ tasks[writing.conv] = writing.obj
                 /\ heap[writing.obj].conv = writing.conv /\ heap[writing.obj] \in Object
  BY <1>1, <1>2 DEF Locked, Registered, Objects, TypeOK
<1>7. Locked' /\ Saved' /\ Prepared'
  BY <1>1 DEF Locked, Saved, Prepared
<1>8. Stopping'
  <2>1. recovering' = recovering \/ writing.kind \in {"resume", "mark"}
    BY <1>2 DEF Publish, PublishRun, PublishSteering, PublishEvent, PublishRename, PublishDeletion, PublishMark
  <2>2. QED
    BY <1>1, <2>1 DEF Stopping, NoRows
<1>9. writing.kind \in {"steer", "emit", "mark"} => writing.obj # None
  BY <1>1 DEF Locked
<1>10. QED
  BY <1>1, <1>2, <1>3, <1>4, <1>5, <1>6, <1>7, <1>8, <1>9

\* Only the ended object that nobody refers to is dropped.
LEMMA DroppedIs ==
    ASSUME TypeOK, NEW c \in Conv
    PROVE  /\ Dropped(c) \in [Obj -> Object \cup {None}]
           /\ \A o \in Obj : \/ Dropped(c)[o] = heap[o]
                             \/ /\ Dropped(c)[o] = None /\ tasks[c] = o /\ o \notin Alive
                                /\ \A call \in calls : call.obj # o
                                /\ recovering # None => recovering.obj # o
  BY DEF Dropped, TypeOK

\* A committed run gets its object and its worker; the ended one may be
\* dropped.
LEMMA PublishRunKeeps ==
    ASSUME IInv, Publish, writing.kind \in {"run", "resume"}
    PROVE  IInv'
<1> USE DEF IInv
<1> DEFINE c == writing.conv  n == NewObj  t == [Stored(c, writing.row) EXCEPT !.pc = "new"]
<1>1. /\ UNCHANGED <<rows, fence, calls, listed, stopping, used, deleted, heirs, sent, faults, restarts>>
      /\ writing # None /\ writing' = None /\ c \in Conv /\ c \in used /\ announced' \subseteq Conv
      /\ writing.row # None /\ writing.row \in Row /\ writing.kind \in {"run", "resume"}
      /\ c \notin deleted => rows[c] = writing.row /\ accepted[c] \subseteq writing.row.said
      /\ Locked' /\ Stopping' /\ Saved' /\ Prepared'
  BY PublishIs
<1>2. /\ heap' = [Dropped(c) EXCEPT ![n] = t]
      /\ tasks' = [tasks EXCEPT ![c] = n]
      /\ background' = [background EXCEPT ![c] = n]
      /\ accepted' = [accepted EXCEPT ![c] = @ \cup writing.row.said]
      /\ recovering' = IF writing.kind = "resume" THEN [recovering EXCEPT !.heir = c] ELSE recovering
      /\ Room
  BY <1>1 DEF Publish, PublishRun
<1>3. n \in Obj /\ n # None /\ heap[n] = None /\ n \notin Objects
  BY <1>2, NewObjIs, BoundAssumption
<1>4. /\ writing.row.status = "queued" /\ writing.row.mark = "none" /\ background[c] = None
      /\ writing.kind = "resume" => /\ recovering # None /\ c \notin deleted
                                    /\ writing.row.parent = recovering.conv
      /\ c \in deleted => c \in fence
  BY <1>1 DEF Locked, Buried
<1>5. t \in Object /\ t.conv = c /\ t.row = writing.row /\ t.pc = "new"
  <2>1. Stored(c, writing.row) \in Object /\ Stored(c, writing.row).conv = c
        /\ Stored(c, writing.row).row = writing.row
    BY <1>1 DEF Stored, Object, Place
  <2>2. "new" \in Place
    BY DEF Place, Live
  <2>3. QED
    BY <2>1, <2>2 DEF Object
<1>6. t # None /\ Placed(t) /\ t.pc \in Live /\ ~Settled(t)
  BY <1>4, <1>5, NoneAssumption DEF Placed, Live, Emits, Settled, Active
<1> HIDE DEF c, n, t
<1>7. /\ heap' \in [Obj -> Object \cup {None}] /\ tasks' \in [Conv -> Obj \cup {None}]
      /\ background' \in [Conv -> Obj \cup {None}]
      /\ heap'[n] = t
      /\ \A o \in Obj \ {n} : \/ heap'[o] = heap[o]
                              \/ /\ heap'[o] = None /\ tasks[c] = o /\ o \notin Alive
                                 /\ \A call \in calls : call.obj # o
                                 /\ recovering # None => recovering.obj # o
      /\ tasks'[c] = n /\ (\A d \in Conv \ {c} : tasks'[d] = tasks[d])
      /\ background'[c] = n /\ (\A d \in Conv \ {c} : background'[d] = background[d])
      /\ accepted' \in [Conv -> SUBSET Msg]
      /\ accepted'[c] = accepted[c] \cup writing.row.said /\ (\A d \in Conv \ {c} : accepted'[d] = accepted[d])
  <2>1. accepted \in [Conv -> SUBSET Msg] /\ writing.row.said \in SUBSET Msg
    BY <1>1 DEF TypeOK, Row
  <2>2. tasks \in [Conv -> Obj \cup {None}] /\ background \in [Conv -> Obj \cup {None}]
    BY DEF TypeOK
  <2>3. QED
    BY <1>1, <1>2, <1>3, <1>5, <2>1, <2>2, DroppedIs
<1>8. Objects' \subseteq Objects \cup {n} /\ Alive' = Alive \cup {n}
  BY <1>3, <1>6, <1>7 DEF Objects, Alive
<1>9. /\ recovering' \in Recovering \cup {None} /\ (recovering = None <=> recovering' = None)
      /\ recovering # None => /\ recovering'.conv = recovering.conv /\ recovering'.row = recovering.row
                              /\ recovering'.obj = recovering.obj
                              /\ \/ recovering'.heir = recovering.heir
                                 \/ /\ recovering'.heir = c /\ writing.row.parent = recovering.conv
                                    /\ c \notin deleted
  <2>1. recovering # None => recovering \in Recovering
    BY DEF TypeOK
  <2>2. CASE writing.kind = "resume"
    <3>1. recovering # None /\ recovering' = [recovering EXCEPT !.heir = c] /\ writing.row.parent = recovering.conv
          /\ c \notin deleted
      BY <1>2, <1>4, <2>2
    <3>2. recovering' \in Recovering
      BY <1>1, <2>1, <3>1 DEF Recovering
    <3>3. QED
      BY <2>1, <3>1, <3>2, NoneAssumption DEF Recovering
  <2>3. CASE writing.kind # "resume"
    BY <1>2, <2>1, <2>3
  <2>4. QED
    BY <2>2, <2>3
<1>10. TypeOK'
  BY <1>1, <1>7, <1>9 DEF TypeOK
<1>11. Registered'
  <2>1. \A d \in Conv : tasks'[d] # None => heap'[tasks'[d]] # None /\ heap'[tasks'[d]].conv = d
    BY <1>5, <1>6, <1>7, <1>3 DEF Registered, TypeOK
  <2>2. \A d \in Conv : background'[d] # None => background'[d] \in Alive' /\ heap'[background'[d]].conv = d
    BY <1>3, <1>5, <1>7, <1>8 DEF Registered, Alive, Objects
  <2>3. \A o \in Alive' : background'[heap'[o].conv] = o
    <3>1. \A o \in Alive : o \in Obj /\ o # n /\ heap'[o] = heap[o] /\ heap[o].conv # c /\ heap[o].conv \in Conv
      BY <1>3, <1>4, <1>7, AliveIs, BoundAssumption DEF Registered, Alive
    <3>2. QED
      BY <1>5, <1>7, <1>8, <3>1 DEF Registered
  <2>4. \A d \in Conv \ deleted' : background'[d] # None => tasks'[d] = background'[d]
    BY <1>1, <1>7 DEF Registered
  <2>5. \A call \in calls' : call.op = "continue" => heap'[call.obj] # None /\ heap'[call.obj].conv = call.conv
    BY <1>1, <1>3, <1>7 DEF Registered, TypeOK, Call
  <2>6. \A o \in Objects' : Placed(heap'[o])
    BY <1>6, <1>7, <1>8 DEF Registered, Objects
  <2>7. QED
    BY <2>1, <2>2, <2>3, <2>4, <2>5, <2>6 DEF Registered, Placed
<1>12. Known'
  <2>1. \A d \in Conv \ used' : rows'[d] = None /\ tasks'[d] = None /\ accepted'[d] = {}
    BY <1>1, <1>7 DEF Known
  <2>2. \A o \in Objects' : heap'[o].conv \in used'
    BY <1>1, <1>5, <1>7, <1>8 DEF Known, Objects
  <2>3. QED
    BY <1>1, <1>9, <2>1, <2>2 DEF Known
<1>13. Buried'
  BY <1>1, <1>4, <1>7, <1>9 DEF Buried, TypeOK
<1>14. Agreed'
  <2>1. SUFFICES ASSUME NEW d \in Conv \ deleted' PROVE AgreesNext(d)
    BY DEF Agreed, AgreesNext, Over, Settled
  <2>2. ~Ahead(d)'
    BY <1>1 DEF Ahead
  <2>3. CASE d = c
    BY <1>1, <1>4, <1>5, <1>6, <1>7, <2>2, <2>3 DEF AgreesNext, Over, Terminal
  <2>4. CASE d # c
    <3>1. ~Ahead(d) /\ accepted'[d] = accepted[d] /\ tasks'[d] = tasks[d] /\ rows'[d] = rows[d]
      BY <1>1, <1>7, <2>4 DEF Ahead, c
    <3>2. tasks[d] # None => heap'[tasks[d]] = heap[tasks[d]]
      BY <1>3, <1>7, <2>4 DEF Registered, TypeOK
    <3>3. QED
      BY <1>1, <2>2, <3>1, <3>2 DEF Agreed, AgreesNext
  <2>5. QED
    BY <2>3, <2>4
<1>15. Listed'
  <2>1. listed' # None => \A d \in Conv : listed'[d] # None =>
          /\ listed'[d].status = "failed" /\ listed'[d].mark = "interrupted"
          /\ d \notin deleted' /\ tasks'[d] = None => listed'[d] = rows'[d]
    BY <1>1, <1>3, <1>7 DEF Listed
  <2>2. recovering # None => recovering \in Recovering
    BY DEF TypeOK
  <2>3. recovering # None /\ recovering.obj # None =>
           recovering.obj \in Obj \ {n} /\ heap'[recovering.obj] = heap[recovering.obj]
    BY <1>3, <1>7, <2>2 DEF Listed, Recovering
  <2>4. recovering' # None =>
          /\ recovering'.row.status = "failed" /\ recovering'.row.mark = "interrupted"
          /\ recovering'.obj # None =>
                /\ heap'[recovering'.obj] # None /\ heap'[recovering'.obj].pc = "none"
                /\ heap'[recovering'.obj].conv = recovering'.conv
                /\ recovering'.conv \notin deleted' => heap'[recovering'.obj].row = recovering'.row
    BY <1>1, <1>9, <2>3 DEF Listed
  <2>5. QED
    BY <2>1, <2>4 DEF Listed
<1>16. Marked'
  <2>1. \A d : Heir(d) => Heir(d)'
    BY <1>1 DEF Heir, CarriesOn
  <2>2. \A d \in Conv : Heir(d) => HeirNext(d)
    BY <1>1 DEF Heir, CarriesOn, HeirNext
  <2>3. recovering' # None /\ recovering'.heir # None =>
          /\ heirs'[recovering'.heir] = recovering'.conv
          /\ IF recovering'.heir \in deleted' THEN rows'[recovering'.heir] = None
             ELSE rows'[recovering'.heir] # None /\ rows'[recovering'.heir].parent = recovering'.conv
    BY <1>1, <1>9 DEF Marked, CarriesOn
  <2>4. \A o \in Objects' : heap'[o].row.mark = "recovered" => HeirNext(heap'[o].conv)
    <3>1. \A o \in Objects : heap[o].conv \in Conv
      BY DEF Objects, TypeOK, Object
    <3>2. QED
      BY <1>4, <1>5, <1>7, <1>8, <2>2, <3>1 DEF Marked, Objects
  <2>5. \A d \in Conv : rows'[d] # None /\ rows'[d].mark = "recovered" => HeirNext(d)
    BY <1>1, <2>2 DEF Marked
  <2>6. QED
    BY <1>1, <2>3, <2>4, <2>5 DEF Marked, Heir, CarriesOn, HeirNext
<1>17. QED
  BY <1>1, <1>10, <1>11, <1>12, <1>13, <1>14, <1>15, <1>16

\* A committed follow-up reaches the queue and the instructions, and nothing
\* else of the object, whose status may be newer.
LEMMA PublishSteeringKeeps ==
    ASSUME IInv, Publish, writing.kind = "steer"
    PROVE  IInv'
<1> USE DEF IInv
<1> DEFINE c == writing.conv  o == writing.obj  t == heap[o]
           q == t.queue \cup (writing.row.said \ t.row.said)
           u == [[t EXCEPT !.queue = q] EXCEPT !.row.said = writing.row.said]
<1>1. /\ UNCHANGED <<rows, fence, calls, listed, stopping, used, deleted, heirs, sent, faults, restarts>>
      /\ writing # None /\ writing' = None /\ c \in Conv /\ c \in used /\ announced' \subseteq Conv
      /\ writing.row # None /\ writing.row \in Row
      /\ c \notin deleted => rows[c] = writing.row /\ accepted[c] \subseteq writing.row.said
      /\ o \in Objects /\ tasks[c] = o /\ t.conv = c /\ t \in Object
      /\ Locked' /\ Stopping' /\ Saved' /\ Prepared'
  BY PublishIs
<1>2. /\ accepted' = [accepted EXCEPT ![c] = writing.row.said]
      /\ UNCHANGED <<tasks, background, recovering>>
  BY <1>1 DEF Publish, PublishSteering
<1>3. writing.row.said \in SUBSET Msg /\ t.row \in Row /\ t.queue \in SUBSET Msg
  BY <1>1 DEF Row, Object
<1>4. /\ u \in Object /\ u.conv = c /\ u.pc = t.pc /\ u.row.turn = t.row.turn /\ u.row.status = t.row.status
      /\ u.row.parent = t.row.parent /\ u.row.mark = t.row.mark /\ u.row.said = writing.row.said
  <2> DEFINE v == [t EXCEPT !.queue = q]
  <2>1. v \in Object /\ v.conv = t.conv /\ v.pc = t.pc /\ v.row = t.row
    BY <1>1, <1>3 DEF Object
  <2>2. u = [v EXCEPT !.row.said = writing.row.said]
    OBVIOUS
  <2> HIDE DEF v, u
  <2>3. QED
    BY <1>1, <1>3, <2>1, <2>2 DEF Object, Row
<1>5. u # None /\ o \in Obj /\ t # None
  BY <1>1, <1>4, NoneAssumption DEF Objects
<1>6. heap' = [heap EXCEPT ![o] = u]
  <2>1. heap' = [heap EXCEPT ![o].queue = q, ![o].row.said = writing.row.said]
    BY <1>1 DEF Publish, PublishSteering
  <2>2. QED
    BY <1>5, <2>1 DEF TypeOK
<1> HIDE DEF c, o, t, q, u
<1>7. /\ heap' \in [Obj -> Object \cup {None}] /\ heap'[o] = u /\ (\A p \in Obj \ {o} : heap'[p] = heap[p])
      /\ accepted' \in [Conv -> SUBSET Msg]
      /\ accepted'[c] = writing.row.said /\ (\A d \in Conv \ {c} : accepted'[d] = accepted[d])
  <2>1. heap \in [Obj -> Object \cup {None}] /\ accepted \in [Conv -> SUBSET Msg]
    BY DEF TypeOK
  <2>2. QED
    BY <1>1, <1>2, <1>3, <1>4, <1>5, <1>6, <2>1
<1>8. Objects' = Objects /\ Alive' = Alive
  BY <1>4, <1>5, <1>7 DEF Objects, Alive, t
<1>9. TypeOK'
  BY <1>1, <1>2, <1>7 DEF TypeOK
<1>10. Registered'
  <2>1. Placed(u)
    BY <1>1, <1>4 DEF Registered, Placed, t
  <2>2. \A p \in Objects : heap'[p] # None /\ heap'[p].conv = heap[p].conv /\ Placed(heap'[p])
    BY <1>1, <1>4, <1>5, <1>7, <2>1 DEF Registered, Objects, t
  <2>3. /\ \A d \in Conv : tasks[d] # None => tasks[d] \in Objects /\ heap[tasks[d]].conv = d
        /\ \A d \in Conv : background[d] # None => background[d] \in Objects /\ heap[background[d]].conv = d
        /\ \A call \in calls : call.op = "continue" => call.obj \in Objects
    BY DEF Registered, TypeOK, Call, Objects, Alive
  <2>4. \A p \in Alive : p \in Objects
    BY DEF Alive
  <2>5. QED
    BY <1>1, <1>2, <1>8, <2>2, <2>3, <2>4 DEF Registered, Placed
<1>11. Known'
  <2>1. \A p \in Objects : heap'[p].conv \in used
    BY <1>1, <1>4, <1>7 DEF Known, Objects
  <2>2. \A d \in Conv \ used : accepted'[d] = {}
    BY <1>1, <1>7 DEF Known
  <2>3. QED
    BY <1>1, <1>2, <1>8, <2>1, <2>2 DEF Known
<1>12. Buried'
  BY <1>1, <1>2 DEF Buried
<1>13. Agreed'
  <2>1. SUFFICES ASSUME NEW d \in Conv \ deleted' PROVE AgreesNext(d)
    BY DEF Agreed, AgreesNext, Over, Settled
  <2>2. ~Ahead(d)' /\ ~Ahead(d)
    BY <1>1 DEF Ahead
  <2>3. CASE d = c
    BY <1>1, <1>2, <1>4, <1>7, <2>1, <2>2, <2>3 DEF Agreed, AgreesNext, Over, Settled, t
  <2>4. CASE d # c
    <3>1. tasks[d] # None => heap'[tasks[d]] = heap[tasks[d]]
      BY <1>1, <1>7, <2>4 DEF Registered, TypeOK, t
    <3>2. QED
      BY <1>1, <1>2, <1>7, <2>1, <2>2, <2>4, <3>1 DEF Agreed, AgreesNext
  <2>5. QED
    BY <2>3, <2>4
<1>14. Listed'
  <2>1. recovering # None => recovering \in Recovering
    BY DEF TypeOK
  <2>2. c \notin deleted => t.pc # "none"
    BY <1>1 DEF Locked, c, o, t
  <2>3. recovering # None /\ recovering.obj # None => recovering.obj \in Obj
    BY <2>1 DEF Recovering
  <2>4. recovering # None /\ recovering.obj # None =>
                /\ heap'[recovering.obj] # None /\ heap'[recovering.obj].pc = "none"
                /\ heap'[recovering.obj].conv = recovering.conv
                /\ recovering.conv \notin deleted => heap'[recovering.obj].row = recovering.row
    BY <1>1, <1>4, <1>5, <1>7, <2>2, <2>3 DEF Listed, t
  <2>5. QED
    BY <1>1, <1>2, <2>4 DEF Listed
<1>15. Marked'
  <2>1. \A d \in Conv : Heir(d) => HeirNext(d)
    BY <1>1 DEF Heir, CarriesOn, HeirNext
  <2>2. \A p \in Objects : heap'[p].row.mark = "recovered" => HeirNext(heap'[p].conv)
    BY <1>1, <1>4, <1>7, <2>1 DEF Marked, Objects, TypeOK, Object, t
  <2>3. QED
    BY <1>1, <1>2, <1>8, <2>1, <2>2 DEF Marked, Heir, CarriesOn, HeirNext
<1>16. QED
  BY <1>1, <1>9, <1>10, <1>11, <1>12, <1>13, <1>14, <1>15

\* A committed mark reaches the object.
LEMMA PublishMarkKeeps ==
    ASSUME IInv, Publish, writing.kind = "mark"
    PROVE  IInv'
<1> USE DEF IInv
<1> DEFINE c == writing.conv  o == writing.obj  t == heap[o]  u == [t EXCEPT !.row.mark = "recovered"]
<1>1. /\ UNCHANGED <<rows, fence, calls, listed, stopping, used, deleted, heirs, sent, faults, restarts>>
      /\ writing # None /\ writing' = None /\ c \in Conv /\ c \in used /\ announced' \subseteq Conv
      /\ writing.row # None /\ writing.row \in Row
      /\ o \in Objects /\ tasks[c] = o /\ t.conv = c /\ t \in Object
      /\ Locked' /\ Stopping' /\ Saved' /\ Prepared'
  BY PublishIs
<1>2. /\ heap' = [heap EXCEPT ![o].row.mark = "recovered"]
      /\ recovering' = None /\ UNCHANGED <<tasks, background, accepted>>
  BY <1>1 DEF Publish, PublishMark
<1>3. t.row \in Row
  BY <1>1 DEF Object
<1>4. /\ u \in Object /\ u.conv = c /\ u.pc = t.pc /\ u.row.turn = t.row.turn /\ u.row.status = t.row.status
      /\ u.row.parent = t.row.parent /\ u.row.said = t.row.said
  BY <1>1, <1>3 DEF Object, Row
<1>5. u # None /\ o \in Obj /\ t # None
  BY <1>1, <1>4, NoneAssumption DEF Objects
<1>6. heap' = [heap EXCEPT ![o] = u]
  BY <1>2, <1>5 DEF TypeOK
<1>7. Heir(c)
  <2>1. recovering # None /\ writing.row = [recovering.row EXCEPT !.mark = "recovered"]
    BY <1>1 DEF Locked
  <2>2. recovering.row \in Row
    BY <2>1 DEF TypeOK, Recovering
  <2>3. writing.row.mark = "recovered"
    BY <2>1, <2>2 DEF Row
  <2>4. QED
    BY <1>1, <2>3 DEF Marked
<1> HIDE DEF c, o, t, u
<1>8. /\ heap' \in [Obj -> Object \cup {None}] /\ heap'[o] = u /\ (\A p \in Obj \ {o} : heap'[p] = heap[p])
  BY <1>1, <1>4, <1>5, <1>6 DEF TypeOK
<1>9. Objects' = Objects /\ Alive' = Alive
  BY <1>4, <1>5, <1>8 DEF Objects, Alive, t
<1>10. TypeOK'
  BY <1>1, <1>2, <1>8 DEF TypeOK
<1>11. Registered'
  <2>1. Placed(u)
    BY <1>1, <1>4 DEF Registered, Placed, t
  <2>2. \A p \in Objects : heap'[p] # None /\ heap'[p].conv = heap[p].conv /\ Placed(heap'[p])
    BY <1>1, <1>4, <1>5, <1>8, <2>1 DEF Registered, Objects, t
  <2>3. /\ \A d \in Conv : tasks[d] # None => tasks[d] \in Objects /\ heap[tasks[d]].conv = d
        /\ \A d \in Conv : background[d] # None => background[d] \in Objects /\ heap[background[d]].conv = d
        /\ \A call \in calls : call.op = "continue" => call.obj \in Objects
    BY DEF Registered, TypeOK, Call, Objects, Alive
  <2>4. \A p \in Alive : p \in Objects
    BY DEF Alive
  <2>5. QED
    BY <1>1, <1>2, <1>9, <2>2, <2>3, <2>4 DEF Registered, Placed
<1>12. Known'
  <2>1. \A p \in Objects : heap'[p].conv \in used
    BY <1>1, <1>4, <1>8 DEF Known, Objects
  <2>2. QED
    BY <1>1, <1>2, <1>9, <2>1 DEF Known
<1>13. Buried'
  BY <1>1, <1>2 DEF Buried
<1>14. Agreed'
  <2>1. SUFFICES ASSUME NEW d \in Conv \ deleted' PROVE AgreesNext(d)
    BY DEF Agreed, AgreesNext, Over, Settled
  <2>2. ~Ahead(d)' /\ ~Ahead(d)
    BY <1>1 DEF Ahead
  <2>3. tasks[d] # None => /\ heap'[tasks[d]].row.said = heap[tasks[d]].row.said
                           /\ heap'[tasks[d]].row.parent = heap[tasks[d]].row.parent
                           /\ heap'[tasks[d]].row.turn = heap[tasks[d]].row.turn
                           /\ heap'[tasks[d]].row.status = heap[tasks[d]].row.status
                           /\ heap'[tasks[d]].pc = heap[tasks[d]].pc
    BY <1>1, <1>4, <1>8 DEF TypeOK, t
  <2>4. QED
    BY <1>1, <1>2, <2>1, <2>2, <2>3 DEF Agreed, AgreesNext, Over, Settled
<1>15. Listed'
  BY <1>1, <1>2 DEF Listed
<1>16. Marked'
  <2>1. \A d \in Conv : Heir(d) => HeirNext(d)
    BY <1>1 DEF Heir, CarriesOn, HeirNext
  <2>2. \A p \in Objects : heap'[p].row.mark = "recovered" => HeirNext(heap'[p].conv)
    BY <1>1, <1>4, <1>7, <1>8, <2>1 DEF Marked, Objects, TypeOK, Object
  <2>3. QED
    BY <1>1, <1>2, <1>9, <2>1, <2>2 DEF Marked, Heir, CarriesOn, HeirNext
<1>17. QED
  BY <1>1, <1>10, <1>11, <1>12, <1>13, <1>14, <1>15, <1>16

\* A worker goes on after its event was written, or was not.
EmitEnds(o, u) ==
    /\ Turned(o, u)
    /\ writing # None /\ writing.kind = "emit" /\ writing.obj = o /\ writing' = None
    /\ UNCHANGED <<rows, fence, tasks, calls, listed, recovering, stopping, used, deleted, accepted, heirs, sent, restarts>>
    /\ announced' \subseteq Conv /\ faults' \in 0 .. MaxFaults
    /\ writing.conv \notin deleted /\ Settled(u) => Over(rows[writing.conv])

\* The end of an event keeps the invariant; an outcome settles only if the
\* table says so.
LEMMA EmitEndsKeeps ==
    ASSUME IInv, NEW o \in Obj, NEW u \in Object, EmitEnds(o, u)
    PROVE  IInv'
<1> USE DEF IInv
<1>1. /\ UNCHANGED <<rows, fence, tasks, calls, listed, recovering, stopping, used, deleted, accepted, heirs, sent, restarts>>
      /\ writing # None /\ writing.kind = "emit" /\ writing.obj = o /\ writing' = None
      /\ announced' \subseteq Conv /\ faults' \in 0 .. MaxFaults
      /\ writing.conv \notin deleted /\ Settled(u) => Over(rows[writing.conv])
      /\ Turned(o, u)
  BY DEF EmitEnds
<1>2. /\ heap' \in [Obj -> Object \cup {None}] /\ background' \in [Conv -> Obj \cup {None}]
      /\ heap'[o] = u /\ \A p \in Obj \ {o} : heap'[p] = heap[p]
      /\ u # None /\ u.conv = heap[o].conv /\ Alike(u.row, heap[o].row)
      /\ Objects' = Objects /\ Alive' \subseteq Alive
      /\ heap[o] # None /\ heap[o].pc \in Live /\ o \in Alive /\ u.pc # "none" /\ (Over(heap[o].row) => Over(u.row))
  BY <1>1, TurnedIs DEF Turned, Alive, Objects
<1>3. writing \in Write /\ writing.conv \in Conv /\ tasks[writing.conv] = o /\ heap[o].conv = writing.conv
  BY <1>1 DEF TypeOK, Write, Locked, Registered
<1>4. TypeOK'
  BY <1>1, <1>2 DEF TypeOK
<1>5. Registered'
  BY <1>1, TurnedRegistered
<1>6. Known'
  BY <1>1, <1>2 DEF Known, Objects
<1>7. \A c \in Conv : background[c] = None => background'[c] = None
  BY <1>1 DEF Turned
<1>8. Buried'
  BY <1>1, <1>7 DEF Buried, TypeOK
<1>9. Locked' /\ Stopping' /\ Saved' /\ Prepared'
  BY <1>1 DEF Locked, Stopping, NoRows, Saved, Prepared
<1>10. Agreed'
  <2>1. SUFFICES ASSUME NEW d \in Conv \ deleted' PROVE AgreesNext(d)
    BY DEF Agreed, AgreesNext, Over, Settled
  <2>2. ~Ahead(d)' /\ ~Ahead(d)
    BY <1>1 DEF Ahead
  <2>3. CASE d = writing.conv
    BY <1>1, <1>2, <1>3, <2>1, <2>2, <2>3 DEF Agreed, AgreesNext, Alike
  <2>4. CASE d # writing.conv
    <3>1. tasks[d] # None => heap'[tasks[d]] = heap[tasks[d]]
      BY <1>2, <1>3, <2>4 DEF Registered, TypeOK
    <3>2. QED
      BY <1>1, <2>1, <2>2, <3>1 DEF Agreed, AgreesNext
  <2>5. QED
    BY <2>3, <2>4
<1>11. recovering # None /\ recovering.obj # None => recovering.obj \in Obj /\ heap[recovering.obj].pc = "none"
  BY DEF TypeOK, Recovering, Listed
<1>12. Listed'
  BY <1>1, <1>2, <1>11 DEF Listed, Live, Emits
<1>13. Marked'
  BY <1>1, <1>2 DEF Marked, Heir, CarriesOn, Alike, Objects
<1>14. QED
  BY <1>4, <1>5, <1>6, <1>8, <1>9, <1>10, <1>12, <1>13

\* A committed event lets its worker go on.
LEMMA PublishEventKeeps ==
    ASSUME IInv, Publish, writing.kind = "emit"
    PROVE  IInv'
<1> USE DEF IInv
<1> DEFINE o == writing.obj  t == IF heap[o].hit THEN heap[o] ELSE Emitted(heap[o])
<1>1. /\ UNCHANGED <<rows, fence, calls, listed, stopping, used, deleted, heirs, sent, faults, restarts>>
      /\ writing # None /\ writing' = None /\ writing.saved /\ announced' \subseteq Conv
      /\ writing.conv \notin deleted => rows[writing.conv] = writing.row
      /\ o \in Objects /\ heap[o] \in Object /\ heap[o].pc \in Emits /\ writing.row = heap[o].row
  BY PublishIs DEF Locked
<1>2. Become(o, t) /\ UNCHANGED <<tasks, accepted, recovering>>
  BY <1>1 DEF Publish, PublishEvent
<1>3. o \in Alive /\ o \in Obj /\ Placed(heap[o]) /\ heap[o].pc # "none"
  BY <1>1 DEF Alive, Objects, Live, Emits, Registered
<1>4. /\ Follows(heap[o], t) /\ Placed(t) /\ t.pc # "none"
      /\ Over(heap[o].row) => Over(t.row)
      /\ Settled(t) => Over(heap[o].row)
  <2>1. CASE heap[o].hit
    BY <1>1, <1>3, <2>1 DEF Follows, Alike, Settled, Emits
  <2>2. CASE ~heap[o].hit
    BY <1>1, <1>3, <2>2, EmittedPlaced
  <2>3. QED
    BY <2>1, <2>2
<1> HIDE DEF o, t
<1>5. PICK u \in Object : Turned(o, u) /\ u.pc = t.pc /\ u.row = t.row
  BY <1>2, <1>3, <1>4, BecomeIs
<1>6. EmitEnds(o, u)
  BY <1>1, <1>2, <1>4, <1>5 DEF EmitEnds, Settled, TypeOK, o
<1>7. QED
  BY <1>3, <1>6, EmitEndsKeeps

\* The title of a cached conversation changes nothing of this model.
LEMMA PublishTitleKeeps ==
    ASSUME IInv, Publish, writing.kind = "rename", writing.obj # None
    PROVE  IInv'
<1> USE DEF IInv
<1>1. /\ UNCHANGED <<rows, fence, calls, listed, stopping, used, deleted, heirs, sent, faults, restarts>>
      /\ writing # None /\ writing' = None /\ announced' \subseteq Conv
      /\ Locked' /\ Stopping' /\ Saved' /\ Prepared'
  BY PublishIs
<1>2. UNCHANGED <<heap, tasks, background, accepted, recovering>>
  BY DEF Publish, PublishRename, memory
<1>3. Objects' = Objects /\ Alive' = Alive
  BY <1>2 DEF Objects, Alive
<1>4. TypeOK' /\ Registered' /\ Known'
  BY <1>1, <1>2, <1>3 DEF TypeOK, Registered, Placed, Known
<1>5. Buried' /\ Listed' /\ Marked'
  BY <1>1, <1>2, <1>3 DEF Buried, Listed, Marked, Heir, CarriesOn
<1>6. Agreed'
  BY <1>1, <1>2 DEF Agreed, Ahead, Over, Settled
<1>7. QED
  BY <1>1, <1>4, <1>5, <1>6

\* That of another one brings it into the cache, as the table has it.
LEMMA PublishCachedKeeps ==
    ASSUME IInv, Publish, writing.kind = "rename", writing.obj = None
    PROVE  IInv'
<1> USE DEF IInv
<1> DEFINE c == writing.conv  n == NewObj  t == Stored(c, writing.row)
<1>1. /\ UNCHANGED <<rows, fence, calls, listed, stopping, used, deleted, heirs, sent, faults, restarts>>
      /\ writing # None /\ writing' = None /\ c \in Conv /\ c \in used /\ announced' \subseteq Conv
      /\ writing.row # None /\ writing.row \in Row /\ writing.kind = "rename"
      /\ accepted[c] \subseteq writing.row.said
      /\ rows[c] = writing.row /\ c \notin deleted /\ background[c] = None
      /\ Locked' /\ Stopping' /\ Saved' /\ Prepared'
  BY PublishIs DEF Locked
<1>2. /\ heap' = [Dropped(c) EXCEPT ![n] = t]
      /\ tasks' = [tasks EXCEPT ![c] = n]
      /\ UNCHANGED <<background, accepted, recovering>>
      /\ Room
  BY <1>1 DEF Publish, PublishRename
<1>3. n \in Obj /\ n # None /\ heap[n] = None /\ n \notin Objects
  BY <1>2, NewObjIs, BoundAssumption
<1>4. t \in Object /\ t.conv = c /\ t.row = writing.row /\ t.pc = "none"
  BY <1>1 DEF Stored, Object, Place
<1>5. t # None /\ Placed(t) /\ t.pc \notin Live /\ ~Settled(t)
  BY <1>4, NoneAssumption DEF Placed, Live, Emits, Settled
<1> HIDE DEF c, n, t
<1>6. /\ heap' \in [Obj -> Object \cup {None}] /\ tasks' \in [Conv -> Obj \cup {None}]
      /\ heap'[n] = t
      /\ \A o \in Obj \ {n} : \/ heap'[o] = heap[o]
                              \/ /\ heap'[o] = None /\ tasks[c] = o /\ o \notin Alive
                                 /\ \A call \in calls : call.obj # o
                                 /\ recovering # None => recovering.obj # o
      /\ tasks'[c] = n /\ (\A d \in Conv \ {c} : tasks'[d] = tasks[d])
  <2>1. tasks \in [Conv -> Obj \cup {None}]
    BY DEF TypeOK
  <2>2. QED
    BY <1>1, <1>2, <1>3, <1>4, <2>1, DroppedIs
<1>7. Objects' \subseteq Objects \cup {n} /\ Alive' = Alive
  BY <1>3, <1>5, <1>6 DEF Objects, Alive
<1>8. TypeOK'
  BY <1>1, <1>2, <1>6 DEF TypeOK
<1>9. Registered'
  <2>1. \A d \in Conv : tasks'[d] # None => heap'[tasks'[d]] # None /\ heap'[tasks'[d]].conv = d
    BY <1>3, <1>4, <1>5, <1>6 DEF Registered, TypeOK
  <2>2. \A o \in Alive : o \in Obj /\ o # n /\ heap'[o] = heap[o] /\ heap[o].conv \in Conv
    BY <1>3, <1>6, AliveIs DEF Alive
  <2>3. \A d \in Conv : background[d] # None => background[d] \in Alive' /\ heap'[background[d]].conv = d
    BY <1>7, <2>2 DEF Registered
  <2>4. \A o \in Alive' : background[heap'[o].conv] = o
    BY <1>7, <2>2 DEF Registered
  <2>5. \A d \in Conv \ deleted : background[d] # None => tasks'[d] = background[d]
    BY <1>1, <1>6 DEF Registered
  <2>6. \A call \in calls : call.op = "continue" => heap'[call.obj] # None /\ heap'[call.obj].conv = call.conv
    BY <1>3, <1>6 DEF Registered, TypeOK, Call
  <2>7. \A o \in Objects' : Placed(heap'[o])
    BY <1>5, <1>6, <1>7 DEF Registered, Objects
  <2>8. QED
    BY <1>1, <1>2, <2>1, <2>3, <2>4, <2>5, <2>6, <2>7 DEF Registered, Placed
<1>10. Known'
  <2>1. \A o \in Objects' : heap'[o].conv \in used'
    BY <1>1, <1>4, <1>6, <1>7 DEF Known, Objects
  <2>2. QED
    BY <1>1, <1>2, <1>6, <2>1 DEF Known
<1>11. Buried'
  BY <1>1, <1>2, <1>6 DEF Buried, TypeOK
<1>12. Agreed'
  <2>1. SUFFICES ASSUME NEW d \in Conv \ deleted' PROVE AgreesNext(d)
    BY DEF Agreed, AgreesNext, Over, Settled
  <2>2. ~Ahead(d)'
    BY <1>1 DEF Ahead
  <2>3. CASE d = c
    BY <1>1, <1>2, <1>4, <1>5, <1>6, <2>2, <2>3 DEF AgreesNext, Over
  <2>4. CASE d # c
    <3>1. ~Ahead(d) /\ accepted'[d] = accepted[d] /\ tasks'[d] = tasks[d] /\ rows'[d] = rows[d]
      BY <1>1, <1>2, <1>6, <2>4 DEF Ahead, c
    <3>2. tasks[d] # None => heap'[tasks[d]] = heap[tasks[d]]
      BY <1>3, <1>6, <2>4 DEF Registered, TypeOK
    <3>3. QED
      BY <1>1, <2>2, <3>1, <3>2 DEF Agreed, AgreesNext
  <2>5. QED
    BY <2>3, <2>4
<1>13. Listed'
  <2>1. recovering # None => recovering \in Recovering
    BY DEF TypeOK
  <2>2. recovering # None /\ recovering.obj # None =>
           recovering.obj \in Obj \ {n} /\ heap'[recovering.obj] = heap[recovering.obj]
    BY <1>3, <1>6, <2>1 DEF Listed, Recovering
  <2>3. \A d \in Conv : tasks'[d] = None => tasks[d] = None
    BY <1>3, <1>6
  <2>4. QED
    BY <1>1, <1>2, <2>2, <2>3 DEF Listed
<1>14. Marked'
  <2>1. \A d \in Conv : Heir(d) => HeirNext(d)
    BY <1>1 DEF Heir, CarriesOn, HeirNext
  <2>2. \A o \in Objects' : heap'[o].row.mark = "recovered" => HeirNext(heap'[o].conv)
    <3>1. \A o \in Objects : heap[o].conv \in Conv
      BY DEF Objects, TypeOK, Object
    <3>2. QED
      BY <1>1, <1>4, <1>6, <1>7, <2>1, <3>1 DEF Marked, Objects
  <2>3. QED
    BY <1>1, <1>2, <2>1, <2>2 DEF Marked, Heir, CarriesOn, HeirNext
<1>15. QED
  BY <1>1, <1>8, <1>9, <1>10, <1>11, <1>12, <1>13, <1>14

\* A committed deletion unregisters the object.
LEMMA PublishDeletionKeeps ==
    ASSUME IInv, Publish, writing.kind = "delete"
    PROVE  IInv'
<1> USE DEF IInv
<1> DEFINE c == writing.conv
<1>1. /\ UNCHANGED <<rows, fence, calls, listed, stopping, used, deleted, heirs, sent, faults, restarts>>
      /\ writing # None /\ writing' = None /\ c \in Conv /\ announced' \subseteq Conv /\ writing.saved
      /\ Locked' /\ Stopping' /\ Saved' /\ Prepared'
  BY PublishIs
<1>2. /\ tasks' = [tasks EXCEPT ![c] = None] /\ heap' = Dropped(c)
      /\ background' = IF Idle(c) THEN [background EXCEPT ![c] = None] ELSE background
      /\ UNCHANGED <<accepted, recovering>>
  BY DEF Publish, PublishDeletion
<1>3. c \in fence /\ c \in deleted
  BY <1>1 DEF Saved, Known
<1> HIDE DEF c
<1>4. background' = background
  BY <1>1, <1>2 DEF Idle, Registered, TypeOK
<1>5. /\ tasks' \in [Conv -> Obj \cup {None}] /\ heap' \in [Obj -> Object \cup {None}]
      /\ tasks'[c] = None /\ (\A d \in Conv \ {c} : tasks'[d] = tasks[d])
      /\ \A o \in Obj : \/ heap'[o] = heap[o]
                        \/ /\ heap'[o] = None /\ tasks[c] = o /\ o \notin Alive
                           /\ \A call \in calls : call.obj # o
                           /\ recovering # None => recovering.obj # o
  BY <1>1, <1>2, DroppedIs DEF TypeOK
<1>6. Objects' \subseteq Objects /\ Alive' = Alive
  BY <1>5 DEF Objects, Alive
<1>7. TypeOK'
  BY <1>1, <1>2, <1>4, <1>5 DEF TypeOK
<1>8. \A d \in Conv : tasks'[d] # None => tasks'[d] = tasks[d] /\ tasks[d] \in Obj /\ heap'[tasks[d]] = heap[tasks[d]]
  BY <1>1, <1>5 DEF Registered, TypeOK
<1>9. Registered'
  <2>1. \A d \in Conv : tasks'[d] # None => heap'[tasks'[d]] # None /\ heap'[tasks'[d]].conv = d
    BY <1>8 DEF Registered
  <2>2. \A o \in Alive : heap'[o] = heap[o]
    BY <1>5 DEF Alive, Objects
  <2>3. \A d \in Conv \ deleted' : background'[d] # None => tasks'[d] = background'[d]
    BY <1>1, <1>3, <1>4, <1>5 DEF Registered
  <2>4. \A call \in calls' : call.op = "continue" => heap'[call.obj] # None /\ heap'[call.obj].conv = call.conv
    BY <1>1, <1>5 DEF Registered, TypeOK, Call
  <2>5. \A o \in Objects' : Placed(heap'[o])
    BY <1>5, <1>6 DEF Registered, Objects
  <2>6. QED
    BY <1>4, <1>6, <2>1, <2>2, <2>3, <2>4, <2>5 DEF Registered, Placed
<1>10. Known'
  <2>1. \A o \in Objects' : heap'[o].conv \in used
    BY <1>5, <1>6 DEF Known, Objects
  <2>2. QED
    BY <1>1, <1>2, <1>5, <2>1 DEF Known
<1>11. Buried'
  BY <1>1, <1>2, <1>3, <1>4, <1>5 DEF Buried, TypeOK
<1>12. Agreed'
  <2>1. SUFFICES ASSUME NEW d \in Conv \ deleted' PROVE AgreesNext(d)
    BY DEF Agreed, AgreesNext, Over, Settled
  <2>2. ~Ahead(d)' /\ ~Ahead(d) /\ d # c
    BY <1>1, <1>3 DEF Ahead, c
  <2>3. QED
    BY <1>1, <1>2, <1>8, <2>1, <2>2 DEF Agreed, AgreesNext
<1>13. Listed'
  <2>1. recovering # None => recovering \in Recovering
    BY DEF TypeOK
  <2>2. recovering # None /\ recovering.obj # None => heap'[recovering.obj] = heap[recovering.obj]
    BY <1>5, <2>1 DEF Recovering
  <2>3. QED
    BY <1>1, <1>2, <1>3, <1>5, <2>2 DEF Listed
<1>14. Marked'
  <2>1. \A d \in Conv : Heir(d) => HeirNext(d)
    BY <1>1 DEF Heir, CarriesOn, HeirNext
  <2>2. \A o \in Objects' : heap'[o].row.mark = "recovered" => HeirNext(heap'[o].conv)
    BY <1>5, <1>6, <2>1 DEF Marked, Objects, TypeOK, Object
  <2>3. QED
    BY <1>1, <1>2, <2>1, <2>2 DEF Marked, Heir, CarriesOn, HeirNext
<1>15. QED
  BY <1>1, <1>7, <1>9, <1>10, <1>11, <1>12, <1>13, <1>14

\* Every publication keeps the invariant.
LEMMA PublishKeeps == ASSUME IInv, Publish PROVE IInv'
<1>1. writing.kind \in {"run", "resume", "steer", "emit", "rename", "mark", "delete"}
  BY DEF Publish
<1>2. QED
  BY <1>1, PublishRunKeeps, PublishSteeringKeeps, PublishEventKeeps, PublishTitleKeeps, PublishCachedKeeps, PublishMarkKeeps,
     PublishDeletionKeeps

\* So does a write that fails: nothing is published.
LEMMA WriteFailsKeeps == ASSUME IInv, WriteFails PROVE IInv'
<1> USE DEF IInv
<1>1. /\ UNCHANGED <<rows, fence, tasks, calls, announced, stopping, used, deleted, accepted, heirs, sent, restarts>>
      /\ writing # None /\ ~writing.saved /\ writing' = None
      /\ faults' \in 0 .. MaxFaults
  BY BoundAssumption DEF WriteFails, history, TypeOK
<1>2. CASE writing.kind = "emit"
  <2> DEFINE o == writing.obj  t == IF heap[o].hit THEN heap[o] ELSE Broken(heap[o])
  <2>1. o # None /\ tasks[writing.conv] = o /\ heap[o].pc \in Emits /\ writing.conv \in Conv
    BY <1>1, <1>2 DEF Locked, TypeOK, Write
  <2>2. o \in Alive /\ o \in Obj
    BY <2>1 DEF Alive, Objects, Live, Emits, Registered, TypeOK
  <2>3. heap[o] \in Object /\ Placed(heap[o])
    BY <2>2, AliveIs DEF Registered, Alive
  <2>4. Become(o, t) /\ UNCHANGED <<listed, recovering>>
    BY <1>2 DEF WriteFails
  <2>5. /\ Follows(heap[o], t) /\ Placed(t) /\ t.pc # "none"
        /\ Over(heap[o].row) => Over(t.row)
        /\ ~Settled(t)
    <3>1. CASE heap[o].hit
      BY <2>1, <2>3, <3>1 DEF Follows, Alike, Settled, Emits
    <3>2. CASE ~heap[o].hit
      BY <2>3, <3>2, BrokenPlaced
    <3>3. QED
      BY <3>1, <3>2
  <2> HIDE DEF o, t
  <2>6. PICK u \in Object : Turned(o, u) /\ u.pc = t.pc /\ u.row = t.row
    BY <2>2, <2>4, <2>5, BecomeIs
  <2>7. EmitEnds(o, u)
    BY <1>1, <1>2, <2>4, <2>5, <2>6 DEF EmitEnds, Settled, TypeOK, o
  <2>8. QED
    BY <2>2, <2>7, EmitEndsKeeps
<1>3. CASE writing.kind # "emit"
  <2>1. UNCHANGED <<heap, background>>
    BY <1>3 DEF WriteFails
  <2>2. UNCHANGED <<listed, recovering>> \/ (listed' = NoRows /\ recovering' = None)
    BY DEF WriteFails
  <2>3. Objects' = Objects /\ Alive' = Alive
    BY <2>1 DEF Objects, Alive
  <2>4. NoRows \in [Conv -> Row \cup {None}] /\ NoRows # None /\ \A c \in Conv : NoRows[c] = None
    BY NoneAssumption DEF NoRows
  <2>5. TypeOK'
    BY <1>1, <2>1, <2>2, <2>4 DEF TypeOK
  <2>6. Registered'
    BY <1>1, <2>1, <2>3 DEF Registered, Placed
  <2>7. Known'
    BY <1>1, <2>1, <2>2, <2>3, <2>4 DEF Known
  <2>8. Buried'
    BY <1>1, <2>1, <2>2, <2>4 DEF Buried, TypeOK
  <2>9. Locked' /\ Saved' /\ Prepared'
    BY <1>1 DEF Locked, Saved, Prepared
  <2>10. Stopping'
    BY <1>1, <2>2 DEF Stopping, NoRows
  <2>11. Agreed'
    BY <1>1, <2>1 DEF Agreed, Ahead, Over, Settled
  <2>12. Listed'
    BY <1>1, <2>1, <2>2, <2>4 DEF Listed
  <2>13. Marked'
    BY <1>1, <2>1, <2>2, <2>3 DEF Marked, Heir, CarriesOn
  <2>14. QED
    BY <2>5, <2>6, <2>7, <2>8, <2>9, <2>10, <2>11, <2>12, <2>13
<1>4. QED
  BY <1>2, <1>3

-----------------------------------------------------------------------------
(* The restart, and the theorem.                                           *)

\* Terminalising a row changes what it says of its run only.
LEMMA InterruptedIs ==
    ASSUME NEW r \in Row \cup {None}
    PROVE  /\ Interrupted(r) \in Row \cup {None} /\ (Interrupted(r) = None <=> r = None)
           /\ r # None => LET s == Interrupted(r) IN
                 /\ s.turn = r.turn /\ s.said = r.said /\ s.parent = r.parent /\ Over(s)
                 /\ s.mark = "recovered" => r.mark = "recovered"
<1>1. CASE r = None
  BY <1>1 DEF Interrupted
<1>2. CASE r # None /\ r.status \in Active
  <2> DEFINE s == [[r EXCEPT !.status = "failed"] EXCEPT !.mark = "interrupted"]
  <2>1. r \in Row /\ Interrupted(r) = s
    BY <1>2 DEF Interrupted
  <2>2. /\ s \in Row /\ s.turn = r.turn /\ s.said = r.said /\ s.parent = r.parent
        /\ s.status = "failed" /\ s.mark = "interrupted"
    BY <2>1 DEF Row, Terminal
  <2> HIDE DEF s
  <2>3. QED
    BY <1>2, <2>1, <2>2, NoneAssumption DEF Over, Terminal
<1>3. CASE r # None /\ r.status \notin Active
  BY <1>3 DEF Interrupted, Row, Over
<1>4. QED
  BY <1>1, <1>2, <1>3

\* So does a restart: the next process knows what the table says, without its
\* active rows.
LEMMA RestartKeeps == ASSUME IInv, Restart PROVE IInv'
<1> USE DEF IInv
<1>1. /\ UNCHANGED <<used, deleted, accepted, heirs, announced, sent, faults>>
      /\ background' = NoRows /\ fence' = {} /\ writing' = None /\ calls' = {}
      /\ listed' = None /\ recovering' = None /\ stopping' = 0
      /\ restarts' \in 0 .. MaxRestarts
      /\ rows' = [c \in Conv |-> Interrupted(rows[c])]
  BY BoundAssumption DEF Restart, history, TypeOK
<1> DEFINE Reloads(cache, place) ==
         /\ \A c, d \in cache : c # d => place[c] # place[d]
         /\ tasks' = [c \in Conv |-> IF c \in cache THEN place[c] ELSE None]
         /\ heap' = [o \in Obj |-> IF \E c \in cache : place[c] = o
                            THEN LET c == CHOOSE c \in cache : place[c] = o
                                 IN Stored(c, Interrupted(rows[c]))
                            ELSE None]
<1>2. \E cache \in SUBSET {c \in Conv : rows[c] # None} : \E place \in [cache -> Obj] : Reloads(cache, place)
  BY DEF Restart
<1>3. PICK cache \in SUBSET {c \in Conv : rows[c] # None} : \E place \in [cache -> Obj] : Reloads(cache, place)
  BY <1>2
<1>4. PICK place \in [cache -> Obj] : Reloads(cache, place)
  BY <1>3
<1>5. \A c \in Conv : /\ rows'[c] \in Row \cup {None} /\ (rows'[c] = None <=> rows[c] = None)
                      /\ rows[c] # None => /\ rows'[c].turn = rows[c].turn /\ rows'[c].said = rows[c].said
                                           /\ rows'[c].parent = rows[c].parent /\ Over(rows'[c])
                                           /\ rows'[c].mark = "recovered" => rows[c].mark = "recovered"
  BY <1>1, InterruptedIs DEF TypeOK
<1>6. \A c \in cache : c \in Conv /\ place[c] \in Obj /\ rows[c] # None /\ rows'[c] \in Row
  BY <1>4, <1>5
<1>7. \A c \in cache : heap'[place[c]] = Stored(c, rows'[c])
  <2>1. TAKE c \in cache
  <2>2. (CHOOSE d \in cache : place[d] = place[c]) = c
    BY <1>4
  <2>3. QED
    BY <1>1, <1>4, <1>6, <2>2
<1>8. \A o \in Obj : heap'[o] # None => \E c \in cache : place[c] = o
  BY <1>4
<1>9. \A c \in Conv, r \in Row : /\ Stored(c, r) \in Object /\ Stored(c, r) # None /\ Placed(Stored(c, r))
                                 /\ Stored(c, r).conv = c /\ Stored(c, r).row = r /\ Stored(c, r).pc = "none"
  <2>1. TAKE c \in Conv, r \in Row
  <2>2. /\ Stored(c, r) \in Object /\ Stored(c, r).conv = c /\ Stored(c, r).row = r /\ Stored(c, r).pc = "none"
    BY DEF Stored, Object, Place
  <2>3. QED
    BY <2>2, NoneAssumption DEF Placed
<1>10. /\ \A c \in Conv : tasks'[c] # None => /\ c \in cache /\ tasks'[c] = place[c]
                                             /\ heap'[tasks'[c]] = Stored(c, rows'[c])
      /\ \A o \in Obj : heap'[o] # None => \E c \in cache : heap'[o] = Stored(c, rows'[c])
  <2>1. tasks' = [c \in Conv |-> IF c \in cache THEN place[c] ELSE None]
    BY <1>4
  <2>2. \A c \in Conv : tasks'[c] # None => c \in cache /\ tasks'[c] = place[c]
    BY <2>1
  <2>3. QED
    BY <1>7, <1>8, <2>2
<1>11. TypeOK'
  <2>1. rows' \in [Conv -> Row \cup {None}]
    BY <1>1, <1>5
  <2>2. tasks' \in [Conv -> Obj \cup {None}] /\ background' \in [Conv -> Obj \cup {None}]
    BY <1>1, <1>4, <1>6 DEF NoRows
  <2>3. heap' \in [Obj -> Object \cup {None}]
    <3>1. \A o \in Obj : heap'[o] \in Object \cup {None}
      BY <1>6, <1>9, <1>10
    <3>2. heap' = [o \in Obj |-> heap'[o]]
      BY <1>4
    <3>3. QED
      BY <3>1, <3>2
  <2>4. QED
    BY <1>1, <2>1, <2>2, <2>3 DEF TypeOK
<1>12. Alive' = {}
  BY <1>6, <1>9, <1>10 DEF Alive, Objects, Live, Emits
<1>13. Registered'
  <2>1. \A o \in Objects' : Placed(heap'[o])
    BY <1>6, <1>9, <1>10 DEF Objects
  <2>2. \A c \in Conv : tasks'[c] # None => heap'[tasks'[c]] # None /\ heap'[tasks'[c]].conv = c
    BY <1>6, <1>9, <1>10
  <2>3. \A c \in Conv : background'[c] = None
    BY <1>1 DEF NoRows
  <2>4. QED
    BY <1>1, <1>12, <2>1, <2>2, <2>3 DEF Registered, Placed
<1>14. Known'
  <2>1. \A c \in cache : c \in used
    BY <1>6 DEF Known
  <2>2. \A c \in Conv \ used : rows'[c] = None /\ tasks'[c] = None
    BY <1>5, <1>10, <2>1 DEF Known
  <2>3. \A o \in Objects' : heap'[o].conv \in used
    BY <1>6, <1>9, <1>10, <2>1 DEF Objects
  <2>4. QED
    BY <1>1, <2>2, <2>3 DEF Known
<1>15. Buried'
  <2>1. \A c \in deleted : c \in Conv /\ rows'[c] = None /\ tasks'[c] = None /\ background'[c] = None
    BY <1>1, <1>5, <1>6, <1>10 DEF Buried, NoRows, TypeOK
  <2>2. QED
    BY <1>1, <2>1 DEF Buried
<1>16. Locked' /\ Stopping' /\ Saved' /\ Prepared' /\ Listed'
  BY <1>1 DEF Locked, Stopping, Saved, Prepared, Listed
<1>17. Agreed'
  <2>1. SUFFICES ASSUME NEW d \in Conv \ deleted' PROVE AgreesNext(d)
    BY DEF Agreed, AgreesNext, Over, Settled
  <2>2. ~Ahead(d)'
    BY <1>1 DEF Ahead
  <2>3. rows'[d] # None => accepted'[d] \subseteq rows'[d].said
    BY <1>1, <1>5 DEF Agreed
  <2>4. CASE tasks'[d] # None
    <3> DEFINE t == heap'[tasks'[d]]
    <3>1. t.row = rows'[d] /\ t.pc = "none" /\ rows'[d] # None
      BY <1>5, <1>6, <1>9, <1>10, <2>4
    <3>2. ~Settled(t)
      BY <3>1 DEF Settled
    <3> HIDE DEF t
    <3>3. QED
      BY <2>2, <2>3, <3>1, <3>2 DEF AgreesNext, t
  <2>5. CASE tasks'[d] = None
    BY <2>3, <2>5 DEF AgreesNext
  <2>6. QED
    BY <2>4, <2>5
<1>18. Marked'
  <2>1. \A d \in Conv : Heir(d) => HeirNext(d)
    BY <1>1, <1>5 DEF Heir, CarriesOn, HeirNext, TypeOK
  <2>2. \A d \in Conv : rows'[d] # None /\ rows'[d].mark = "recovered" => HeirNext(d)
    BY <1>5, <2>1 DEF Marked
  <2>3. \A o \in Objects' : heap'[o].row.mark = "recovered" => HeirNext(heap'[o].conv)
    BY <1>5, <1>6, <1>9, <1>10, <2>2 DEF Objects
  <2>4. \A d \in Conv : rows'[d] # None => heirs'[d] = rows'[d].parent
    BY <1>1, <1>5 DEF Marked
  <2>5. QED
    BY <1>1, <2>2, <2>3, <2>4 DEF Marked, Heir, CarriesOn, HeirNext
<1>19. QED
  BY <1>11, <1>13, <1>14, <1>15, <1>16, <1>17, <1>18

\* Every step keeps the invariant.
LEMMA NextIInv == ASSUME IInv, [Next]_vars PROVE IInv'
<1>1. CASE Commit
  BY <1>1, CommitKeeps
<1>2. CASE Publish
  BY <1>2, PublishKeeps
<1>3. CASE WriteFails
  BY <1>3, WriteFailsKeeps
<1>4. CASE \E o \in Obj : Worker(o)
  <2>1. PICK o \in Obj : Worker(o)
    BY <1>4
  <2>2. (\E u \in Object : Works(o, u)) \/ EmitBegins(o)
    BY <2>1, WorkerIs DEF IInv
  <2>3. QED
    BY <2>2, WorksKeeps, EmitBeginKeeps
<1>5. CASE UserRequest
  BY <1>5, CreateKeeps, LoadKeeps, CancelKeeps, AskContinueKeeps, AskDeleteKeeps, SteerKeeps, RenameKeeps,
     ContinueKeeps, DeleteKeeps DEF UserRequest
<1>6. CASE Restart
  BY <1>6, RestartKeeps
<1>7. CASE List
  BY <1>7, ListKeeps
<1>8. CASE \E c \in Conv : TakeUp(c) \/ Resume(c)
  BY <1>8, TakeUpKeeps, ResumeKeeps
<1>9. CASE Mark
  BY <1>9, MarkKeeps
<1>10. CASE Shutdown
  BY <1>10, ShutdownKeeps
<1>11. CASE UNCHANGED vars
  <2>1. UNCHANGED <<rows, fence, heap, tasks, background, writing, calls, listed, recovering, announced, stopping,
                    used, deleted, accepted, heirs, sent, faults, restarts>>
    BY <1>11 DEF vars, memory, recovery, history, budget
  <2>2. Stopping'
    BY <2>1 DEF IInv, Stopping, NoRows
  <2>3. Flags
    BY <2>1, <2>2 DEF Flags, IInv, TypeOK
  <2>4. QED
    BY <2>3, FlagsKeep
<1>12. QED
  BY <1>1, <1>2, <1>3, <1>4, <1>5, <1>6, <1>7, <1>8, <1>9, <1>10, <1>11 DEF Next

\* It holds at first.
LEMMA InitIInv == ASSUME Init PROVE IInv
<1>1. /\ rows = NoRows /\ fence = {} /\ heap = [o \in Obj |-> None] /\ tasks = NoRows /\ background = NoRows
      /\ writing = None /\ calls = {} /\ listed = None /\ recovering = None /\ announced = {}
      /\ stopping = 0 /\ used = {} /\ deleted = {} /\ accepted = [c \in Conv |-> {}] /\ heirs = NoRows
      /\ sent = 0 /\ faults = 0 /\ restarts = 0
  BY DEF Init
<1>2. \A c \in Conv : rows[c] = None /\ tasks[c] = None /\ background[c] = None /\ accepted[c] = {}
  BY <1>1 DEF NoRows
<1>3. Objects = {} /\ Alive = {}
  BY <1>1 DEF Objects, Alive
<1>4. TypeOK
  BY <1>1, BoundAssumption DEF TypeOK, NoRows
<1>5. Registered /\ Known /\ Buried
  BY <1>1, <1>2, <1>3 DEF Registered, Known, Buried
<1>6. Locked /\ Stopping /\ Saved /\ Agreed /\ Prepared /\ Listed
  BY <1>1, <1>2 DEF Locked, Stopping, Saved, Agreed, Prepared, Listed
<1>7. Marked
  BY <1>1, <1>2, <1>3 DEF Marked
<1>8. QED
  BY <1>4, <1>5, <1>6, <1>7 DEF IInv

\* The inductive invariant holds for every number of conversations, objects,
\* follow-ups, faults and restarts.
THEOREM Invariance == Spec => []IInv
<1>1. Init => IInv
  BY InitIInv
<1>2. IInv /\ [Next]_vars => IInv'
  BY NextIInv
<1>3. QED
  BY <1>1, <1>2, PTL DEF Spec

\* The worker registered for a conversation is its only one.
THEOREM OneRun == Spec => []OneRunPerConversation
<1>1. IInv => OneRunPerConversation
  BY DEF IInv, Registered, OneRunPerConversation
<1>2. QED
  BY <1>1, Invariance, PTL

\* A deleted conversation never comes back: its row is gone and what could
\* still write it is fenced.
THEOREM Deletion == Spec => []DeletedStaysDeleted
<1>1. IInv => DeletedStaysDeleted
  BY DEF IInv, Buried, DeletedStaysDeleted
<1>2. QED
  BY <1>1, Invariance, PTL

\* An accepted follow-up is in the row and in the object for good, whichever
\* event, title, turn or restart is written later.
THEOREM Instructions == Spec => []InstructionsKept
<1>1. IInv => InstructionsKept
  BY DEF IInv, Agreed, InstructionsKept
<1>2. QED
  BY <1>1, Invariance, PTL

-----------------------------------------------------------------------------
(* Who dies in the last handler of managed_run.                            *)

\* What a cancellation says of a worker: whoever is interrupted was told to
\* stop; in the handler of a stop it is interrupted by the second round of
\* shutdown only; so it dies there in this round or by a failing write.
Halts(t, round, failed) ==
    /\ t.hit => t.stop
    /\ t.pc = "mcancelled" => t.stop /\ (t.hit => round = 2)
    /\ t.pc = "died" /\ t.row.status = "cancelled" => round = 2 \/ failed > 0

Halted == \A o \in Objects : Halts(heap[o], stopping, faults)

\* An object that no cancellation has reached.
Untold(t) == ~t.hit /\ t.pc \in {"none", "new"}

SameHalt(t, u) == t.pc = u.pc /\ t.hit = u.hit /\ t.stop = u.stop /\ t.row.status = u.row.status

\* Steps that cancel nobody and move no worker.
LEMMA QuietHalts ==
    ASSUME TypeOK, Halted, stopping' = stopping, faults' \in Nat, faults' >= faults,
           \A o \in Obj : \/ heap'[o] = None \/ Untold(heap'[o])
                          \/ heap[o] # None /\ SameHalt(heap'[o], heap[o])
    PROVE  Halted'
<1>1. faults \in Nat
  BY BoundAssumption DEF TypeOK
<1>2. SUFFICES ASSUME NEW o \in Obj, heap'[o] # None PROVE Halts(heap'[o], stopping', faults')
  BY DEF Halted, Objects
<1>3. CASE Untold(heap'[o])
  BY <1>3 DEF Untold, Halts
<1>4. CASE heap[o] # None /\ SameHalt(heap'[o], heap[o])
  BY <1>1, <1>4 DEF Halted, Objects, SameHalt, Halts
<1>5. QED
  BY <1>2, <1>3, <1>4

\* A step of one worker.
LEMMA BecomeHalts ==
    ASSUME TypeOK, Halted, stopping' = stopping, faults' \in Nat, faults' >= faults,
           NEW o \in Obj, NEW t \in Object, Become(o, t), Halts(t, stopping, faults')
    PROVE  Halted'
<1> DEFINE u == IF t.pc \in Live THEN t ELSE [t EXCEPT !.hit = FALSE, !.stop = FALSE, !.queue = {}]
<1>1. faults \in Nat /\ heap \in [Obj -> Object \cup {None}]
  BY BoundAssumption DEF TypeOK
<1>2. heap'[o] = u /\ \A p \in Obj \ {o} : heap'[p] = heap[p]
  BY <1>1 DEF Become
<1>3. CASE t.pc \in Live
  BY <1>1, <1>2, <1>3 DEF Halted, Objects, Halts
<1>4. CASE t.pc \notin Live
  <2>1. u.hit = FALSE /\ u.pc = t.pc /\ u.row = t.row
    BY <1>4 DEF Object
  <2>2. u.pc # "mcancelled"
    BY <1>4, <2>1 DEF Live, Emits
  <2> HIDE DEF u
  <2>3. Halts(u, stopping, faults')
    BY <2>1, <2>2 DEF Halts
  <2>4. QED
    BY <1>1, <1>2, <2>3 DEF Halted, Objects, Halts
<1>5. QED
  BY <1>3, <1>4

\* An event, an exception, a failing write and a cancellation.
LEMMA EmittedHalts ==
    ASSUME NEW t \in Object, NEW s, NEW f, t.pc \in Emits, Halts(t, s, f)
    PROVE  Emitted(t) \in Object /\ Halts(Emitted(t), s, f)
<1>1. Emitted(t) \in Object /\ Emitted(t).pc = After[t.pc]
  BY EmittedIs DEF Follows
<1>2. Emitted(t).hit = t.hit /\ Emitted(t).stop = t.stop
  BY DEF Emitted, Object
<1>3. After[t.pc] \notin {"mcancelled", "died"}
  BY DEF After, Emits
<1>4. QED
  BY <1>1, <1>2, <1>3 DEF Halts

\* An exception before the handlers of managed_run leads to one of them.
LEMMA RaisedHalts ==
    ASSUME NEW t \in Object, NEW s, NEW f, t.pc \in {"setup", "run", "closing"}
    PROVE  Broken(t) \in Object /\ Halts(Broken(t), s, f)
<1>1. Broken(t) \in Object /\ Broken(t).pc \in {"failing", "mfailed"}
  BY BrokenIs DEF Follows
<1>2. Broken(t).hit = FALSE
  BY DEF Broken, Object
<1>3. QED
  BY <1>1, <1>2 DEF Halts

\* A write that fails may be the last one.
LEMMA BrokenHalts ==
    ASSUME NEW t \in Object, NEW s, NEW f \in Nat
    PROVE  Broken(t) \in Object /\ Halts(Broken(t), s, f + 1)
<1>1. Broken(t) \in Object /\ Broken(t).pc \in {"failing", "mfailed", "died"}
  BY BrokenIs DEF Follows
<1>2. Broken(t).hit = FALSE
  BY DEF Broken, Object
<1>3. QED
  BY <1>1, <1>2 DEF Halts

\* A cancellation in the handler of a stop is that of the second round.
LEMMA CancelledHalts ==
    ASSUME NEW t \in Object, NEW s, NEW f, t.pc \in Live, Placed(t), t.hit, Halts(t, s, f)
    PROVE  LET u == Cancelled([t EXCEPT !.hit = FALSE]) IN u \in Object /\ Halts(u, s, f)
<1> DEFINE v == [t EXCEPT !.hit = FALSE]
<1>1. v \in Object /\ v.pc = t.pc /\ v.row = t.row /\ v.stop = t.stop /\ v.hit = FALSE
  BY DEF Object
<1>2. t.stop
  BY DEF Halts
<1>3. Placed(v)
  BY <1>1 DEF Placed
<1> HIDE DEF v
<1>4. Cancelled(v) \in Object
  BY <1>1, <1>3, CancelledPlaced DEF Follows
<1> SUFFICES Halts(Cancelled(v), s, f)
  BY <1>4 DEF v
<1>5. CASE v.pc \in {"setup", "starting", "cancelled", "unwinding"}
  <2>1. Cancelled(v) = With(v, "cancelled", "mcancelled")
    BY <1>5 DEF Cancelled
  <2>2. "cancelled" \in Active \cup Terminal /\ "mcancelled" \in Place
    BY DEF Terminal, Place, Live, Emits
  <2>3. Cancelled(v).hit = FALSE /\ Cancelled(v).stop = t.stop /\ Cancelled(v).pc = "mcancelled"
    BY <1>1, <2>1, <2>2, WithIs
  <2>4. QED
    BY <1>2, <2>3 DEF Halts
<1>6. CASE v.pc \in {"run", "busy", "final", "completed", "closing"}
  <2>1. Cancelled(v) = With(v, "cancelled", "cancelled")
    BY <1>6 DEF Cancelled
  <2>2. QED
    BY <1>1, <1>2, <1>4, <2>1, WithIs DEF Halts, Place, Live, Emits, Terminal
<1>7. CASE v.pc \in {"failing", "cleanup"} /\ v.row.status \in {"completed", "failed"}
  <2>1. Cancelled(v) = At(v, "done")
    BY <1>7 DEF Cancelled
  <2>2. QED
    BY <1>1, <1>4, <2>1, AtIs DEF Halts, Place
<1>8. CASE v.pc \in {"failing", "cleanup"} /\ v.row.status \notin {"completed", "failed"}
  <2>1. Cancelled(v) = With(v, "cancelled", "mcancelled")
    BY <1>8 DEF Cancelled
  <2>2. "cancelled" \in Active \cup Terminal /\ "mcancelled" \in Place
    BY DEF Terminal, Place, Live, Emits
  <2>3. Cancelled(v).hit = FALSE /\ Cancelled(v).stop = t.stop /\ Cancelled(v).pc = "mcancelled"
    BY <1>1, <2>1, <2>2, WithIs
  <2>4. QED
    BY <1>2, <2>3 DEF Halts
<1>9. CASE v.pc \in {"new", "mcancelled", "mfailed"}
  <2>1. Cancelled(v) = At(v, "died")
    BY <1>9 DEF Cancelled
  <2>2. v.row.status = "cancelled" => s = 2
    BY <1>1, <1>3, <1>9 DEF Placed, Halts, Active
  <2>3. QED
    BY <1>1, <1>4, <2>1, <2>2, AtIs DEF Halts, Place
<1>10. QED
  BY <1>1, <1>5, <1>6, <1>7, <1>8, <1>9 DEF Live, Emits

\* The steps of the workers.
LEMMA WorkerHalts ==
    ASSUME IInv, Halted, NEW o \in Obj, Worker(o)
    PROVE  Halted'
<1>1. o \in Alive /\ ~InWrite(o)
  BY DEF Worker, StartRun, SetStatus, Drain, Answer, Raise, Emit, Close, Interrupt, Free
<1>2. /\ heap[o] \in Object /\ heap[o].pc \in Live /\ Placed(heap[o]) /\ Halts(heap[o], stopping, faults)
      /\ TypeOK /\ faults \in Nat
  BY <1>1, AliveIs, BoundAssumption DEF IInv, TypeOK, Registered, Alive, Objects, Halted
<1>3. ASSUME NEW t \in Object, Turn(o, t), Halts(t, stopping, faults) PROVE Halted'
  BY <1>2, <1>3, BecomeHalts DEF Turn, budget
<1>4. ASSUME NEW s \in Active \cup Terminal, NEW p \in Place, p \notin {"mcancelled", "died"}, Turn(o, With(heap[o], s, p))
      PROVE  Halted'
  BY <1>2, <1>3, <1>4, WithIs DEF Halts, Follows
<1>5. ASSUME NEW p \in Place, p \notin {"mcancelled", "died"}, Turn(o, At(heap[o], p))
      PROVE  Halted'
  BY <1>2, <1>3, <1>5, AtIs DEF Halts, Follows
<1>6. CASE StartRun(o)
  <2>1. CASE heap[o].stop
    <3>1. Turn(o, With(heap[o], "cancelled", "mcancelled")) /\ ~heap[o].hit
      BY <1>6, <2>1 DEF StartRun, Free
    <3>2. "cancelled" \in Active \cup Terminal /\ "mcancelled" \in Place
      BY DEF Terminal, Place, Live, Emits
    <3>3. QED
      BY <1>2, <1>3, <2>1, <3>1, <3>2, WithIs DEF Halts, Follows
  <2>2. CASE ~heap[o].stop
    BY <1>5, <1>6, <2>2 DEF StartRun, Place, Live
  <2>3. QED
    BY <2>1, <2>2
<1>7. CASE SetStatus(o)
  <2>1. PICK s \in {"running", "waiting", "waiting_user"}, p \in {"starting", "busy"} : Turn(o, With(heap[o], s, p))
    BY <1>7, BoundAssumption DEF SetStatus
  <2>2. QED
    BY <1>4, <2>1 DEF Active, Place, Live, Emits
<1>8. CASE Drain(o)
  <2> DEFINE t == [heap[o] EXCEPT !.queue = {}, !.pc = "busy"]
  <2>1. t \in Object /\ t.pc = "busy" /\ t.hit = heap[o].hit /\ t.stop = heap[o].stop
    BY <1>2 DEF Object, Place, Live, Emits
  <2>2. Turn(o, t)
    BY <1>8 DEF Drain
  <2> HIDE DEF t
  <2>3. QED
    BY <1>2, <1>3, <2>1, <2>2 DEF Halts
<1>9. CASE Answer(o)
  BY <1>5, <1>9 DEF Answer, Place, Live, Emits
<1>10. CASE Raise(o)
  BY <1>2, <1>3, <1>10, RaisedHalts DEF Raise
<1>11. CASE Emit(o)
  <2>1. CASE tasks[heap[o].conv] # o
    BY <1>2, <1>3, <1>11, <2>1, EmittedHalts DEF Emit
  <2>2. CASE tasks[heap[o].conv] = o
    <3>1. UNCHANGED <<heap, stopping, faults>>
      BY <1>11, <2>2 DEF Emit, memory, budget
    <3>2. QED
      BY <3>1 DEF Halted, Objects
  <2>3. QED
    BY <2>1, <2>2
<1>12. CASE Close(o)
  BY <1>5, <1>12 DEF Close, Place, Live
<1>13. CASE Interrupt(o)
  BY <1>2, <1>3, <1>13, CancelledHalts DEF Interrupt
<1>14. QED
  BY <1>6, <1>7, <1>8, <1>9, <1>10, <1>11, <1>12, <1>13 DEF Worker

\* A request to stop reaches only who was not told yet, so nobody in the
\* handler of a stop.
LEMMA StoppedHalts ==
    ASSUME IInv, Halted, NEW c \in Conv, heap' = Stopped(c), UNCHANGED <<stopping, faults>>
    PROVE  Halted'
<1> DEFINE o == background[c]  u == [heap[o] EXCEPT !.stop = TRUE, !.hit = heap[o].pc # "new"]
<1>1. heap \in [Obj -> Object \cup {None}] /\ (o # None => o \in Obj)
  BY DEF IInv, TypeOK
<1>2. CASE heap' = heap
  BY <1>2 DEF Halted, Objects
<1>3. CASE heap' # heap
  <2>1. /\ o # None /\ o \in Alive /\ o \in Obj /\ ~heap[o].stop
        /\ heap' = [heap EXCEPT ![o].stop = TRUE, ![o].hit = heap[o].pc # "new"]
    BY <1>1, <1>3 DEF Stopped
  <2>2. heap[o] \in Object /\ Halts(heap[o], stopping, faults) /\ heap[o] # None
    BY <1>1, <2>1 DEF Halted, Alive, Objects
  <2>3. heap'[o] = u /\ \A p \in Obj \ {o} : heap'[p] = heap[p]
    BY <1>1, <2>1
  <2>4. u.stop = TRUE /\ u.pc = heap[o].pc /\ u.row = heap[o].row
    BY <2>2 DEF Object
  <2>5. heap[o].pc # "mcancelled"
    BY <2>1, <2>2 DEF Halts
  <2> HIDE DEF o, u
  <2>6. Halts(u, stopping, faults)
    BY <2>2, <2>4, <2>5 DEF Halts
  <2>7. QED
    BY <2>1, <2>3, <2>6 DEF Halted, Objects
<1>4. QED
  BY <1>2, <1>3

\* Shutdown: its first round is such a request, its second reaches everyone.
LEMMA ShutdownHalts ==
    ASSUME IInv, Halted, Shutdown
    PROVE  Halted'
<1>1. /\ stopping \in {0, 1} /\ stopping' = stopping + 1 /\ faults' = faults /\ faults \in Nat
      /\ heap \in [Obj -> Object \cup {None}]
  <2>1. (stopping = 0 \/ stopping = 1) /\ stopping' = stopping + 1 /\ faults' = faults
    BY DEF Shutdown, budget
  <2>2. faults \in Nat /\ heap \in [Obj -> Object \cup {None}]
    BY BoundAssumption DEF IInv, TypeOK
  <2>3. QED
    BY <2>1, <2>2
<1>2. SUFFICES ASSUME NEW o \in Obj, heap'[o] # None PROVE Halts(heap'[o], stopping', faults')
  BY DEF Halted, Objects
<1> DEFINE u == [heap[o] EXCEPT !.stop = TRUE, !.hit = heap[o].pc # "new" \/ stopping = 1]
<1>3. heap'[o] = heap[o] \/ (o \in Alive /\ heap'[o] = u /\ (stopping = 1 \/ ~heap[o].stop))
  BY DEF Shutdown
<1>4. heap[o] # None
  BY <1>2, <1>3 DEF Alive, Objects
<1>5. Halts(heap[o], stopping, faults) /\ heap[o] \in Object
  BY <1>1, <1>4 DEF Halted, Objects
<1>6. CASE heap'[o] = heap[o]
  BY <1>1, <1>5, <1>6 DEF Halts
<1>7. CASE heap'[o] # heap[o]
  <2>1. heap'[o] = u /\ (stopping = 1 \/ ~heap[o].stop) /\ heap[o].pc # "died"
    BY <1>3, <1>7 DEF Alive, Live, Emits
  <2>2. u.stop = TRUE /\ u.pc = heap[o].pc
    BY <1>5 DEF Object
  <2>3. heap[o].pc = "mcancelled" => stopping' = 2
    BY <1>1, <1>5, <2>1 DEF Halts
  <2> HIDE DEF u
  <2>4. QED
    BY <2>1, <2>2, <2>3 DEF Halts
<1>8. QED
  BY <1>6, <1>7

\* The publications.
LEMMA PublishHalts ==
    ASSUME IInv, Halted, Publish
    PROVE  Halted'
<1>1. /\ stopping' = stopping /\ faults' = faults /\ faults \in Nat /\ TypeOK
      /\ writing # None /\ writing.saved /\ writing.conv \in Conv /\ writing \in Write
      /\ heap \in [Obj -> Object \cup {None}]
      /\ writing.kind # "delete" => writing.row # None /\ writing.row \in Row
      /\ writing.kind \in {"steer", "emit", "mark"} => writing.obj \in Obj /\ heap[writing.obj] \in Object
                                                       /\ heap[writing.obj] # None
  BY PublishIs, BoundAssumption DEF IInv, TypeOK, Objects
<1>2. \A p \in Obj : Dropped(writing.conv)[p] \in {None, heap[p]}
  BY <1>1, DroppedIs
<1>3. ASSUME NEW t \in Object, Untold(t), Room, heap' = [Dropped(writing.conv) EXCEPT ![NewObj] = t]
      PROVE  Halted'
  <2>1. NewObj \in Obj
    BY <1>3, NewObjIs
  <2>2. \A p \in Obj : heap'[p] \in {None, heap[p]} \/ heap'[p] = t
    BY <1>1, <1>2, <1>3, <2>1, DroppedIs
  <2>3. QED
    BY <1>1, <1>3, <2>2, QuietHalts DEF SameHalt
<1>4. ASSUME NEW u \in Object, heap' = [heap EXCEPT ![writing.obj] = u], writing.kind \in {"steer", "emit", "mark"},
             SameHalt(u, heap[writing.obj])
      PROVE  Halted'
  <2>1. \A p \in Obj : heap'[p] = heap[p] \/ (heap[p] # None /\ SameHalt(heap'[p], heap[p]))
    BY <1>1, <1>4
  <2>2. QED
    BY <1>1, <2>1, QuietHalts DEF SameHalt
<1>5. CASE writing.kind \in {"run", "resume"}
  <2> DEFINE t == [Stored(writing.conv, writing.row) EXCEPT !.pc = "new"]
  <2>1. Room /\ heap' = [Dropped(writing.conv) EXCEPT ![NewObj] = t]
    BY <1>5 DEF Publish, PublishRun
  <2>2. t \in Object /\ Untold(t)
    BY <1>1, <1>5 DEF Stored, Object, Place, Live, Untold
  <2> HIDE DEF t
  <2>3. QED
    BY <1>3, <2>1, <2>2
<1>6. CASE writing.kind = "steer"
  <2> DEFINE t == heap[writing.obj]
             u == [t EXCEPT !.queue = @ \cup (writing.row.said \ t.row.said), !.row.said = writing.row.said]
  <2>1. heap' = [heap EXCEPT ![writing.obj] = u]
    BY <1>1, <1>6 DEF Publish, PublishSteering
  <2>2. u \in Object /\ SameHalt(u, t)
    BY <1>1, <1>6 DEF Object, Row, SameHalt
  <2> HIDE DEF u
  <2>3. QED
    BY <1>4, <1>6, <2>1, <2>2
<1>7. CASE writing.kind = "emit"
  <2> DEFINE t == heap[writing.obj]
  <2>1. Become(writing.obj, IF t.hit THEN t ELSE Emitted(t))
    BY <1>7 DEF Publish, PublishEvent
  <2>2. t.pc \in Emits /\ Halts(t, stopping, faults)
    BY <1>1, <1>7 DEF IInv, Locked, Halted, Objects
  <2>3. /\ (IF t.hit THEN t ELSE Emitted(t)) \in Object
        /\ Halts(IF t.hit THEN t ELSE Emitted(t), stopping, faults)
    BY <1>1, <1>7, <2>2, EmittedHalts
  <2>4. QED
    BY <1>1, <1>7, <2>1, <2>3, BecomeHalts
<1>8. CASE writing.kind = "rename"
  <2>1. CASE writing.obj # None
    BY <1>1, <1>8, <2>1 DEF Publish, PublishRename, memory, Halted, Objects
  <2>2. CASE writing.obj = None
    <3>1. Room /\ heap' = [Dropped(writing.conv) EXCEPT ![NewObj] = Stored(writing.conv, writing.row)]
      BY <1>8, <2>2 DEF Publish, PublishRename
    <3>2. Stored(writing.conv, writing.row) \in Object /\ Untold(Stored(writing.conv, writing.row))
      BY <1>1, <1>8 DEF Stored, Object, Place, Untold
    <3>3. QED
      BY <1>3, <3>1, <3>2
  <2>3. QED
    BY <2>1, <2>2
<1>9. CASE writing.kind = "delete"
  <2>1. heap' = Dropped(writing.conv)
    BY <1>9 DEF Publish, PublishDeletion
  <2>2. QED
    BY <1>1, <1>2, <2>1, QuietHalts DEF SameHalt
<1>10. CASE writing.kind = "mark"
  <2> DEFINE t == heap[writing.obj]  u == [t EXCEPT !.row.mark = "recovered"]
  <2>1. heap' = [heap EXCEPT ![writing.obj] = u]
    BY <1>1, <1>10 DEF Publish, PublishMark
  <2>2. u \in Object /\ SameHalt(u, t)
    BY <1>1, <1>10 DEF Object, Row, SameHalt
  <2> HIDE DEF u
  <2>3. QED
    BY <1>4, <1>10, <2>1, <2>2
<1>11. QED
  BY <1>5, <1>6, <1>7, <1>8, <1>9, <1>10 DEF Publish

\* A write that fails.
LEMMA WriteFailsHalts ==
    ASSUME IInv, Halted, WriteFails
    PROVE  Halted'
<1>1. stopping' = stopping /\ faults' = faults + 1 /\ faults \in Nat /\ TypeOK /\ writing # None
  BY BoundAssumption DEF WriteFails, IInv, TypeOK
<1>2. CASE writing.kind = "emit"
  <2> DEFINE t == heap[writing.obj]
  <2>1. Become(writing.obj, IF t.hit THEN t ELSE Broken(t))
    BY <1>2 DEF WriteFails
  <2>2. writing.obj \in Obj /\ t \in Object /\ Halts(t, stopping, faults)
    <3>1. writing.obj # None /\ tasks[writing.conv] = writing.obj /\ writing.conv \in Conv
      BY <1>1, <1>2 DEF IInv, Locked, TypeOK, Write
    <3>2. QED
      BY <3>1 DEF IInv, Registered, TypeOK, Halted, Objects
  <2>3. Halts(t, stopping, faults + 1)
    BY <1>1, <2>2 DEF Halts
  <2>4. /\ (IF t.hit THEN t ELSE Broken(t)) \in Object
        /\ Halts(IF t.hit THEN t ELSE Broken(t), stopping, faults + 1)
    BY <1>1, <2>2, <2>3, BrokenHalts
  <2>5. QED
    BY <1>1, <2>1, <2>2, <2>4, BecomeHalts
<1>3. CASE writing.kind # "emit"
  <2>1. heap' = heap
    BY <1>3 DEF WriteFails
  <2>2. QED
    BY <1>1, <2>1, QuietHalts DEF SameHalt
<1>4. QED
  BY <1>2, <1>3

\* Requests.
LEMMA RequestHalts ==
    ASSUME IInv, Halted, UserRequest
    PROVE  Halted'
<1>1. faults \in Nat /\ TypeOK
  BY BoundAssumption DEF IInv, TypeOK
<1>2. ASSUME UNCHANGED <<heap, stopping, faults>> PROVE Halted'
  BY <1>2 DEF Halted, Objects
<1>3. ASSUME NEW c \in Conv, Load(c) PROVE Halted'
  <2>1. heap' = [heap EXCEPT ![NewObj] = Stored(c, rows[c])] /\ UNCHANGED <<stopping, faults>> /\ NewObj \in Obj
    BY <1>3, NewObjIs DEF Load, budget
  <2>2. Untold(Stored(c, rows[c]))
    BY DEF Untold, Stored
  <2>3. \A p \in Obj : heap'[p] = heap[p] \/ Untold(heap'[p])
    BY <1>1, <2>1, <2>2 DEF TypeOK
  <2>4. QED
    BY <1>1, <2>1, <2>3, QuietHalts DEF SameHalt
<1>4. ASSUME NEW c \in Conv, Cancel(c) PROVE Halted'
  BY <1>4, StoppedHalts DEF Cancel, Request
<1>5. ASSUME NEW c \in Conv, AskDelete(c) PROVE Halted'
  BY <1>2, <1>5, StoppedHalts DEF AskDelete, Request
<1>6. ASSUME NEW c \in Conv, Create(c) \/ AskContinue(c) \/ Steer(c) \/ Rename(c) PROVE Halted'
  BY <1>2, <1>6 DEF Create, AskContinue, Steer, Rename, Request
<1>7. ASSUME NEW call \in calls, Continue(call) \/ Delete(call) PROVE Halted'
  BY <1>2, <1>7 DEF Continue, Delete, Request
<1>8. QED
  BY <1>3, <1>4, <1>5, <1>6, <1>7 DEF UserRequest

\* A restart leaves no worker.
LEMMA RestartHalts ==
    ASSUME IInv, Halted, Restart
    PROVE  Halted'
<1> DEFINE Reloads(cache, place) ==
         heap' = [o \in Obj |-> IF \E c \in cache : place[c] = o
                            THEN LET c == CHOOSE c \in cache : place[c] = o
                                 IN Stored(c, Interrupted(rows[c]))
                            ELSE None]
<1>1. \E cache \in SUBSET {c \in Conv : rows[c] # None} : \E place \in [cache -> Obj] : Reloads(cache, place)
  BY DEF Restart
<1>2. PICK cache \in SUBSET {c \in Conv : rows[c] # None} : \E place \in [cache -> Obj] : Reloads(cache, place)
  BY <1>1
<1>3. PICK place \in [cache -> Obj] : Reloads(cache, place)
  BY <1>2
<1>4. \A c, r : Untold(Stored(c, r))
  BY DEF Stored, Untold
<1>5. \A o \in Obj : heap'[o] = None \/ Untold(heap'[o])
  BY <1>3, <1>4
<1>6. QED
  BY <1>5 DEF Halted, Objects, Untold, Halts

\* Every step.
LEMMA NextHalts == ASSUME IInv, Halted, [Next]_vars PROVE Halted'
<1>1. faults \in Nat /\ TypeOK
  BY BoundAssumption DEF IInv, TypeOK
<1>2. ASSUME UNCHANGED <<heap, stopping, faults>> PROVE Halted'
  BY <1>2 DEF Halted, Objects
<1>3. CASE Commit
  BY <1>2, <1>3 DEF Commit, memory, budget
<1>4. CASE List \/ Mark \/ UNCHANGED vars \/ \E d \in Conv : Resume(d)
  BY <1>2, <1>4 DEF List, Mark, Resume, vars, memory, budget
<1>5. ASSUME NEW c \in Conv, TakeUp(c) PROVE Halted'
  <2>1. CASE tasks[c] = None
    <3>1. heap' = [heap EXCEPT ![NewObj] = Stored(c, listed[c])] /\ UNCHANGED <<stopping, faults>> /\ NewObj \in Obj
      BY <1>5, <2>1, NewObjIs DEF TakeUp, budget
    <3>2. Untold(Stored(c, listed[c]))
      BY DEF Untold, Stored
    <3>3. \A p \in Obj : heap'[p] = heap[p] \/ Untold(heap'[p])
      BY <1>1, <3>1, <3>2 DEF TypeOK
    <3>4. QED
      BY <1>1, <3>1, <3>3, QuietHalts DEF SameHalt
  <2>2. CASE tasks[c] # None
    BY <1>2, <1>5, <2>2 DEF TakeUp, budget
  <2>3. QED
    BY <2>1, <2>2
<1>6. QED
  BY <1>3, <1>4, <1>5, PublishHalts, WriteFailsHalts, WorkerHalts, RequestHalts, RestartHalts, ShutdownHalts DEF Next

\* It holds throughout.
THEOREM Halting == Spec => []Halted
<1>1. Init => Halted
  BY DEF Init, Halted, Objects
<1>2. IInv /\ Halted /\ [Next]_vars => Halted'
  BY NextHalts
<1>3. QED
  BY <1>1, <1>2, Invariance, PTL DEF Spec

\* A run that ended completed or cancelled says so in the table, for every
\* interleaving of its last events with other writes, failures and
\* cancellations, unless the handler in which managed_run records a stop was
\* broken off by a failing write or by the second round of shutdown.
THEOREM Durability == Spec => []OutcomeIsDurable
<1>1. IInv /\ Halted => OutcomeIsDurable
  <2>1. SUFFICES ASSUME IInv, Halted PROVE OutcomeIsDurable
    OBVIOUS
  <2>2. ASSUME NEW c \in Conv \ deleted, tasks[c] # None PROVE heap[tasks[c]] # None /\ tasks[c] \in Obj
    BY <2>1, <2>2 DEF IInv, TypeOK, Registered
  <2>3. ASSUME NEW c \in Conv \ deleted, NEW status \in {"completed", "cancelled"},
               tasks[c] # None, heap[tasks[c]].pc = "done", heap[tasks[c]].row.status = status,
               rows[c].turn = heap[tasks[c]].row.turn
        PROVE  rows[c].status \in Terminal
    <3>1. Settled(heap[tasks[c]])
      BY <2>3 DEF Settled
    <3>2. tasks[c] \in Obj /\ heap[tasks[c]] \in Object /\ rows[c] # None /\ rows[c] \in Row
      BY <2>1, <2>3 DEF IInv, TypeOK, Registered, Agreed
    <3>3. rows[c].turn \in Nat
      BY <3>2 DEF Row
    <3>4. ~Ahead(c)
      BY <2>1, <2>3, <3>3 DEF IInv, Agreed
    <3>5. QED
      BY <2>1, <2>3, <3>1, <3>4 DEF IInv, Agreed, Over
  <2>4. ASSUME NEW c \in Conv \ deleted, tasks[c] # None, heap[tasks[c]].pc = "died"
        PROVE  /\ heap[tasks[c]].row.status # "completed"
               /\ faults = 0 /\ stopping < 2 => heap[tasks[c]].row.status # "cancelled"
    <3>1. Placed(heap[tasks[c]]) /\ Halts(heap[tasks[c]], stopping, faults)
      BY <2>1, <2>2, <2>4 DEF IInv, Registered, Halted, Objects
    <3>2. QED
      BY <2>4, <3>1 DEF Placed, Halts
  <2>5. \A s \in Terminal : s \notin Active
    BY DEF Terminal, Active
  <2>6. QED
    BY <2>3, <2>4, <2>5 DEF OutcomeIsDurable, Unrecorded
<1>2. QED
  BY <1>1, Invariance, Halting, PTL

\* A row says it was recovered only if the conversation that carries it on is
\* in the table, or was there and was deleted since: after every crash.
THEOREM Recovery == Spec => []HeirBeforeMark
<1>1. IInv => HeirBeforeMark
  BY DEF IInv, Marked, Heir, CarriesOn, HeirBeforeMark
<1>2. QED
  BY <1>1, Invariance, PTL

\* No step takes a row back to an earlier turn or an outcome back to an
\* active status of its turn: of all steps only the commit and the restart
\* write rows.
THEOREM NotUndone == Spec => OutcomeNotUndone
<1> DEFINE Undoes(c) ==
        /\ rows[c] # None /\ rows'[c] # None
        /\ ~ /\ rows'[c].turn >= rows[c].turn
             /\ rows'[c].turn = rows[c].turn /\ rows[c].status \in Terminal => rows'[c].status \in Terminal
<1>1. ASSUME IInv, [Next]_vars, NEW c \in Conv PROVE ~Undoes(c)
  <2>1. rows[c] # None => rows[c] \in Row /\ rows[c].turn \in Nat
    BY <1>1 DEF IInv, TypeOK, Row
  <2>2. CASE rows' = rows
    BY <2>1, <2>2
  <2>3. CASE Commit
    <3>1. writing # None /\ ~writing.saved /\ writing \in Write /\ writing.conv \in Conv
      BY <1>1, <2>3 DEF Commit, IInv, TypeOK, Write
    <3>2. CASE writing.kind = "delete" \/ writing.conv \in fence \/ writing.conv # c
      <4>1. rows' = [rows EXCEPT ![writing.conv] = None] \/ rows' = rows
              \/ (writing.conv # c /\ rows' = [rows EXCEPT ![writing.conv] = writing.row])
        BY <2>3, <3>2 DEF Commit
      <4>2. rows'[c] = None \/ rows'[c] = rows[c]
        BY <1>1, <3>1, <4>1 DEF IInv, TypeOK
      <4>3. QED
        BY <2>1, <4>2
    <3>3. CASE writing.kind # "delete" /\ writing.conv \notin fence /\ writing.conv = c
      <4>1. rows'[c] = writing.row
        BY <1>1, <2>3, <3>3 DEF Commit, IInv, TypeOK
      <4>2. c \notin deleted /\ writing.row # None /\ writing.row \in Row /\ writing.row.turn \in Nat
        BY <1>1, <3>1, <3>3 DEF IInv, Buried, Locked, Write, Row
      <4>3. rows[c] # None => \/ writing.row.turn > rows[c].turn
                              \/ writing.row.turn = rows[c].turn /\ (Over(rows[c]) => Over(writing.row))
        <5>1. CASE writing.kind = "rename" /\ writing.obj = None
          BY <1>1, <2>1, <3>1, <3>3, <5>1 DEF IInv, Locked
        <5>2. CASE ~(writing.kind = "rename" /\ writing.obj = None)
          <6>1. writing.kind \in {"steer", "emit", "rename", "mark"} => writing.obj # None
            BY <1>1, <3>1, <5>2 DEF IInv, Locked
          <6>2. QED
            BY <1>1, <3>1, <3>3, <4>2, <6>1 DEF IInv, Prepared, Write
        <5>3. QED
          BY <5>1, <5>2
      <4>4. QED
        BY <2>1, <4>1, <4>2, <4>3 DEF Over
    <3>4. QED
      BY <3>2, <3>3
  <2>4. CASE Restart
    <3>1. rows'[c] = Interrupted(rows[c]) /\ rows[c] \in Row \cup {None}
      BY <1>1, <2>4 DEF Restart, IInv, TypeOK
    <3>2. QED
      BY <2>1, <3>1, InterruptedIs DEF Over
  <2>5. CASE Publish \/ WriteFails \/ (\E o \in Obj : Worker(o)) \/ List \/ Mark \/ Shutdown \/ UNCHANGED vars
             \/ \E d \in Conv : TakeUp(d) \/ Resume(d)
    <3>1. ASSUME NEW o \in Obj, Worker(o) PROVE rows' = rows
      BY <3>1 DEF Worker, StartRun, SetStatus, Drain, Answer, Raise, Emit, Close, Interrupt, Turn
    <3>2. rows' = rows
      BY <2>5, <3>1 DEF Publish, WriteFails, List, Mark, Shutdown, vars, TakeUp, Resume
    <3>3. QED
      BY <2>2, <3>2
  <2>6. CASE UserRequest
    <3>1. rows' = rows
      BY <2>6 DEF UserRequest, Create, Load, Cancel, AskContinue, AskDelete, Steer, Rename, Continue, Delete, Request
    <3>2. QED
      BY <2>2, <3>1
  <2>7. QED
    BY <1>1, <2>3, <2>4, <2>5, <2>6 DEF Next
<1>2. IInv /\ [Next]_vars => [\A c \in Conv :
        rows[c] # None /\ rows'[c] # None =>
            /\ rows'[c].turn >= rows[c].turn
            /\ rows'[c].turn = rows[c].turn /\ rows[c].status \in Terminal
               => rows'[c].status \in Terminal]_rows
  BY <1>1
<1>3. QED
  BY <1>2, Invariance, PTL DEF Spec, OutcomeNotUndone

=============================================================================
