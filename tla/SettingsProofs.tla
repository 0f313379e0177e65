--------------------------- MODULE SettingsProofs ---------------------------
(***************************************************************************)
(* SettingsTransaction: type correctness, the refinement of AtomicSettings *)
(* and the agreement of memory and disk, for every set of files.           *)
(***************************************************************************)
EXTENDS SettingsTransaction, TLAPS

-----------------------------------------------------------------------------
(* The inductive invariant: what each step of a request may rely on.       *)

Inner == {"snapshot", "receipt", "body", "commit", "undo"}
Outer == {"recover", "restore", "unlink"}

\* A request is served exactly while the process is between its begin and its answer.
Phases ==
    /\ (request # None) <=> (pc \in Inner \/ (pc \in Outer /\ mode # "start"))
    /\ pc \in Inner => mode = "ask"
    /\ pc = "recover" => mode \in {"start", "ask"}
    /\ pc = "restore" => mode # "commit"

\* The receipt and the files agree as far as the step in progress has come.
Journal ==
    /\ pc = "restore" => IsPending /\ \A t \in Targets \ left : file[t] = receipt.before[t]
    /\ pc = "unlink" => /\ receipt # None
                        /\ IsPending => file = receipt.before
                        /\ mode = "commit" => ~IsPending
    /\ pc \in {"snapshot", "receipt"} => receipt = None
    /\ pc \in {"body", "commit"} => receipt = Pending
    /\ pc \in {"restore", "unlink"} /\ mode = "undo" => receipt = Pending
    /\ pc = "undo" => receipt \in {None, Pending, Committed}

\* The targets a request rewrites.
Rewritten == Always \cup request.touched

\* The files under a request are what they were, or what it wants.
Served ==
    request # None =>
        /\ \A t \in Targets \ Rewritten : request.want[t] = request.base[t]
        /\ pc \in {"receipt", "body", "commit", "undo"} => before = request.base
        /\ pc \in {"restore", "unlink"} /\ mode = "undo" => before = request.base
        /\ pc = "body" => left \subseteq Rewritten /\ \A t \in Targets \ left : t \in Rewritten => file[t] = request.want[t]
        /\ pc = "body" => \A t \in Targets \ Rewritten : file[t] = request.base[t]
        /\ pc = "commit" => file = request.want
        /\ pc = "unlink" /\ mode = "commit" => Durable = request.want
        /\ pc = "undo" /\ receipt = Committed => file = request.want
        /\ ~(pc = "unlink" /\ mode = "commit") /\ ~(pc = "undo" /\ receipt = Committed)
             => Durable = request.base

\* The invariant behind the refinement.
IInv == TypeOK /\ Phases /\ Journal /\ Served

\* Memory under a request: as before it where it has not been rewritten, and again
\* after an exception.
Memory ==
    /\ pc = "idle" => \A t \in Targets \ stray : live[t] = Durable[t]
    /\ request # None =>
        /\ \A t \in Targets \ stray : request.old[t] = request.base[t]
        /\ IF pc \in {"body", "commit"} \/ (pc = "unlink" /\ mode = "commit")
           THEN \A t \in Targets : live[t] = IF t \in Rewritten /\ (pc = "body" => t \notin left)
                                             THEN request.want[t] ELSE request.old[t]
           ELSE live = request.old
    /\ pc = "undo" /\ receipt = Committed => faults >= 2

-----------------------------------------------------------------------------
(* Type correctness.                                                       *)

\* The first start finds no receipt and the files of the installation.
LEMMA InitTyped == Init => TypeOK
BY DEF Init, TypeOK, Generation

\* Every step keeps the state well typed; a restore needs the journal for the
\* image it writes back.
LEMMA NextTyped == IInv /\ [Next]_vars => TypeOK'
<1> SUFFICES ASSUME IInv, [Next]_vars PROVE TypeOK'
  OBVIOUS
<1> USE TargetAssumption, NoneAssumption DEF IInv
<1>1. CASE Start
  BY <1>1 DEF Start, TypeOK, disk
<1>2. CASE Ask
  BY <1>2 DEF Ask, Durable, IsPending, TypeOK, Generation, Receipt, Request, disk
<1>3. CASE Recover
  BY <1>3 DEF Recover, RecoveryFails, Recovered, Answer, Succeed, Fail, TypeOK, disk
<1>4. CASE Restore
  BY <1>4 DEF Restore, RecoveryFails, Answer, Image, Succeed, Fail, IsPending, Pending,
       TypeOK, Generation, Receipt, Journal, disk
<1>5. CASE Unlink
  BY <1>5 DEF Unlink, RecoveryFails, Recovered, Answer, Succeed, Fail, TypeOK
<1>6. CASE Snapshot
  BY <1>6 DEF Snapshot, Answer, Succeed, Fail, TypeOK, disk
<1>7. CASE WriteReceipt
  BY <1>7 DEF WriteReceipt, Except, Succeed, Fail, Pending, TypeOK, Receipt, Request, Phases,
       Served, Inner
<1>8. CASE Body
  BY <1>8 DEF Body, Except, Succeed, Fail, TypeOK, Generation, Request, Phases, Inner
<1>9. CASE Commit
  BY <1>9 DEF Commit, Except, Succeed, Fail, Committed, TypeOK, Receipt, Request, Phases,
       Served, Inner
<1>10. CASE Rollback
  BY <1>10 DEF Rollback, Answer, Succeed, Fail, Pending, TypeOK, Receipt, Request, Phases,
       Served, Inner
<1>11. CASE Learn
  BY <1>11 DEF Learn, TypeOK, Generation
<1>12. CASE Crash
  BY <1>12 DEF Crash, TypeOK, disk
<1>13. CASE UNCHANGED vars
  BY <1>13 DEF vars, TypeOK
<1> QED BY <1>1, <1>2, <1>3, <1>4, <1>5, <1>6, <1>7, <1>8, <1>9, <1>10, <1>11, <1>12,
     <1>13 DEF Next

-----------------------------------------------------------------------------
(* The invariant is inductive.                                             *)

\* A step keeps the request and the phase of the process together.
LEMMA NextPhases == IInv /\ [Next]_vars => Phases'
<1> SUFFICES ASSUME IInv, [Next]_vars, TypeOK' PROVE Phases'
  BY NextTyped
<1> USE TargetAssumption, NoneAssumption DEF IInv
<1>1. CASE Start
  BY <1>1 DEF Start, Phases, Inner, Outer
<1>2. CASE Ask
  BY <1>2 DEF Ask, Durable, IsPending, TypeOK, Generation, Receipt, Request, Phases, Outer
<1>3. CASE Recover
  BY <1>3 DEF Recover, RecoveryFails, Recovered, Answer, Phases, Inner, Outer
<1>4. CASE Restore
  BY <1>4 DEF Restore, RecoveryFails, Answer, Phases, Inner, Outer
<1>5. CASE Unlink
  BY <1>5 DEF Unlink, RecoveryFails, Recovered, Answer, Phases, Inner, Outer
<1>6. CASE Snapshot
  BY <1>6 DEF Snapshot, Answer, Phases, Inner, Outer
<1>7. CASE WriteReceipt
  BY <1>7 DEF WriteReceipt, Except, Phases, Inner
<1>8. CASE Body
  BY <1>8 DEF Body, Except, Phases, Inner
<1>9. CASE Commit
  BY <1>9 DEF Commit, Except, Phases, Inner, Outer
<1>10. CASE Rollback
  BY <1>10 DEF Rollback, Answer, Phases, Inner, Outer
<1>11. CASE Learn
  BY <1>11 DEF Learn, Phases
<1>12. CASE Crash
  BY <1>12 DEF Crash, Phases, Inner
<1>13. CASE UNCHANGED vars
  BY <1>13 DEF vars, Phases
<1> QED BY <1>1, <1>2, <1>3, <1>4, <1>5, <1>6, <1>7, <1>8, <1>9, <1>10, <1>11, <1>12,
     <1>13 DEF Next

\* A step keeps the receipt what the phase says it is.
LEMMA NextJournal == IInv /\ [Next]_vars => Journal'
<1> SUFFICES ASSUME IInv, [Next]_vars, TypeOK' PROVE Journal'
  BY NextTyped
<1> USE TargetAssumption, NoneAssumption DEF IInv
<1>1. CASE Start
  BY <1>1 DEF Start, Journal
<1>2. CASE Ask
  BY <1>2 DEF Ask, Journal
<1>3. CASE Recover
  BY <1>3 DEF Recover, RecoveryFails, Recovered, Answer, IsPending, Phases, Journal, disk
<1>4. CASE Restore
  BY <1>4 DEF Restore, RecoveryFails, Answer, Image, IsPending, Pending, TypeOK, Generation,
       Receipt, Phases, Journal, disk
<1>5. CASE Unlink
  BY <1>5 DEF Unlink, RecoveryFails, Recovered, Answer, Journal
<1>6. CASE Snapshot
  BY <1>6 DEF Snapshot, Answer, Journal, disk
<1>7. CASE WriteReceipt
  BY <1>7 DEF WriteReceipt, Except, Pending, Journal
<1>8. CASE Body
  BY <1>8 DEF Body, Except, Pending, Journal
<1>9. CASE Commit
  BY <1>9 DEF Commit, Except, IsPending, Pending, Committed, TypeOK, Receipt, Journal
<1>10. CASE Rollback
  BY <1>10 DEF Rollback, Answer, IsPending, Pending, TypeOK, Receipt, Request, Phases,
       Journal, Served, Inner
<1>11. CASE Learn
  BY <1>11 DEF Learn, Journal
<1>12. CASE Crash
  BY <1>12 DEF Crash, Journal
<1>13. CASE UNCHANGED vars
  BY <1>13 DEF vars, Journal, IsPending, Pending, Committed
<1> QED BY <1>1, <1>2, <1>3, <1>4, <1>5, <1>6, <1>7, <1>8, <1>9, <1>10, <1>11, <1>12,
     <1>13 DEF Next

\* A step keeps the files under a request at what it found or at what it wants.
LEMMA NextServed == IInv /\ [Next]_vars => Served'
<1> SUFFICES ASSUME IInv, [Next]_vars, TypeOK' PROVE Served'
  BY NextTyped
<1> USE TargetAssumption, NoneAssumption DEF IInv
<1>1. CASE Start
  BY <1>1 DEF Start, Phases, Served, Inner, Outer
<1>2. CASE Ask
  BY <1>2 DEF Ask, Durable, IsPending, Served, Rewritten, disk
<1>3. CASE Recover
  BY <1>3 DEF Recover, RecoveryFails, Recovered, Answer, Durable, IsPending, Phases, Served,
       Rewritten, disk
<1>4. CASE Restore
  BY <1>4 DEF Restore, RecoveryFails, Answer, Durable, IsPending, Phases, Journal, Served,
       Rewritten, disk
<1>5. CASE Unlink
  BY <1>5 DEF Unlink, RecoveryFails, Recovered, Answer, Durable, IsPending, Journal, Served,
       Rewritten
<1>6. CASE Snapshot
  BY <1>6 DEF Snapshot, Answer, Durable, IsPending, Journal, Served, Rewritten, disk
<1>7. CASE WriteReceipt
  BY <1>7 DEF WriteReceipt, Except, Durable, IsPending, Pending, Committed, TypeOK, Receipt,
       Journal, Served, Rewritten
<1>8. CASE Body
  BY <1>8 DEF Body, Except, Durable, IsPending, Pending, Committed, TypeOK, Generation,
       Receipt, Request, Journal, Served, Rewritten
<1>9. CASE Commit
  BY <1>9 DEF Commit, Except, Durable, IsPending, Committed, Served, Rewritten
<1>10. CASE Rollback
  BY <1>10 DEF Rollback, Answer, Durable, IsPending, Pending, Committed, TypeOK, Receipt,
       Served, Rewritten
<1>11. CASE Learn
  BY <1>11 DEF Learn, Phases, Served, Inner, Outer
<1>12. CASE Crash
  BY <1>12 DEF Crash, Served
<1>13. CASE UNCHANGED vars
  BY <1>13 DEF vars, Served, Durable, IsPending, Committed, Rewritten
<1> QED BY <1>1, <1>2, <1>3, <1>4, <1>5, <1>6, <1>7, <1>8, <1>9, <1>10, <1>11, <1>12,
     <1>13 DEF Next

\* The invariant holds before the first start.
LEMMA InitIInv == Init => IInv
BY InitTyped DEF Init, IInv, Phases, Journal, Served, Inner

\* The inductive invariant: whatever fails and wherever the process dies, receipt,
\* files and phase agree (settings_transaction.py with _apply_settings_patch_unlocked).
THEOREM Invariance == Spec => []IInv
<1>1. IInv /\ [Next]_vars => IInv'
  BY NextTyped, NextPhases, NextJournal, NextServed DEF IInv
<1> QED BY InitIInv, <1>1, PTL DEF Spec

-----------------------------------------------------------------------------
(* Memory and disk.                                                        *)

\* A step keeps memory what the request found, until the body writes it, and
\* gives it back with an exception.
LEMMA NextMemory ==
    ASSUME MaxFaults <= 2
    PROVE  IInv /\ Memory /\ [Next]_vars => Memory'
<1> SUFFICES ASSUME IInv, Memory, [Next]_vars, IInv' PROVE Memory'
  BY NextTyped, NextPhases, NextJournal, NextServed DEF IInv
<1> USE TargetAssumption, NoneAssumption DEF IInv
<1>1. CASE Start
  BY <1>1 DEF Start, Memory, Phases
<1>2. CASE Ask
  BY <1>2 DEF Ask, Memory
<1>3. CASE Recover
  BY <1>3 DEF Recover, RecoveryFails, Recovered, Answer, Memory, Durable, IsPending, Phases,
       Served, Outer
<1>4. CASE Restore
  BY <1>4 DEF Restore, RecoveryFails, Answer, Memory, Durable, IsPending, Phases, Journal,
       Served, Outer
<1>5. CASE Unlink
  BY <1>5 DEF Unlink, RecoveryFails, Recovered, Answer, Memory, Durable, IsPending, Phases,
       Journal, Served, Outer
<1>6. CASE Snapshot
  BY <1>6 DEF Snapshot, Answer, Memory, Durable, IsPending, Phases, Served, Inner, disk
<1>7. CASE WriteReceipt
  BY <1>7 DEF WriteReceipt, Except, Memory, Pending, Committed, TypeOK, Receipt, Request,
       Phases, Journal, Served, Rewritten, Inner
<1>8. CASE Body
  BY <1>8 DEF Body, Except, Memory, Pending, Committed, TypeOK, Generation, Journal, Served,
       Rewritten
<1>9. CASE Commit
  BY <1>9 DEF Commit, Except, Memory, Fail, Pending, Committed, TypeOK, Journal, Rewritten
<1>10. CASE Rollback
  BY <1>10 DEF Rollback, Answer, Memory, Fail, CanFail, Durable, IsPending, Pending, TypeOK,
       Phases, Journal, Served, Inner
<1>11. CASE Learn
  BY <1>11 DEF Learn, Memory, Durable, IsPending, TypeOK, Generation, Phases, Inner, Outer
<1>12. CASE Crash
  BY <1>12 DEF Crash, Memory
<1>13. CASE UNCHANGED vars
  BY <1>13 DEF vars, Memory, Durable, IsPending, Committed, Rewritten
<1> QED BY <1>1, <1>2, <1>3, <1>4, <1>5, <1>6, <1>7, <1>8, <1>9, <1>10, <1>11, <1>12,
     <1>13 DEF Next

\* Between requests the process works with the settings a restart would find, as
\* long as at most two file operations of a request fail: the exception path of
\* _apply_settings_patch_unlocked undoes memory together with the files.
THEOREM MemoryAgrees ==
    ASSUME MaxFaults <= 2
    PROVE  Spec => []LiveIsDurable
<1>1. Init => Memory
  BY DEF Init, Memory
<1>2. IInv /\ Memory => LiveIsDurable
  BY DEF Memory, LiveIsDurable
<1> QED BY Invariance, <1>1, <1>2, NextMemory, PTL DEF Spec

-----------------------------------------------------------------------------
(* All or nothing.                                                         *)

\* Every step of the journal is a step of the atomic settings, or none.
LEMMA StepRefines == IInv /\ IInv' /\ [Next]_vars => [Atomic!Next]_(Atomic!vars)
<1> SUFFICES ASSUME IInv, [Next]_vars, IInv' PROVE [Atomic!Next]_(Atomic!vars)
  OBVIOUS
<1> USE TargetAssumption, NoneAssumption DEF IInv
<1>1. CASE Start
  BY <1>1 DEF Start, Atomic!vars, Durable, IsPending, disk
<1>2. CASE Ask
  BY <1>2 DEF Ask, Atomic!Next, Atomic!Ask, TypeOK, Generation, Request, Phases, Served,
       Inner, Outer
<1>3. CASE Recover
  BY <1>3 DEF Recover, RecoveryFails, Recovered, Answer, Atomic!Next, Atomic!vars,
       Atomic!Answer, Durable, IsPending, TypeOK, Request, Phases, Served, Outer, disk
<1>4. CASE Restore
  BY <1>4 DEF Restore, RecoveryFails, Answer, Image, Atomic!Next, Atomic!vars, Atomic!Ask, Atomic!TakeEffect, Atomic!Answer, Atomic!Learn, Succeed, Fail, CanFail, Durable, IsPending, Pending, Committed,
            TypeOK, Generation, Receipt, Request, Phases, Journal, Served, Rewritten, Inner, Outer, disk
<1>5. CASE Unlink
  BY <1>5 DEF Unlink, RecoveryFails, Recovered, Answer, Atomic!Next, Atomic!vars, Atomic!Ask, Atomic!TakeEffect, Atomic!Answer, Atomic!Learn, Succeed, Fail, CanFail, Durable, IsPending, Pending, Committed,
            TypeOK, Generation, Receipt, Request, Phases, Journal, Served, Rewritten, Inner, Outer, disk
<1>6. CASE Snapshot
  BY <1>6 DEF Snapshot, Answer, Atomic!Next, Atomic!TakeEffect, Atomic!Answer, Durable,
       IsPending, TypeOK, Request, Phases, Served, Inner, disk
<1>7. CASE WriteReceipt
  BY <1>7 DEF WriteReceipt, Except, Atomic!vars, Pending, Committed, TypeOK, Receipt, Request,
       Phases, Journal, Served, Inner
<1>8. CASE Body
  BY <1>8 DEF Body, Except, Atomic!vars, Pending, Committed, Phases, Journal, Served, Inner
<1>9. CASE Commit
  BY <1>9 DEF Commit, Except, Atomic!Next, Atomic!TakeEffect, Durable, Committed, TypeOK,
       Request, Phases, Served, Inner
<1>10. CASE Rollback
  BY <1>10 DEF Rollback, Answer, Atomic!Next, Atomic!TakeEffect, Atomic!Answer, Durable,
       IsPending, Pending, Committed, TypeOK, Request, Phases, Journal, Served, Inner
<1>11. CASE Learn
  <2>1. request = None /\ UNCHANGED <<receipt, request, reply>>
    BY <1>11 DEF Learn, Phases, Inner, Outer
  <2>2. /\ Durable \in Generation /\ Durable' \in Generation
        /\ Durable' = Durable \/ Durable' = [Durable EXCEPT ![Learnt] = Durable'[Learnt]]
    BY <1>11 DEF Learn, Durable, IsPending, TypeOK, Receipt
  <2>3. CASE Durable' = Durable
    BY <2>1, <2>3 DEF Atomic!vars
  <2>4. CASE Durable' = [Durable EXCEPT ![Learnt] = Durable'[Learnt]]
    BY <2>1, <2>2 DEF Atomic!Next, Atomic!Learn, Generation
  <2> QED BY <2>2, <2>3, <2>4
<1>12. CASE Crash
  BY <1>12 DEF Crash, Atomic!Next, Atomic!vars, Atomic!Answer, Durable, IsPending, Committed,
       TypeOK, Request, Served, disk
<1>13. CASE UNCHANGED vars
  BY <1>13 DEF vars, Atomic!vars, Durable, IsPending
<1> QED BY <1>1, <1>2, <1>3, <1>4, <1>5, <1>6, <1>7, <1>8, <1>9, <1>10, <1>11, <1>12,
     <1>13 DEF Next

\* Through every failed file operation and every crash the settings that survive
\* are those before the request or those it asked for, and the answer says which.
THEOREM Refinement == Spec => AllOrNothing
<1>1. Init => Atomic!Init
  BY DEF Init, Atomic!Init, Durable, IsPending
<1> QED BY Invariance, <1>1, StepRefines, PTL DEF Spec, AllOrNothing, Atomic!Spec

=============================================================================
