------------------------- MODULE SettingsTransaction -------------------------
(***************************************************************************)
(* The rollback journal of the local settings (settings_transaction.py) as *)
(* _apply_settings_patch_unlocked (main.py) and create_app drive it.  The  *)
(* targets are files (provider vault, preferences, control baseline), each *)
(* replaced atomically; a receipt holds their before-images and a phase.   *)
(*                                                                         *)
(* The body of a request does not await, so inside one process only file   *)
(* operations interleave with the outside world: every one of them is a    *)
(* step, may fail before or after its replacement, and may be the last one *)
(* before the process dies.  settings_update_lock serves one request at a  *)
(* time.                                                                   *)
(***************************************************************************)
EXTENDS Naturals, FiniteSets

CONSTANTS
    Targets,     \* the files one request may change
    Always,      \* those every request rewrites from memory (vault, preferences)
    Learnt,      \* the target an event handler updates outside a request (vault)
    MaxFaults,   \* file operations that may fail during one request or start
    MaxGen,      \* bound on the generations written (model checking only)
    None

ASSUME TargetAssumption ==
    /\ IsFiniteSet(Targets)
    /\ Always \subseteq Targets /\ Learnt \in Always
    /\ MaxFaults \in Nat /\ MaxGen \in Nat

VARIABLES
    file,      \* disk: target -> generation
    receipt,   \* disk: None or [phase, before]
    live,      \* memory: target -> generation (stores, clients, bridges)
    pc,        \* what the process does next
    mode,      \* why it restores or unlinks: "start", "ask", "undo", "commit"
    left,      \* targets the loop in progress still has to write
    request,   \* None or [base, want, touched, old]; base and want are history
    before,    \* self.snapshot["before"], or None
    reply,     \* answer to the last request
    gen,       \* generations used so far
    faults,    \* failed file operations of this request or start
    stray      \* history: targets whose update outside a request met a failure
               \* or a pending rollback since the start of the process

disk == <<file, receipt>>
vars == <<file, receipt, live, pc, mode, left, request, before, reply, gen,
          faults, stray>>

Generation == [Targets -> Nat]

Receipt == [phase : {"pending", "committed"}, before : Generation]

Request == [base : Generation, want : Generation, touched : SUBSET Targets,
            old : Generation]

ASSUME NoneAssumption ==
    None \notin Receipt \cup Generation \cup Request \cup [base : Generation, want : Generation]

TypeOK ==
    /\ file \in Generation
    /\ receipt \in Receipt \cup {None}
    /\ live \in Generation
    /\ pc \in {"down", "recover", "restore", "unlink", "idle", "snapshot",
               "receipt", "body", "commit", "undo"}
    /\ mode \in {"start", "ask", "undo", "commit"}
    /\ left \subseteq Targets
    /\ request \in Request \cup {None}
    /\ before \in Generation \cup {None}
    /\ reply \in {"none", "saved", "rejected", "recovery", "crashed"}
    /\ gen \in Nat
    /\ faults \in Nat
    /\ stray \subseteq Targets

Init ==
    /\ file = [t \in Targets |-> 0]
    /\ receipt = None
    /\ live = [t \in Targets |-> 0]
    /\ pc = "down" /\ mode = "start" /\ left = {}
    /\ request = None /\ before = None /\ reply = "none"
    /\ gen = 0 /\ faults = 0 /\ stray = {}

\* What survives a restart: a pending receipt takes every target back.
IsPending == receipt # None /\ receipt.phase = "pending"

Durable == IF IsPending THEN receipt.before ELSE file

CanFail(n) == faults + n <= MaxFaults

\* An operation that fails n times over, or succeeds.
Fail(n) == CanFail(n) /\ faults' = faults + n
Succeed == UNCHANGED faults

Answer(r) ==
    /\ reply' = r
    /\ pc' = "idle" /\ request' = None /\ before' = None /\ left' = {}

-----------------------------------------------------------------------------
(* SettingsTransaction.recover, at startup and in begin.                   *)

\* create_app recovers before any store reads its file.
Start ==
    /\ pc = "down"
    /\ pc' = "recover" /\ mode' = "start" /\ faults' = 0 /\ stray' = {}
    /\ UNCHANGED <<disk, live, left, request, before, reply, gen>>

\* A patch that passed _prepare_settings_patch opens the transaction.
Ask ==
    /\ pc = "idle" /\ gen < MaxGen
    /\ \E touched \in SUBSET Targets \ {{}} :
          request' = [base |-> Durable, touched |-> touched, old |-> live,
                      want |-> [t \in Targets |->
                          IF t \in touched THEN gen + 1
                          ELSE IF t \in Always THEN live[t] ELSE Durable[t]]]
    /\ gen' = gen + 1
    /\ pc' = "recover" /\ mode' = "ask" /\ faults' = 0 /\ reply' = "none"
    /\ UNCHANGED <<disk, live, left, before, stray>>

\* SettingsRecoveryError: the application does not start, the request ends.
RecoveryFails ==
    /\ IF mode = "start"
       THEN pc' = "down" /\ left' = {} /\ UNCHANGED <<request, before, reply>>
       ELSE Answer("recovery")
    /\ UNCHANGED <<receipt, mode, live, gen, stray>>

\* The receipt is gone: the stores load their files, or the request begins.
Recovered ==
    /\ IF mode = "start" THEN pc' = "idle" /\ live' = file
                         ELSE pc' = "snapshot" /\ UNCHANGED live
    /\ left' = {}
    /\ UNCHANGED <<file, mode, request, before, reply, gen, stray>>

Recover ==
    /\ pc = "recover"
    /\ \/ receipt = None /\ Recovered /\ Succeed /\ UNCHANGED receipt
       \/ receipt # None /\ Fail(1) /\ RecoveryFails /\ UNCHANGED file
       \/ /\ receipt # None /\ Succeed
          /\ IF IsPending
             THEN pc' = "restore" /\ left' = Targets
             ELSE pc' = "unlink" /\ left' = {}
          /\ UNCHANGED <<disk, live, mode, request, before, reply, gen, stray>>

\* _restore, one file at a time; it serves recover and rollback alike.
Image == IF mode = "undo" THEN before ELSE receipt.before

Restore ==
    /\ pc = "restore"
    /\ \/ \E t \in left :
            /\ file' = [file EXCEPT ![t] = Image[t]]
            /\ left' = left \ {t}
            /\ Succeed
            /\ UNCHANGED <<receipt, live, pc, mode, request, before, reply, gen, stray>>
       \/ /\ left # {} /\ Fail(1) /\ RecoveryFails
          /\ \/ UNCHANGED file
             \/ \E t \in left : file' = [file EXCEPT ![t] = Image[t]]
       \/ /\ left = {} /\ pc' = "unlink" /\ Succeed
          /\ UNCHANGED <<disk, live, mode, left, request, before, reply, gen, stray>>

\* A receipt that was committed may stay behind, a pending one may not.
Unlink ==
    /\ pc = "unlink"
    /\ \/ /\ mode \in {"start", "ask"} /\ receipt' = None
          /\ Recovered /\ Succeed
       \/ /\ mode = "undo" /\ receipt' = None
          /\ Answer("rejected") /\ Succeed
          /\ UNCHANGED <<file, live, mode, gen, stray>>
       \/ /\ mode = "commit" /\ Answer("saved")
          /\ (receipt' = None /\ Succeed) \/ (Fail(1) /\ UNCHANGED receipt)
          /\ UNCHANGED <<file, live, mode, gen, stray>>
       \/ /\ mode # "commit" /\ Fail(1) /\ RecoveryFails /\ UNCHANGED file

-----------------------------------------------------------------------------
(* begin, the body of the request, commit, rollback.                       *)

FaultExcept ==   \* fault: an exception leaves the new settings in memory
    /\ pc' = "undo" /\ live' = live /\ left' = {}
    /\ UNCHANGED <<mode, request, before, reply, gen, stray>>

\* An exception: live state goes back first, then the files.
Except ==
    /\ pc' = "undo" /\ live' = request.old /\ left' = {}
    /\ UNCHANGED <<mode, request, before, reply, gen, stray>>

Snapshot ==
    /\ pc = "snapshot"
    /\ \/ /\ before' = file /\ pc' = "receipt" /\ Succeed
          /\ UNCHANGED <<live, mode, left, request, reply, gen, stray>>
       \/ /\ Fail(1) /\ Answer("rejected")
          /\ UNCHANGED <<live, mode, gen, stray>>
    /\ UNCHANGED disk

Pending == [phase |-> "pending", before |-> before]

WriteReceipt ==
    /\ pc = "receipt"
    /\ \/ /\ receipt' = Pending /\ Succeed
          /\ pc' = "body" /\ left' = Always \cup request.touched
          /\ UNCHANGED <<live, mode, request, before, reply, gen, stray>>
       \/ Fail(1) /\ receipt' \in {receipt, Pending} /\ Except
    /\ UNCHANGED file

\* provider_secrets.update, runtime_store.update, accept_runtime_ai_control
\* settings: the file, then memory.
Body ==
    /\ pc = "body"
    /\ \/ \E t \in left :
            /\ file' = [file EXCEPT ![t] = request.want[t]]
            /\ \/ /\ live' = [live EXCEPT ![t] = request.want[t]]
                  /\ left' = left \ {t} /\ Succeed
                  /\ UNCHANGED <<pc, mode, request, before, reply, gen, stray>>
               \/ Fail(1) /\ Except
       \/ Fail(1) /\ Except /\ UNCHANGED file
       \/ /\ left = {} /\ pc' = "commit" /\ Succeed
          /\ UNCHANGED <<file, live, mode, left, request, before, reply, gen, stray>>
    /\ UNCHANGED receipt

Committed == [phase |-> "committed", before |-> before]

\* A writer that fails is asked what it wrote; that read may fail as well.
Commit ==
    /\ pc = "commit"
    /\ receipt' \in {receipt, Committed}
    /\ \/ /\ receipt' = Committed
          /\ Succeed \/ Fail(1)
          /\ pc' = "unlink" /\ mode' = "commit"
          /\ UNCHANGED <<live, left, request, before, reply, gen, stray>>
       \/ receipt' = receipt /\ Fail(1) /\ Except
       \/ Fail(2) /\ Except
    /\ UNCHANGED file

FaultRollback ==   \* fault: any receipt on disk will do
    /\ pc = "undo"
    /\ \/ /\ receipt' = IF receipt = None THEN Pending ELSE receipt
          /\ Succeed
          /\ pc' = "restore" /\ mode' = "undo" /\ left' = Targets
          /\ UNCHANGED <<live, request, before, reply, gen, stray>>
       \/ /\ Fail(1) /\ Answer("recovery")
          /\ UNCHANGED <<receipt, live, mode, gen, stray>>
    /\ UNCHANGED file

\* rollback keeps a durable pending receipt until every restore has succeeded.
Rollback ==
    /\ pc = "undo"
    /\ \/ /\ receipt' = Pending
          /\ Succeed
          /\ pc' = "restore" /\ mode' = "undo" /\ left' = Targets
          /\ UNCHANGED <<live, request, before, reply, gen, stray>>
       \/ /\ Fail(1) /\ Answer("recovery")
          /\ \/ UNCHANGED receipt
             \/ receipt # Pending /\ receipt' = Pending
          /\ UNCHANGED <<live, mode, gen, stray>>
    /\ UNCHANGED file

-----------------------------------------------------------------------------
(* Outside a request.                                                      *)

\* A Feishu event teaches the credential store a new receive id.
Learn ==
    /\ pc = "idle" /\ gen < MaxGen
    /\ gen' = gen + 1
    /\ \/ /\ file' = [file EXCEPT ![Learnt] = gen + 1]
          /\ live' = [live EXCEPT ![Learnt] = gen + 1]
          /\ stray' = IF IsPending THEN stray \cup {Learnt} ELSE stray \ {Learnt}
       \/ /\ file' \in {file, [file EXCEPT ![Learnt] = gen + 1]}
          /\ stray' = stray \cup {Learnt}
          /\ UNCHANGED live
    /\ UNCHANGED <<receipt, pc, mode, left, request, before, reply, faults>>

Crash ==
    /\ pc # "down"
    /\ pc' = "down" /\ mode' = "start" /\ left' = {}
    /\ request' = None /\ before' = None
    /\ reply' = IF request = None THEN reply ELSE "crashed"
    /\ UNCHANGED <<disk, live, gen, faults, stray>>

Next ==
    \/ Start \/ Ask \/ Recover \/ Restore \/ Unlink \/ Snapshot \/ WriteReceipt
    \/ Body \/ Commit \/ Rollback \/ Learn \/ Crash

Spec == Init /\ [][Next]_vars

-----------------------------------------------------------------------------
(* Properties.                                                             *)

Atomic == INSTANCE AtomicSettings WITH
    settings <- Durable,
    asked <- IF request = None THEN None
             ELSE [base |-> request.base, want |-> request.want]

\* All or nothing: through every failed file operation and every crash, also a
\* crash during recovery, what survives a restart is the settings before the
\* request or those it asked for, never a mixture, and the answer "saved" or
\* "rejected" says which.
AllOrNothing == Atomic!Spec

\* The running process works with the settings a restart would find: after a
\* refused request its memory has not kept what the files gave up, nor lost
\* what they hold.  (Up to two failed file operations per request; with three
\* see NotCommitted.)
LiveIsDurable ==
    pc = "idle" => \A t \in Targets \ stray : live[t] = Durable[t]

\* "Settings were not committed; recovery must finish before further settings
\* changes" (_apply_settings_patch_unlocked): that answer means that the
\* settings which survive are those before the request.
NotCommitted ==
    [][request # None /\ reply' = "recovery" => Durable' = request.base]_vars

\* "A pending rollback must succeed before further settings writes/startup"
\* (SettingsRecoveryError): while no request is served, no settings file
\* changes as long as a rollback is pending.
RollbackFirst == [][pc = "idle" /\ IsPending => UNCHANGED file]_vars
=============================================================================
