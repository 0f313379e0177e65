---------------------------- MODULE ControlFiles ----------------------------
(***************************************************************************)
(* The guard of the files that define the agent (control_files.py): a      *)
(* baseline of their contents, kept in memory and in an authenticated file,*)
(* is verified and restored by a watchdog thread and around every call of a*)
(* tool.  The preferences file holds fields of the guard beside fields of  *)
(* the settings store, so both write it.                                   *)
(*                                                                         *)
(* The files are also written by whoever a tool starts, at any time: such  *)
(* writes are the steps of Change.  A pass over the files holds _sync_lock *)
(* of its process; a process takes the lease of the baseline file at its   *)
(* start.  Settings are saved through the journal of SettingsTransaction,  *)
(* of which only the receipt appears here.                                 *)
(***************************************************************************)
EXTENDS Naturals, FiniteSets

CONSTANTS
    Processes,   \* Elren processes on this workspace
    Release,     \* [Processes -> {"none", "v1", "v2"}]: the packages a process brings
    Packaged,    \* the file that is part of a package
    Added,       \* a path where no file belongs
    Calls,       \* calls of tools
    Blocked,     \* the calls whose declared target is protected
    MaxChanges,  \* writes of tools and their children, and reads and writes of the
                 \* guard that fail (model checking only)
    MaxSaves,    \* settings saved (model checking only)
    MaxStarts,   \* starts, with or without acceptance (model checking only)
    None

VARIABLES
    surface,   \* the protected files on disk
    settings,  \* runtime-settings.json: the guard's fields and the others
    vault,     \* the authenticated baseline file
    receipt,   \* the receipt of an open settings transaction
    lease,     \* who holds the lock file
    proc,      \* the guard and the settings store of each process
    lock,      \* _sync_lock of each process, and what its holder is doing
    calls,     \* the calls of tools and their results
    orphans,   \* a child process outlives the call that started it
    used,      \* changes and faults, saves, starts so far
    trampled   \* history: files were recovered or repaired without the lease

disk == <<surface, settings, vault, receipt>>
vars == <<disk, lease, proc, lock, calls, orphans, used, trampled>>

Files == {Packaged, Added}
Versions == {"none", "v1", "v2"}
Contents == {"absent", "v1", "v2", "changed"}
\* The settings as shipped are 0, then each save has its number; what a tool wrote into
\* the guard's fields is Foreign, and other settings that are missing, unreadable or not
\* those that were saved are Lost.
Foreign == MaxSaves + 1
Lost == MaxSaves + 1
Controls == 0 .. Foreign
Others == 0 .. Lost
Baseline == [entries : [Files -> Contents], control : Controls, manifest : Versions]
Preferences == [control : Controls, other : Others]
Receipt == [settings : Preferences, vault : Baseline \cup {None}]

\* Packages have a version, and nothing that exists is None.
ASSUME GuardAssumption ==
    /\ Release \in [Processes -> Versions] /\ MaxSaves \in Nat
    /\ None \notin Processes \cup Baseline \cup Receipt

Stages == {"down", "recovered", "boot", "vendor", "up", "stopping", "stopped"}
Owners == {"boot", "vendor", "undo", "start", "watchdog", "before", "after",
           "import", "imported", "stop", "save", "nobody"}

\* What the holder of a lock does: the files it has yet to write, what it read and
\* found, and what it will go back to.
Holding(by, at) == [by |-> by, at |-> at, todo |-> {}, read |-> 0, found |-> FALSE, old |-> None]
Free == Holding("nobody", "free")

Offline == [at |-> "down", guard |-> None, store |-> 0, watchdog |-> "off"]

TypeOK ==
    /\ surface \in [Files -> Contents] /\ settings \in Preferences
    /\ vault \in Baseline \cup {None} /\ lease \in Processes \cup {None}
    /\ \A p \in Processes :
        /\ proc[p].at \in Stages /\ proc[p].guard \in Baseline \cup {None}
        /\ proc[p].store \in Others /\ proc[p].watchdog \in {"off", "wait", "due"}
        /\ lock[p].by \in Owners /\ lock[p].todo \subseteq Files
    /\ \A c \in Calls : calls[c].at \in {"new", "before", "running", "returned", "after", "ok", "failed", "refused"}
    /\ orphans \in BOOLEAN /\ trampled \in BOOLEAN

Init ==
    /\ surface = [f \in Files |-> IF f = Packaged THEN "v1" ELSE "absent"]
    /\ settings = [control |-> 0, other |-> 0]
    /\ vault = None /\ receipt = None /\ lease = None
    /\ proc = [p \in Processes |-> Offline]
    /\ lock = [p \in Processes |-> Free]
    /\ calls = [c \in Calls |-> [at |-> "new", of |-> None, wrote |-> FALSE]]
    /\ orphans = FALSE /\ used = [changes |-> 0, saves |-> 0, starts |-> 0] /\ trampled = FALSE

-----------------------------------------------------------------------------
(* The pass: verify_and_restore and _restore_locked.                       *)

Clean(p) == surface = proc[p].guard.entries /\ settings.control = proc[p].guard.control

Take(p, by) == lock[p] = Free /\ lock' = [lock EXCEPT ![p] = Holding(by, "compare")]
In(p, at) == lock[p].at = at

\* A change found is repaired by writing the whole snapshot again.
Rewrite(pass) == [pass EXCEPT !.at = "restore", !.todo = Files, !.found = TRUE]

\* The baseline file is repaired first, from the bytes this process last pinned.
Compare(p) ==
    /\ In(p, "compare")
    /\ vault' = IF lock[p].by = "boot" THEN vault ELSE proc[p].guard
    /\ lock' = [lock EXCEPT ![p] = IF Clean(p) THEN [@ EXCEPT !.at = "done", !.found = vault' # vault]
                                   ELSE Rewrite(@)]
    /\ UNCHANGED <<surface, settings, receipt, lease, proc, calls, orphans, used, trampled>>

\* Additions are removed first.
RestoreFile(p) ==
    /\ In(p, "restore")
    /\ \E f \in lock[p].todo : (f = Packaged => Added \notin lock[p].todo) /\
        /\ surface' = [surface EXCEPT ![f] = proc[p].guard.entries[f]]
        /\ lock' = [lock EXCEPT ![p].todo = @ \ {f}]
    /\ UNCHANGED <<settings, vault, receipt, lease, proc, calls, orphans, used, trampled>>

\* _restore_runtime_control keeps the fields it does not own, as it read them.
ReadPreferences(p) ==
    /\ In(p, "restore") /\ lock[p].todo = {}
    /\ lock' = [lock EXCEPT ![p].at = "replace", ![p].read = settings.other]
    /\ UNCHANGED <<disk, lease, proc, calls, orphans, used, trampled>>

ReplacePreferences(p) ==
    /\ In(p, "replace")
    /\ settings' = [control |-> proc[p].guard.control, other |-> lock[p].read]
    /\ lock' = [lock EXCEPT ![p].at = "check"]
    /\ UNCHANGED <<surface, vault, receipt, lease, proc, calls, orphans, used, trampled>>

\* Somebody may have written again meanwhile: ControlFileStateError.
CheckAgain(p) ==
    /\ In(p, "check")
    /\ lock' = [lock EXCEPT ![p].at = IF Clean(p) THEN "done" ELSE "error"]
    /\ UNCHANGED <<disk, lease, proc, calls, orphans, used, trampled>>

\* A file cannot be read or written.  Compared, it counts as changed; the preferences are
\* taken as empty; anything else ends the pass with an error.
CanFail == used.changes < MaxChanges /\ used' = [used EXCEPT !.changes = @ + 1]

Misread(pass) ==
    {[pass EXCEPT !.at = "error"]} \cup
    (CASE pass.at = "compare" -> {Rewrite(pass)}
       [] pass.at = "restore" /\ pass.todo = {} -> {[pass EXCEPT !.at = "replace", !.read = Lost]}
       [] OTHER -> {})

PassFails(p) ==
    /\ CanFail
    /\ lock[p].at \in {"compare", "restore", "replace", "check"}
    /\ \E pass \in Misread(lock[p]) :
        /\ lock' = [lock EXCEPT ![p] = pass]
        /\ vault' = IF pass.at = "restore" /\ lock[p].by # "boot" THEN proc[p].guard ELSE vault
    /\ UNCHANGED <<surface, settings, receipt, lease, proc, calls, orphans, trampled>>

PassStep(p) == Compare(p) \/ RestoreFile(p) \/ ReadPreferences(p) \/ ReplacePreferences(p) \/ CheckAgain(p)

Ended(p, by) == lock[p].by = by /\ lock[p].at \in {"done", "error"}
Passed(p, by) == Ended(p, by) /\ lock[p].at = "done"
Unlock(p) == lock' = [lock EXCEPT ![p] = Free]

-----------------------------------------------------------------------------
(* Start: recovery of the settings, the lease, the baseline, the packages. *)

Recovered == IF receipt = None THEN UNCHANGED <<settings, vault>>
             ELSE settings' = receipt.settings /\ vault' = receipt.vault

\* create_app recovers an interrupted transaction before it asks for the lease.
Start(p) ==
    /\ proc[p].at = "down" /\ used.starts < MaxStarts
    /\ used' = [used EXCEPT !.starts = @ + 1]
    /\ proc' = [proc EXCEPT ![p] = [Offline EXCEPT !.at = "recovered"]]
    /\ Recovered /\ receipt' = None
    /\ trampled' = (trampled \/ (receipt # None /\ lease # None))
    /\ UNCHANGED <<surface, lease, lock, calls, orphans>>

\* Another process owns the baseline: the constructor raises.
LeaseRefused(p) ==
    /\ proc[p].at = "recovered" /\ lease # None
    /\ proc' = [proc EXCEPT ![p] = Offline]
    /\ UNCHANGED <<disk, lease, lock, calls, orphans, used, trampled>>

Captured == [entries |-> surface, control |-> settings.control, manifest |-> "none"]

\* _initialize_baseline: the stored baseline is enforced; without one, or when the
\* user accepts, the files as they are become the baseline.
LoadBaseline(p) ==
    /\ proc[p].at = "recovered" /\ lease = None /\ vault # None
    /\ lease' = p
    /\ proc' = [proc EXCEPT ![p].at = "boot", ![p].guard = vault]
    /\ lock' = [lock EXCEPT ![p] = Holding("boot", "compare")]
    /\ UNCHANGED <<disk, calls, orphans, used, trampled>>

AcceptBaseline(p) ==
    /\ proc[p].at = "recovered" /\ lease = None
    /\ lease' = p
    /\ proc' = [proc EXCEPT ![p].at = "vendor", ![p].guard = Captured]
    /\ vault' = Captured
    /\ UNCHANGED <<surface, settings, receipt, lock, calls, orphans, used, trampled>>

Booted(p) ==
    /\ Passed(p, "boot")
    /\ proc' = [proc EXCEPT ![p].at = "vendor"] /\ Unlock(p)
    /\ UNCHANGED <<disk, lease, calls, orphans, used, trampled>>

\* The start fails: the lease is given back.
GiveUp(p) ==
    /\ \E by \in {"boot", "undo", "start"} : Ended(p, by) /\ (by = "undo" \/ lock[p].at = "error")
    /\ proc' = [proc EXCEPT ![p] = Offline] /\ Unlock(p)
    /\ lease' = IF lease = p THEN None ELSE lease
    /\ UNCHANGED <<disk, calls, orphans, used, trampled>>

\* _migrate_vendor_update: a package nobody customized is replaced, compared
\* with the baseline and not with the disk.
Updated(p) ==
    LET guard == proc[p].guard IN
    [guard EXCEPT !.manifest = Release[p],
                  !.entries[Packaged] = IF @ \in {"v1", "v2"} THEN Release[p] ELSE @]

NoUpdate(p) == Release[p] = "none" \/ Release[p] = proc[p].guard.manifest

Migrate(p) ==
    /\ proc[p].at = "vendor" /\ lock[p] = Free /\ ~NoUpdate(p)
    /\ proc' = [proc EXCEPT ![p].guard = Updated(p)]
    /\ lock' = [lock EXCEPT ![p] =
           [Holding("vendor", "done") EXCEPT !.old = proc[p].guard,
               !.at = IF Updated(p).entries = proc[p].guard.entries THEN "done" ELSE "restore",
               !.todo = Files]]
    /\ UNCHANGED <<disk, lease, calls, orphans, used, trampled>>

\* The new snapshot is on disk; now the baseline file.  Its writer may report a
\* failure before or after the replacement, and the migration is undone.
Migrated(p) ==
    /\ Passed(p, "vendor")
    /\ vault' = proc[p].guard /\ Unlock(p)
    /\ UNCHANGED <<surface, settings, receipt, lease, proc, calls, orphans, used, trampled>>

FaultGoneBack(pass) == [pass.old EXCEPT !.manifest = "v2"]
GoneBack(pass) == pass.old

MigrationFails(p) ==
    /\ Ended(p, "vendor")
    /\ vault' \in {vault} \cup (IF lock[p].at = "done" THEN {proc[p].guard} ELSE {})
    /\ proc' = [proc EXCEPT ![p].guard = GoneBack(lock[p])]
    /\ lock' = [lock EXCEPT ![p] = Rewrite([@ EXCEPT !.by = "undo"])]
    /\ UNCHANGED <<surface, settings, receipt, lease, calls, orphans, used, trampled>>

\* The old baseline is saved again, and the start fails.
MigrationUndone(p) ==
    /\ Ended(p, "undo")
    /\ vault' \in (IF lock[p].at = "done" THEN {proc[p].guard} ELSE {vault})
    /\ proc' = [proc EXCEPT ![p] = Offline] /\ Unlock(p) /\ lease' = None
    /\ UNCHANGED <<surface, settings, receipt, calls, orphans, used, trampled>>

\* The settings store reads the preferences, and has the defaults when it cannot; start
\* verifies, then the watchdog runs.
StartGuard(p) ==
    /\ proc[p].at = "vendor" /\ NoUpdate(p) /\ Take(p, "start")
    /\ \/ proc' = [proc EXCEPT ![p].store = settings.other] /\ UNCHANGED used
       \/ proc' = [proc EXCEPT ![p].store = Lost] /\ CanFail
    /\ UNCHANGED <<disk, lease, calls, orphans, trampled>>

Started(p) ==
    /\ Passed(p, "start")
    /\ proc' = [proc EXCEPT ![p].at = "up", ![p].watchdog = "wait"] /\ Unlock(p)
    /\ UNCHANGED <<disk, lease, calls, orphans, used, trampled>>

Boot(p) ==
    \/ Start(p) \/ LeaseRefused(p) \/ LoadBaseline(p) \/ AcceptBaseline(p) \/ Booted(p) \/ GiveUp(p)
    \/ Migrate(p) \/ Migrated(p) \/ MigrationFails(p) \/ MigrationUndone(p)
    \/ StartGuard(p) \/ Started(p)

-----------------------------------------------------------------------------
(* The watchdog thread.                                                    *)

\* The interval is over and no stop was asked for.
WatchdogDue(p) ==
    /\ proc[p].watchdog = "wait" /\ proc[p].at = "up"
    /\ proc' = [proc EXCEPT ![p].watchdog = "due"]
    /\ UNCHANGED <<disk, lease, lock, calls, orphans, used, trampled>>

WatchdogRuns(p) ==
    /\ proc[p].watchdog = "due" /\ Take(p, "watchdog")
    /\ UNCHANGED <<disk, lease, proc, calls, orphans, used, trampled>>

\* An error of the pass is audited, and the thread goes on.
FaultAfterError == "off"
AfterError == "wait"

WatchdogDone(p) ==
    /\ Ended(p, "watchdog") /\ Unlock(p)
    /\ proc' = [proc EXCEPT ![p].watchdog = IF lock[p].at = "error" THEN AfterError ELSE "wait"]
    /\ UNCHANGED <<disk, lease, calls, orphans, used, trampled>>

\* stop: the event is set, the thread is joined.  Its pass may outlast the join
\* (5 s), not the step from the end of its wait to the lock.
FaultHeldUntilTheEnd(p) == None
HeldUntilTheEnd(p) == lease

AskStop(p) ==
    /\ proc[p].at = "up" /\ lock[p].by \in {"nobody", "watchdog"}
    /\ proc' = [proc EXCEPT ![p].at = "stopping"] /\ lease' = HeldUntilTheEnd(p)
    /\ UNCHANGED <<disk, lock, calls, orphans, used, trampled>>

WatchdogExits(p) ==
    /\ proc[p].at \in {"stopping", "stopped"} /\ proc[p].watchdog = "wait"
    /\ proc' = [proc EXCEPT ![p].watchdog = "off"]
    /\ UNCHANGED <<disk, lease, lock, calls, orphans, used, trampled>>

\* Waiting for the lock, stop cannot pass the watchdog's own pass.
FinalPass(p) ==
    /\ proc[p].at = "stopping" /\ Take(p, "stop")
    /\ proc[p].watchdog # "due"
    /\ UNCHANGED <<disk, lease, proc, calls, orphans, used, trampled>>

\* The lease is given back even when the files could not be restored.
Stopped(p) ==
    /\ Ended(p, "stop")
    /\ proc' = [proc EXCEPT ![p].at = "stopped"] /\ Unlock(p) /\ lease' = None
    /\ UNCHANGED <<disk, calls, orphans, used, trampled>>

\* One call at a time holds _async_lock; the passes around it are the event loop's.
Calling(p) == {c \in Calls : calls[c].of = p /\ calls[c].at \in {"before", "running", "returned", "after"}}

\* The event loop ends with its last task.
Exit(p) ==
    /\ proc[p].at = "stopped" /\ Calling(p) = {} /\ lock[p] = Free
    /\ proc' = [proc EXCEPT ![p] = Offline]
    /\ UNCHANGED <<disk, lease, lock, calls, orphans, used, trampled>>

Watch(p) == WatchdogDue(p) \/ WatchdogRuns(p) \/ WatchdogDone(p) \/ WatchdogExits(p)
Stop(p) == AskStop(p) \/ FinalPass(p) \/ Stopped(p) \/ Exit(p)

-----------------------------------------------------------------------------
(* Tools: call_plugin and run_untrusted_import.                            *)

CallBegins(p, c) ==
    /\ proc[p].at = "up" /\ calls[c].at = "new" /\ Calling(p) = {} /\ Take(p, "before")
    /\ calls' = [calls EXCEPT ![c] = [@ EXCEPT !.at = "before", !.of = p]]
    /\ UNCHANGED <<disk, lease, proc, orphans, used, trampled>>

\* A change found before the call, an error, or a declared protected target refuses it.
Refuses(pass, c) == pass.found \/ pass.at = "error" \/ c \in Blocked

CallChecked(p, c) ==
    /\ calls[c].at = "before" /\ calls[c].of = p /\ Ended(p, "before") /\ Unlock(p)
    /\ calls' = [calls EXCEPT ![c].at = IF Refuses(lock[p], c) THEN "refused" ELSE "running"]
    /\ UNCHANGED <<disk, lease, proc, orphans, used, trampled>>

\* The callback returns, fails or is cancelled; what it started may go on.
CallReturns(p, c) ==
    /\ calls[c].at = "running" /\ calls[c].of = p
    /\ calls' = [calls EXCEPT ![c].at = "returned"]
    /\ orphans' \in {orphans, TRUE}
    /\ UNCHANGED <<disk, lease, proc, lock, used, trampled>>

CallVerified(p, c) ==
    /\ calls[c].at = "returned" /\ calls[c].of = p /\ Take(p, "after")
    /\ calls' = [calls EXCEPT ![c].at = "after"]
    /\ trampled' = (trampled \/ lease # p)
    /\ UNCHANGED <<disk, lease, proc, orphans, used>>

\* Found and restored, or found and not restored: an error either way.
CallEnds(p, c) ==
    /\ calls[c].at = "after" /\ calls[c].of = p /\ Ended(p, "after") /\ Unlock(p)
    /\ calls' = [calls EXCEPT ![c].at = IF lock[p].found \/ lock[p].at = "error" THEN "failed" ELSE "ok"]
    /\ UNCHANGED <<disk, lease, proc, orphans, used, trampled>>

Call(p, c) == CallBegins(p, c) \/ CallChecked(p, c) \/ CallReturns(p, c) \/ CallVerified(p, c) \/ CallEnds(p, c)

\* External plugins are imported before the watchdog runs, between two passes.
ImportBegins(p) ==
    /\ proc[p].at = "vendor" /\ NoUpdate(p) /\ Take(p, "import")
    /\ UNCHANGED <<disk, lease, proc, calls, orphans, used, trampled>>

Imported(p) ==
    /\ Ended(p, "import")
    /\ lock' = [lock EXCEPT ![p] = IF @.found \/ @.at = "error" THEN Free
                                   ELSE Holding("imported", "compare")]
    /\ UNCHANGED <<disk, lease, proc, calls, orphans, used, trampled>>

ImportVerified(p) ==
    /\ Ended(p, "imported") /\ Unlock(p)
    /\ UNCHANGED <<disk, lease, proc, calls, orphans, used, trampled>>

Import(p) == ImportBegins(p) \/ Imported(p) \/ ImportVerified(p)

\* A running call or import, or a child that outlived its call, writes.
MayChange == orphans \/ (\E c \in Calls : calls[c].at = "running")
                     \/ (\E p \in Processes : Passed(p, "import"))

\* The preferences file may also lose its other settings, keep the guard's defaults only
\* (it was removed), or be no preferences at all.
Changed ==
    \/ \E f \in Files, v \in {"absent", "changed"} :
           surface[f] # v /\ surface' = [surface EXCEPT ![f] = v] /\ UNCHANGED settings
    \/ \E control \in {settings.control, 0, Foreign}, other \in {settings.other, Lost} :
           /\ settings' = [control |-> control, other |-> other]
           /\ settings' # settings /\ UNCHANGED surface

Change ==
    /\ MayChange /\ used.changes < MaxChanges /\ Changed
    /\ used' = [used EXCEPT !.changes = @ + 1]
    /\ calls' \in {calls} \cup {[calls EXCEPT ![c].wrote = TRUE] : c \in {k \in Calls : calls[k].at = "running"}}
    /\ calls = calls' => orphans \/ \E p \in Processes : Passed(p, "import")
    /\ UNCHANGED <<vault, receipt, lease, proc, lock, orphans, trampled>>

-----------------------------------------------------------------------------
(* Settings: runtime_settings_transaction.                                 *)

\* The guard's own fields are saved only while no tool is running.
SaveBegins(p, own) ==
    /\ proc[p].at = "up" /\ lock[p] = Free /\ used.saves < MaxSaves
    /\ own => \A c \in Calls : ~(calls[c].of = p /\ calls[c].at = "running")
    /\ used' = [used EXCEPT !.saves = @ + 1]
    /\ Recovered /\ trampled' = (trampled \/ receipt # None)
    /\ receipt' = [settings |-> settings', vault |-> vault']
    /\ lock' = [lock EXCEPT ![p] = [Holding("save", "body") EXCEPT !.found = own,
           !.old = [guard |-> proc[p].guard, store |-> proc[p].store, files |-> receipt']]]
    /\ UNCHANGED <<surface, lease, proc, calls, orphans>>

\* The whole file is written from the store's memory, guard's fields included.
Accepted(p) == IF lock[p].found THEN used.saves ELSE proc[p].guard.control

SaveWrites(p) ==
    /\ In(p, "body")
    /\ LET guard == [proc[p].guard EXCEPT !.control = Accepted(p)] IN
       /\ settings' = [control |-> guard.control, other |-> used.saves]
       /\ vault' = IF lock[p].found THEN guard ELSE vault
       /\ proc' = [proc EXCEPT ![p].guard = guard, ![p].store = used.saves]
       /\ lock' = [lock EXCEPT ![p].at = "commit"]
    /\ UNCHANGED <<surface, receipt, lease, calls, orphans, used, trampled>>

SaveCommits(p) ==
    /\ In(p, "commit") /\ receipt' = None /\ Unlock(p)
    /\ UNCHANGED <<surface, settings, vault, lease, proc, calls, orphans, used, trampled>>

\* The files and the memory go back to what they were.
FaultBefore(pass) == [pass.old EXCEPT !.guard.control = used.saves]
Before(pass) == pass.old

SaveFails(p) ==
    /\ In(p, "body") \/ In(p, "commit")
    /\ LET old == Before(lock[p]) IN
       /\ settings' = old.files.settings /\ vault' = old.files.vault
       /\ proc' = [proc EXCEPT ![p].guard = old.guard, ![p].store = old.store]
    /\ receipt' = None /\ Unlock(p)
    /\ UNCHANGED <<surface, lease, calls, orphans, used, trampled>>

Save(p) == (\E own \in BOOLEAN : SaveBegins(p, own)) \/ SaveWrites(p) \/ SaveCommits(p) \/ SaveFails(p)

-----------------------------------------------------------------------------

\* The process dies; the children of its tools may not.
Crash(p) ==
    /\ proc[p].at # "down"
    /\ proc' = [proc EXCEPT ![p] = Offline] /\ Unlock(p)
    /\ lease' = IF lease = p THEN None ELSE lease
    /\ calls' = [c \in Calls |-> IF c \in Calling(p) THEN [calls[c] EXCEPT !.at = "failed"] ELSE calls[c]]
    /\ orphans' \in {orphans, orphans \/ \E c \in Calling(p) : calls[c].at = "running"}
    /\ UNCHANGED <<disk, used, trampled>>

Next ==
    \/ Change
    \/ \E p \in Processes : PassStep(p) \/ PassFails(p) \/ Boot(p) \/ Watch(p) \/ Stop(p) \/ Save(p) \/ Crash(p)
                            \/ Import(p)
                            \/ (\E c \in Calls : Call(p, c))

\* The watchdog thread is scheduled again and again, also to the lock, and whoever
\* holds the lock ends its pass.
Fairness == \A p \in Processes :
    /\ WF_vars(PassStep(p)) /\ WF_vars(WatchdogDue(p)) /\ SF_vars(WatchdogRuns(p)) /\ WF_vars(WatchdogDone(p))
    /\ WF_vars(ImportVerified(p)) /\ WF_vars(\E c \in Calls : CallChecked(p, c) \/ CallEnds(p, c))
    /\ WF_vars(SaveWrites(p) \/ SaveCommits(p)) /\ WF_vars(Stopped(p))

Spec == Init /\ [][Next]_vars /\ Fairness

-----------------------------------------------------------------------------
(* What the guard promises.                                                *)

\* Two copies of the other settings are of one save, or one of them is lost.
Same(a, b) == a = b \/ Lost \in {a, b}

\* What a running process enforces and remembers is what the next start will
\* load: saved settings and migrated packages survive a crash, failed ones do not,
\* and no restore publishes "a stale copy of unrelated user preferences"
\* (control_files.py:1174), unless somebody without the lease wrote the files.  The
\* other settings are not guarded: they may be lost, on disk or in memory, never older.
MemoryIsDurable ==
    \A p \in Processes : proc[p].at = "up" /\ lock[p].by # "save" /\ ~trampled
                             => vault = proc[p].guard /\ Same(settings.other, proc[p].store)

\* The watchdog of a process that stops or failed never repairs files beside the
\* guard of another process, although stop's join may time out.
OneEnforcer ==
    \A p \in Processes : lock[p].by \in {"boot", "vendor", "undo", "start", "watchdog", "stop"}
                             => lease = p

\* A recorded package version says what is trusted: that version, or the user's own file.
ManifestIsTrusted == vault # None /\ vault.manifest # "none"
                         => vault.entries[Packaged] \in {vault.manifest, "changed", "absent"}

\* The guard: what it enforces is on disk, one process enforces at a time, and the
\* manifest it trusts is never one that a tool wrote.
ControlIsHeld == TypeOK /\ MemoryIsDurable /\ OneEnforcer /\ ManifestIsTrusted

\* What tools change is undone in a process that keeps running, whatever fails on the way.
ChangesAreUndone ==
    \A p \in Processes : []<>(proc[p].at = "up" => Clean(p))

\* A call that changed a protected file does not succeed (refuted: the watchdog
\* may undo the change before the call's own pass looks).
ChangeIsReported == \A c \in Calls : calls[c].wrote => calls[c].at # "ok"

\* A restore keeps the other settings (refuted: it takes a preferences file it cannot read
\* or parse as empty and writes the guard's fields only; one lost so is lost also in the
\* memory of the next start).
PreferencesAreKept ==
    \A p \in Processes : proc[p].at = "up" /\ lock[p].by # "save" /\ ~trampled
                             => settings.other = proc[p].store

\* No files are recovered beside a process that enforces and saves them (refuted:
\* a second start recovers the open transaction of the first, then is refused).
RecoversAlone == ~trampled
=============================================================================
