------------------------------ MODULE FilesProofs ------------------------------
(***************************************************************************)
(* What the stores on disk promise (MCFiles): the guard of the control     *)
(* files, for every set of processes and calls, every package and any      *)
(* number of starts, changes and saves; the files of the gateway; the task *)
(* database; the credentials.                                              *)
(***************************************************************************)
EXTENDS MCFiles, FiniteSetTheorems, TLAPS

(***************************************************************************)
(* The control files.                                                      *)
(*                                                                         *)
(* The argument follows the lease of the baseline file.  The process that  *)
(* has it is the only one that writes the files, unless somebody trampled  *)
(* on them, so its memory stays what is on disk; a pass, a save or a       *)
(* migration remembers what it must go back to.  That no baseline mistakes *)
(* a tool's file for a package is a matter of types: every baseline that   *)
(* is stored anywhere is a trusted one.                                    *)
(***************************************************************************)
-----------------------------------------------------------------------------
(* The inductive invariant.                                                *)

\* A recorded version is what is trusted of the packaged file.
Trusted(b) == b.manifest = "none" \/ b.entries[Packaged] \in {b.manifest, "changed", "absent"}
Trust == {b \in Baseline : Trusted(b)}
Saved == {r \in Receipt : r.vault \in Trust \cup {None}}
Previous == [guard : Trust, store : Others, files : Saved]
Places == {"free", "compare", "restore", "replace", "check", "done", "error", "body", "commit"}

Process == [at : Stages, guard : Trust \cup {None}, store : Others, watchdog : {"off", "wait", "due"}]
Pass == [by : Owners, at : Places, todo : SUBSET Files, read : Others, found : BOOLEAN,
         old : {None} \cup Trust \cup Previous]
ACall == [at : {"new", "before", "running", "returned", "after", "ok", "failed", "refused"},
          of : Processes \cup {None}, wrote : BOOLEAN]
Uses == [changes : Nat, saves : 0 .. MaxSaves, starts : Nat]

Disk ==
    /\ surface \in [Files -> Contents] /\ settings \in Preferences
    /\ vault \in Trust \cup {None} /\ receipt \in Saved \cup {None}
    /\ lease \in Processes \cup {None} /\ trampled \in BOOLEAN /\ orphans \in BOOLEAN
Memory ==
    /\ proc \in [Processes -> Process] /\ lock \in [Processes -> Pass]
    /\ calls \in [Calls -> ACall]
    /\ used \in Uses

\* Whose pass it is says where its process is, and what it remembers.
Placed(p) ==
    /\ lock[p].by = "nobody" => lock[p] = Free
    /\ lock[p].by = "boot" => proc[p].at = "boot"
    /\ lock[p].by \in {"vendor", "undo", "start", "import", "imported"} => proc[p].at = "vendor"
    /\ lock[p].by = "watchdog" => proc[p].at \in {"up", "stopping"} /\ proc[p].watchdog = "due"
    /\ lock[p].by \in {"before", "save"} => proc[p].at = "up"
    /\ lock[p].by = "stop" => proc[p].at = "stopping" /\ proc[p].watchdog # "due"
    /\ lock[p].by = "after" => proc[p].at \in {"up", "stopping", "stopped"}
    /\ proc[p].watchdog = "due" => proc[p].at \in {"up", "stopping"}
    /\ proc[p].at \notin {"down", "recovered"} => proc[p].guard \in Trust
    /\ lock[p].by = "save" <=> lock[p].at \in {"body", "commit"}
    /\ lock[p].by = "save" => lock[p].old \in Previous
    /\ lock[p].by = "vendor" => lock[p].old \in Trust
    /\ lock[p].by \in {"vendor", "undo"} => lock[p].at # "compare"

\* Who enforces, and only he, has the lease; a late pass of one that stopped tramples.
Leased(p) ==
    /\ proc[p].at \in {"boot", "vendor", "up", "stopping"} <=> lease = p
    /\ lock[p].by = "after" /\ ~trampled => lease = p

\* Who has the lease remembers what is on disk, or what he will put back.
Agreed(p) ==
    /\ lease = p /\ lock[p].by \notin {"vendor", "undo"} => vault = proc[p].guard
    /\ proc[p].at = "up" \/ lock[p].by = "start" => Same(settings.other, proc[p].store)
    /\ lock[p].at = "replace" /\ (proc[p].at = "up" \/ lock[p].by = "start")
           => Same(lock[p].read, proc[p].store)
    /\ lock[p].by = "save" => /\ lock[p].old.guard = lock[p].old.files.vault
                              /\ Same(lock[p].old.files.settings.other, lock[p].old.store)

Local(p) == Placed(p) /\ Leased(p) /\ (~trampled => Agreed(p))

\* The event loop of a call is still there.
Called == \A c \in Calls : calls[c].at \in {"before", "running", "returned", "after"} =>
    calls[c].of \in Processes /\ proc[calls[c].of].at \in {"up", "stopping", "stopped"}

IInv == Disk /\ Memory /\ (\A p \in Processes : Local(p)) /\ Called

-----------------------------------------------------------------------------
(* The values, and what a step leaves to the other processes.              *)

\* None is none of the things that are remembered.
LEMMA Values ==
    /\ None \notin Processes /\ None \notin Trust /\ None \notin Saved
    /\ Trust \subseteq Baseline /\ Saved \subseteq Receipt /\ MaxSaves \in Nat
BY GuardAssumption DEF Trust, Saved

\* A process that is down, a free lock and a lock that is taken are values of their types.
LEMMA Beginnings ==
    /\ Offline \in Process /\ Offline.at = "down" /\ Offline.watchdog = "off"
    /\ Free \in Pass /\ Free.by = "nobody" /\ Free.at = "free"
    /\ \A by \in Owners, at \in Places : /\ Holding(by, at) \in Pass
                                         /\ Holding(by, at).by = by /\ Holding(by, at).at = at
BY GuardAssumption DEF Offline, Process, Stages, Free, Holding, Pass, Owners, Places, Others, Lost

\* The types of one process.
LEMMA Records ==
    ASSUME IInv, NEW p \in Processes
    PROVE  proc[p] \in Process /\ lock[p] \in Pass /\ Local(p)
BY DEF IInv, Memory

\* A pass, a save or a migration is of a process that has started, and of the one with
\* the lease unless somebody trampled.
LEMMA Enforcers ==
    ASSUME IInv, NEW p \in Processes, lock[p].by # "nobody"
    PROVE  /\ proc[p].at \notin {"down", "recovered"} /\ proc[p].guard \in Trust
           /\ lock[p].by # "after" \/ ~trampled => lease = p
<1>1. lock[p] \in Pass /\ Placed(p) /\ Leased(p)
  BY Records DEF Local
<1>2. lock[p].by \in Owners
  BY <1>1 DEF Pass
<1> QED
  BY <1>1, <1>2 DEF Placed, Leased, Owners

\* A lock that is not free is somebody's.
LEMMA Busy ==
    ASSUME IInv, NEW p \in Processes, lock[p].at # "free"  PROVE lock[p].by # "nobody"
BY Records, Beginnings DEF Local, Placed

Mine(p) ==
    /\ proc' \in [Processes -> Process] /\ lock' \in [Processes -> Pass]
    /\ \A q \in Processes : q # p => proc'[q] = proc[q] /\ lock'[q] = lock[q]

\* A step of one process: the others keep their part of the invariant, because the disk
\* changes only under the lease.
LEMMA StepOf ==
    ASSUME IInv, NEW p \in Processes, Disk', Mine(p), Called', Local(p)',
           calls' \in [Calls -> ACall], used' \in Uses, trampled => trampled',
           lease' = lease \/ (lease = p /\ lease' = None) \/ (lease = None /\ lease' = p),
           (vault' = vault /\ settings'.other = settings.other) \/ lease \in {p, None} \/ trampled'
    PROVE  IInv'
<1>1. ASSUME NEW q \in Processes, q # p  PROVE Local(q)'
  <2>1. Placed(q) /\ Leased(q) /\ (~trampled => Agreed(q)) /\ proc'[q] = proc[q] /\ lock'[q] = lock[q]
    BY <1>1, Records DEF Local, Mine
  <2>2. q # None /\ (lease' = q <=> lease = q)
    BY <1>1, Values
  <2>3. Placed(q)'
    BY <2>1 DEF Placed
  <2>4. Leased(q)'
    BY <2>1, <2>2 DEF Leased
  <2>5. ASSUME ~trampled'  PROVE Agreed(q)'
    <3>1. CASE vault' = vault /\ settings'.other = settings.other
      BY <2>1, <2>2, <2>5, <3>1 DEF Agreed, Same, Lost
    <3>2. CASE lease # q
      <4>1. lock[q].by = "nobody"
        BY <2>5, <3>2, Enforcers
      <4>2. lock[q].at = "free" /\ lock[q].by # "start" /\ lock[q].by # "save"
        BY <4>1, <2>1, Beginnings DEF Placed
      <4>3. proc[q].at # "up"
        BY <2>1, <3>2 DEF Leased
      <4> QED
        BY <2>1, <2>2, <3>2, <4>2, <4>3 DEF Agreed, Same, Lost
    <3> QED
      BY <1>1, <2>2, <2>5, <3>1, <3>2
  <2> QED
    BY <2>3, <2>4, <2>5 DEF Local
<1>2. Memory'
  BY DEF Memory, Mine
<1> QED
  BY <1>1, <1>2 DEF IInv

\* The process of a call may go on, or one that has no calls may do anything.
LEMMA CallsStay ==
    ASSUME IInv, NEW p \in Processes, Mine(p), UNCHANGED calls,
           \/ proc[p].at \notin {"up", "stopping", "stopped"} \/ Calling(p) = {}
           \/ proc'[p].at \in {"up", "stopping", "stopped"}
    PROVE  Called' /\ calls' \in [Calls -> ACall]
<1>1. calls \in [Calls -> ACall] /\ Called
  BY DEF IInv, Memory
<1>2. ASSUME NEW c \in Calls, calls[c].at \in {"before", "running", "returned", "after"}
      PROVE  calls[c].of \in Processes /\ proc'[calls[c].of].at \in {"up", "stopping", "stopped"}
  BY <1>1, <1>2 DEF Called, Mine, Calling
<1> QED
  BY <1>1, <1>2 DEF Called

\* A step of the process that holds its own lock.
LEMMA LockStep ==
    ASSUME IInv, NEW p \in Processes, Disk', NEW L \in Pass, lock' = [lock EXCEPT ![p] = L],
           UNCHANGED <<receipt, lease, proc, calls, orphans, trampled>>, used' \in Uses,
           lock[p].by # "nobody", Local(p)'
    PROVE  IInv'
<1>1. Memory
  BY DEF IInv
<1>2. Mine(p)
  BY <1>1 DEF Mine, Memory
<1>3. Called' /\ calls' \in [Calls -> ACall]
  <2>1. Called /\ calls \in [Calls -> ACall]
    BY DEF IInv, Memory
  <2> QED
    BY <2>1 DEF Called
<1>4. (vault' = vault /\ settings'.other = settings.other) \/ lease \in {p, None} \/ trampled'
  <2>1. trampled' = trampled
    OBVIOUS
  <2> QED
    BY <2>1, Enforcers
<1> QED
  BY <1>1, <1>2, <1>3, <1>4, StepOf DEF Memory

-----------------------------------------------------------------------------
(* The pass over the files.                                                *)

\* A pass that goes on: what it will write or has read changes, not whose it is.
LEMMA PassGoesOn ==
    ASSUME IInv, NEW p \in Processes, Disk', NEW L \in Pass, lock' = [lock EXCEPT ![p] = L],
           UNCHANGED <<receipt, lease, proc, calls, orphans, trampled>>, used' \in Uses,
           lock[p].at \notin {"free", "body", "commit"}, L.at \notin {"free", "compare", "body", "commit"},
           L.by = lock[p].by, L.old = lock[p].old, L.at = "replace" => L.read \in {settings.other, Lost},
           settings'.other = settings.other \/ (lock[p].at = "replace" /\ settings'.other = lock[p].read),
           vault' = vault \/ (vault' = proc[p].guard /\ lock[p].by \notin {"vendor", "undo"})
    PROVE  IInv'
<1>1. lock[p].by # "nobody" /\ Local(p) /\ lock \in [Processes -> Pass]
  BY Busy, Records DEF IInv, Memory
<1>2. lock'[p] = L /\ lock[p].by # "save" /\ proc' = proc
  BY <1>1 DEF Local, Placed
<1>3. Placed(p)' /\ Leased(p)'
  BY <1>1, <1>2 DEF Local, Placed, Leased
<1>4. ASSUME ~trampled'  PROVE Agreed(p)'
  BY <1>1, <1>2, <1>4 DEF Local, Agreed, Same, Lost
<1> QED
  BY <1>1, <1>3, <1>4, LockStep DEF Local

\* The stored baseline is repaired from memory; what is different is written again.
LEMMA CompareStep ==
    ASSUME IInv, NEW p \in Processes, Compare(p)  PROVE IInv'
<1> DEFINE L == IF Clean(p) THEN [lock[p] EXCEPT !.at = "done", !.found = (vault' # vault)]
                ELSE Rewrite(lock[p])
<1>1. /\ lock[p].at = "compare" /\ lock' = [lock EXCEPT ![p] = L]
      /\ vault' = IF lock[p].by = "boot" THEN vault ELSE proc[p].guard
      /\ UNCHANGED <<surface, settings, receipt, lease, proc, calls, orphans, used, trampled>>
  BY DEF Compare, In
<1>2. lock[p].by # "nobody" /\ lock[p] \in Pass /\ proc[p].guard \in Trust /\ Disk /\ used' \in Uses
  BY <1>1, Busy, Records, Enforcers DEF IInv, Memory
<1>3. lock[p].by \notin {"vendor", "undo"}
  BY <1>1, Records DEF Local, Placed
<1>4. L \in Pass /\ L.at \in {"done", "restore"} /\ L.by = lock[p].by /\ L.old = lock[p].old
  <2>1. (vault' # vault) \in BOOLEAN /\ Files \in SUBSET Files
    OBVIOUS
  <2> QED
    BY <1>2, <2>1 DEF Pass, Rewrite, Places
<1>5. Disk'
  BY <1>1, <1>2 DEF Disk
<1> QED
  BY <1>1, <1>2, <1>3, <1>4, <1>5, PassGoesOn

\* A pass restores one file (_atomic_restore_file).
LEMMA RestoreFileStep ==
    ASSUME IInv, NEW p \in Processes, RestoreFile(p)  PROVE IInv'
<1> PICK f \in lock[p].todo :
        /\ lock[p].at = "restore"
        /\ surface' = [surface EXCEPT ![f] = proc[p].guard.entries[f]]
        /\ lock' = [lock EXCEPT ![p].todo = @ \ {f}]
  BY DEF RestoreFile, In
<1> DEFINE L == [lock[p] EXCEPT !.todo = @ \ {f}]
<1>1. UNCHANGED <<settings, vault, receipt, lease, proc, calls, orphans, used, trampled>>
  BY DEF RestoreFile
<1>2. lock[p] \in Pass /\ proc[p].guard \in Baseline /\ Disk /\ used' \in Uses
  BY <1>1, Busy, Records, Enforcers, Values DEF IInv, Memory
<1>3. L \in Pass /\ L.at = "restore" /\ L.by = lock[p].by /\ L.old = lock[p].old
  BY <1>2 DEF Pass
<1>4. surface' \in [Files -> Contents]
  <2>1. f \in Files /\ proc[p].guard.entries[f] \in Contents
    BY <1>2 DEF Pass, Baseline
  <2> QED
    BY <1>2, <2>1 DEF Disk
<1>5. Disk'
  BY <1>1, <1>2, <1>4 DEF Disk
<1>6. lock' = [lock EXCEPT ![p] = L]
  OBVIOUS
<1> QED
  BY <1>1, <1>2, <1>3, <1>5, <1>6, PassGoesOn

\* What is read of the preferences is written back, under the same lock.
LEMMA PreferencesStep ==
    ASSUME IInv, NEW p \in Processes, ReadPreferences(p) \/ ReplacePreferences(p)  PROVE IInv'
<1>1. lock[p].at \in {"restore", "replace"} /\ lock[p] \in Pass /\ proc[p].guard \in Baseline /\ Disk
      /\ used' \in Uses
  BY Busy, Records, Enforcers, Values DEF IInv, Memory, ReadPreferences, ReplacePreferences, In
<1>2. CASE ReadPreferences(p)
  <2> DEFINE L == [lock[p] EXCEPT !.at = "replace", !.read = settings.other]
  <2>1. lock' = [lock EXCEPT ![p] = L] /\ UNCHANGED <<disk, lease, proc, calls, orphans, used, trampled>>
    BY <1>2 DEF ReadPreferences
  <2>2. L \in Pass /\ L.at = "replace" /\ L.by = lock[p].by /\ L.old = lock[p].old /\ L.read = settings.other
    BY <1>1 DEF Pass, Places, Disk, Preferences
  <2>3. Disk'
    BY <1>1, <2>1 DEF Disk, disk
  <2> QED
    BY <1>1, <2>1, <2>2, <2>3, PassGoesOn DEF disk
<1>3. CASE ReplacePreferences(p)
  <2> DEFINE L == [lock[p] EXCEPT !.at = "check"]
  <2>1. /\ lock[p].at = "replace" /\ lock' = [lock EXCEPT ![p] = L]
        /\ settings' = [control |-> proc[p].guard.control, other |-> lock[p].read]
        /\ UNCHANGED <<surface, vault, receipt, lease, proc, calls, orphans, used, trampled>>
    BY <1>3 DEF ReplacePreferences, In
  <2>2. L \in Pass /\ L.at = "check" /\ L.by = lock[p].by /\ L.old = lock[p].old
    BY <1>1 DEF Pass, Places
  <2>3. Disk' /\ settings'.other = lock[p].read
    BY <1>1, <2>1 DEF Disk, Preferences, Baseline, Pass
  <2> QED
    BY <1>1, <2>1, <2>2, <2>3, PassGoesOn
<1> QED
  BY <1>2, <1>3

\* A pass looks at the files once more (_restore_locked).
LEMMA CheckAgainStep ==
    ASSUME IInv, NEW p \in Processes, CheckAgain(p)  PROVE IInv'
<1> DEFINE L == [lock[p] EXCEPT !.at = IF Clean(p) THEN "done" ELSE "error"]
<1>1. /\ lock[p].at = "check" /\ lock' = [lock EXCEPT ![p] = L]
      /\ UNCHANGED <<disk, lease, proc, calls, orphans, used, trampled>>
  BY DEF CheckAgain, In
<1>2. lock[p] \in Pass /\ Disk /\ used' \in Uses
  BY <1>1, Records DEF IInv, Memory
<1>3. L \in Pass /\ L.at \in {"done", "error"} /\ L.by = lock[p].by /\ L.old = lock[p].old
  BY <1>2 DEF Pass, Places
<1>4. Disk'
  BY <1>1, <1>2 DEF Disk, disk
<1> QED
  BY <1>1, <1>2, <1>3, <1>4, PassGoesOn DEF disk

\* A fault counts as one of the changes.
LEMMA Faults == ASSUME IInv, CanFail PROVE used' \in Uses
BY DEF IInv, Memory, Uses, CanFail

\* A pass that fails ends with an error, repairs what it could not compare, or takes the
\* preferences as empty.
LEMMA PassFailsStep ==
    ASSUME IInv, NEW p \in Processes, PassFails(p)  PROVE IInv'
<1> PICK L \in Misread(lock[p]) :
        /\ lock' = [lock EXCEPT ![p] = L]
        /\ vault' = IF L.at = "restore" /\ lock[p].by # "boot" THEN proc[p].guard ELSE vault
  BY DEF PassFails
<1>1. /\ CanFail /\ lock[p].at \in {"compare", "restore", "replace", "check"}
      /\ UNCHANGED <<surface, settings, receipt, lease, proc, calls, orphans, trampled>>
  BY DEF PassFails
<1>2. lock[p].by # "nobody" /\ lock[p] \in Pass /\ proc[p].guard \in Trust /\ Disk /\ used' \in Uses
  BY <1>1, Busy, Records, Enforcers, Faults DEF IInv
<1>3. \/ L = [lock[p] EXCEPT !.at = "error"]
      \/ lock[p].at = "compare" /\ L = Rewrite(lock[p])
      \/ lock[p].at = "restore" /\ L = [lock[p] EXCEPT !.at = "replace", !.read = Lost]
  BY DEF Misread
<1>4. /\ L \in Pass /\ L.at \in {"error", "restore", "replace"} /\ L.by = lock[p].by /\ L.old = lock[p].old
      /\ (L.at = "restore" => lock[p].at = "compare") /\ (L.at = "replace" => L.read = Lost)
  <2>1. Lost \in Others /\ Files \in SUBSET Files
    BY Values DEF Others, Lost
  <2> QED
    BY <1>1, <1>2, <1>3, <2>1 DEF Pass, Rewrite, Places
<1>5. lock[p].at = "compare" => lock[p].by \notin {"vendor", "undo"}
  BY Records DEF Local, Placed
<1>6. vault' = vault \/ (vault' = proc[p].guard /\ lock[p].by \notin {"vendor", "undo"})
  BY <1>4, <1>5
<1>7. Disk'
  BY <1>1, <1>2, <1>6 DEF Disk
<1> HIDE DEF Misread
<1> QED
  BY <1>1, <1>2, <1>4, <1>6, <1>7, PassGoesOn

-----------------------------------------------------------------------------
(* Steps that leave the files alone: a lock is taken or freed, a stage ends. *)

\* One process begins or ends something, without a change of a file or of the lease.
LEMMA StageStep ==
    ASSUME IInv, NEW p \in Processes, NEW P \in Process, NEW L \in Pass,
           proc' = [proc EXCEPT ![p] = P], lock' = [lock EXCEPT ![p] = L],
           UNCHANGED <<disk, lease>>, used' \in Uses, orphans' \in BOOLEAN, trampled' \in BOOLEAN,
           trampled => trampled',
           P.at = proc[p].at \/ {P.at, proc[p].at} \subseteq {"down", "recovered"}
               \/ (P.at = "vendor" /\ proc[p].at = "boot") \/ (P.at = "up" /\ proc[p].at = "vendor")
               \/ (P.at = "stopping" /\ proc[p].at = "up")
               \/ (P.at = "down" /\ proc[p].at = "stopped" /\ Calling(p) = {}),
           P.guard = proc[p].guard \/ P.at = "down",
           Called', calls' \in [Calls -> ACall],
           Placed(p)', L.by = "after" /\ ~trampled' => lease = p,
           L.by = "save" => lock[p].by = "save" /\ L.old = lock[p].old,
           L.at # "replace" \/ (L = lock[p] /\ P.store = proc[p].store /\ P.at \in {proc[p].at, "stopping"}),
           lock[p].by \in {"vendor", "undo"} => L.by = lock[p].by,
           ~trampled' /\ (P.at = "up" \/ L.by = "start") => Same(settings.other, P.store)
    PROVE  IInv'
<1>1. proc[p] \in Process /\ lock[p] \in Pass /\ Local(p) /\ Disk /\ Memory
  BY Records DEF IInv
<1>2. Mine(p) /\ proc'[p] = P /\ lock'[p] = L
  BY <1>1 DEF Mine, Memory
<1>3. Leased(p)'
  BY <1>1, <1>2 DEF Local, Leased
<1>4. ASSUME ~trampled'  PROVE Agreed(p)'
  BY <1>1, <1>2, <1>4 DEF Local, Leased, Agreed, Same, Lost, disk
<1>5. Disk'
  BY <1>1 DEF Disk, disk
<1> QED
  BY <1>1, <1>2, <1>3, <1>4, <1>5, StepOf DEF Local, disk, Memory

\* The same when no call goes on.
LEMMA QuietStep ==
    ASSUME IInv, NEW p \in Processes, NEW P \in Process, NEW L \in Pass,
           proc' = [proc EXCEPT ![p] = P], lock' = [lock EXCEPT ![p] = L],
           UNCHANGED <<disk, lease, calls, orphans, trampled>>, used' = used \/ used' \in Uses,
           P.at = proc[p].at \/ {P.at, proc[p].at} \subseteq {"down", "recovered"}
               \/ (P.at = "vendor" /\ proc[p].at = "boot") \/ (P.at = "up" /\ proc[p].at = "vendor")
               \/ (P.at = "stopping" /\ proc[p].at = "up")
               \/ (P.at = "down" /\ proc[p].at = "stopped" /\ Calling(p) = {}),
           P.guard = proc[p].guard \/ P.at = "down",
           Placed(p)', L.by # "after" \/ L = lock[p], L.by # "save" \/ L = lock[p],
           L.at # "replace" \/ (L = lock[p] /\ P.store = proc[p].store /\ P.at \in {proc[p].at, "stopping"}),
           lock[p].by \in {"vendor", "undo"} => L.by = lock[p].by,
           ~trampled' /\ (P.at = "up" \/ L.by = "start") => Same(settings.other, P.store)
    PROVE  IInv'
<1>1. proc[p] \in Process /\ lock[p] \in Pass /\ Local(p) /\ Disk /\ Memory
  BY Records DEF IInv
<1>2. Mine(p) /\ proc'[p] = P
  BY <1>1 DEF Mine, Memory
<1>3. Called' /\ calls' \in [Calls -> ACall]
  BY <1>2, CallsStay
<1>4. trampled' = trampled /\ orphans' \in BOOLEAN /\ trampled' \in BOOLEAN /\ (trampled => trampled')
  BY <1>1 DEF Disk
<1>5. L.by = "after" /\ ~trampled' => lease = p
  BY <1>1, <1>4 DEF Local, Leased
<1>6. L.by = "save" => lock[p].by = "save" /\ L.old = lock[p].old
  OBVIOUS
<1>7. used' \in Uses
  BY <1>1 DEF Memory
<1> QED
  BY <1>3, <1>4, <1>5, <1>6, <1>7, StageStep

\* Another process has the lease: this one ends (_acquire_state_lease).
LEMMA LeaseRefusedStep ==
    ASSUME IInv, NEW p \in Processes, LeaseRefused(p)  PROVE IInv'
<1>1. /\ proc[p].at = "recovered" /\ proc' = [proc EXCEPT ![p] = Offline]
      /\ UNCHANGED <<disk, lease, lock, calls, orphans, used, trampled>>
  BY DEF LeaseRefused
<1>2. proc[p] \in Process /\ lock[p] \in Pass /\ lock[p] = Free /\ Memory
  BY <1>1, Records, Enforcers DEF IInv, Local, Placed
<1>3. proc'[p] = Offline /\ lock' = [lock EXCEPT ![p] = Free]
  BY <1>1, <1>2 DEF Memory
<1>4. Placed(p)'
  BY <1>1, <1>2, <1>3, Beginnings DEF Local, Placed
<1> QED
  BY <1>1, <1>2, <1>3, <1>4, Beginnings, QuietStep

\* A pass that ended well or not is over: the process goes on at its next stage.
LEMMA UnlockStep ==
    ASSUME IInv, NEW p \in Processes, NEW P \in Process, proc' = [proc EXCEPT ![p] = P], Unlock(p),
           UNCHANGED <<disk, lease, calls, orphans, used, trampled>>,
           lock[p].by \notin {"nobody", "vendor", "undo"},
           P.at = proc[p].at \/ (P.at = "vendor" /\ proc[p].at = "boot") \/ (P.at = "up" /\ proc[p].at = "vendor"),
           P.guard = proc[p].guard, P.watchdog = "due" => P.at \in {"up", "stopping"},
           ~trampled' /\ P.at = "up" => Same(settings.other, P.store)
    PROVE  IInv'
<1>1. proc[p] \in Process /\ lock[p] \in Pass /\ Memory /\ proc[p].guard \in Trust
  BY Records, Enforcers DEF IInv
<1>2. proc'[p] = P /\ lock'[p] = Free /\ lock' = [lock EXCEPT ![p] = Free]
  BY <1>1 DEF Memory, Unlock
<1>3. Placed(p)'
  BY <1>1, <1>2, Beginnings DEF Placed
<1> QED
  BY <1>1, <1>2, <1>3, Beginnings, QuietStep

\* The first pass is over: the lock is free for the migration (_initialize_baseline).
LEMMA BootedStep ==
    ASSUME IInv, NEW p \in Processes, Booted(p)  PROVE IInv'
<1> DEFINE P == [proc[p] EXCEPT !.at = "vendor"]
<1>1. /\ lock[p].by = "boot" /\ proc' = [proc EXCEPT ![p] = P] /\ Unlock(p)
      /\ UNCHANGED <<disk, lease, calls, orphans, used, trampled>>
  BY DEF Booted, Passed, Ended
<1>2. proc[p] \in Process /\ proc[p].at = "boot" /\ proc[p].watchdog # "due"
  BY <1>1, Records DEF Local, Placed
<1>3. P \in Process /\ P.at = "vendor" /\ P.guard = proc[p].guard /\ P.watchdog # "due"
  BY <1>2 DEF Process, Stages
<1> QED
  BY <1>1, <1>2, <1>3, UnlockStep

\* The pass of start is over: the process is up, with a watchdog.
LEMMA StartedStep ==
    ASSUME IInv, NEW p \in Processes, Started(p)  PROVE IInv'
<1> DEFINE P == [proc[p] EXCEPT !.at = "up", !.watchdog = "wait"]
<1>1. /\ lock[p].by = "start" /\ proc' = [proc EXCEPT ![p] = P] /\ Unlock(p)
      /\ UNCHANGED <<disk, lease, calls, orphans, used, trampled>>
  BY DEF Started, Passed, Ended
<1>2. proc[p] \in Process /\ proc[p].at = "vendor" /\ (~trampled => Same(settings.other, proc[p].store))
  BY <1>1, Records DEF Local, Placed, Agreed, Same, Lost
<1>3. /\ P \in Process /\ P.at = "up" /\ P.guard = proc[p].guard /\ P.watchdog # "due"
      /\ P.store = proc[p].store
  BY <1>2 DEF Process, Stages
<1> QED
  BY <1>1, <1>2, <1>3, UnlockStep

\* The watchdog's pass is over, with an error or without (_watch_loop).
LEMMA WatchdogDoneStep ==
    ASSUME IInv, NEW p \in Processes, WatchdogDone(p)  PROVE IInv'
<1> DEFINE P == [proc[p] EXCEPT !.watchdog = IF lock[p].at = "error" THEN AfterError ELSE "wait"]
<1>1. /\ lock[p].by = "watchdog" /\ proc' = [proc EXCEPT ![p] = P] /\ Unlock(p)
      /\ UNCHANGED <<disk, lease, calls, orphans, used, trampled>>
  BY DEF WatchdogDone, Ended
<1>2. proc[p] \in Process /\ (~trampled /\ proc[p].at = "up" => Same(settings.other, proc[p].store))
  BY <1>1, Records DEF Local, Agreed, Same, Lost
<1>3. /\ P \in Process /\ P.at = proc[p].at /\ P.guard = proc[p].guard /\ P.watchdog # "due"
      /\ P.store = proc[p].store
  BY <1>2 DEF Process, AfterError
<1> QED
  BY <1>1, <1>2, <1>3, UnlockStep

\* A lock that is taken: the pass begins with the comparison.
LEMMA TakeFacts ==
    ASSUME IInv, NEW p \in Processes, NEW by \in Owners, Take(p, by)
    PROVE  /\ lock[p].by = "nobody" /\ lock' = [lock EXCEPT ![p] = Holding(by, "compare")]
           /\ lock'[p] = Holding(by, "compare") /\ Holding(by, "compare") \in Pass
           /\ Holding(by, "compare").by = by /\ Holding(by, "compare").at = "compare"
BY Beginnings DEF Take, IInv, Memory, Places

\* Taking the lock for a pass whose owner is at the stage the owner asks for.
LEMMA TakeStep ==
    ASSUME IInv, NEW p \in Processes, NEW P \in Process, proc' = [proc EXCEPT ![p] = P],
           NEW by \in {"start", "watchdog", "stop", "import"}, Take(p, by),
           UNCHANGED <<disk, lease, calls, orphans, trampled>>, used' \in Uses,
           P.at = proc[p].at, P.guard = proc[p].guard, P.watchdog = proc[p].watchdog,
           by \in {"start", "import"} => P.at = "vendor",
           by = "watchdog" => P.watchdog = "due",
           by = "stop" => P.at = "stopping" /\ P.watchdog # "due",
           by = "start" => P.store \in {settings.other, Lost},
           P.at = "up" => P.store = proc[p].store
    PROVE  IInv'
<1> DEFINE L == Holding(by, "compare")
<1>1. proc[p] \in Process /\ lock[p] \in Pass /\ Local(p) /\ Memory /\ by \in Owners
  BY Records DEF IInv, Owners
<1>2. /\ lock[p].by = "nobody" /\ lock' = [lock EXCEPT ![p] = L] /\ lock'[p] = L /\ proc'[p] = P
      /\ L \in Pass /\ L.by = by /\ L.at = "compare"
  BY <1>1, TakeFacts DEF Memory
<1> HIDE DEF L
<1>3. Placed(p)'
  BY <1>1, <1>2 DEF Local, Placed
<1>4. ~trampled' /\ (P.at = "up" \/ L.by = "start") => Same(settings.other, P.store)
  BY <1>1, <1>2 DEF Local, Agreed, Same, Lost
<1> QED
  BY <1>1, <1>2, <1>3, <1>4, QuietStep

\* The passes of start, of the watchdog, of stop and of an import begin.
LEMMA PassesBegin ==
    ASSUME IInv, NEW p \in Processes,
           StartGuard(p) \/ WatchdogRuns(p) \/ FinalPass(p) \/ ImportBegins(p)
    PROVE  IInv'
<1>1. proc[p] \in Process /\ Memory /\ Disk
  BY Records DEF IInv
<1>2. CASE StartGuard(p)
  <2> PICK reading \in {settings.other, Lost} :
          /\ proc' = [proc EXCEPT ![p] = [proc[p] EXCEPT !.store = reading]] /\ (UNCHANGED used \/ CanFail)
    BY <1>2 DEF StartGuard
  <2> DEFINE P == [proc[p] EXCEPT !.store = reading]
  <2>1. /\ proc[p].at = "vendor" /\ Take(p, "start") /\ proc' = [proc EXCEPT ![p] = P]
        /\ UNCHANGED <<disk, lease, calls, orphans, trampled>> /\ used' \in Uses
    BY <1>1, <1>2, Faults DEF StartGuard, Memory
  <2>2. reading \in Others
    BY <1>1, Values DEF Disk, Preferences, Others, Lost
  <2>3. /\ P \in Process /\ P.at = "vendor" /\ P.guard = proc[p].guard /\ P.watchdog = proc[p].watchdog
        /\ P.store = reading
    BY <1>1, <2>1, <2>2 DEF Process
  <2> HIDE DEF P
  <2> QED
    BY <2>1, <2>3, TakeStep
<1>3. CASE WatchdogRuns(p) \/ FinalPass(p) \/ ImportBegins(p)
  <2>1. proc' = [proc EXCEPT ![p] = proc[p]]
    BY <1>1, <1>3 DEF Memory, WatchdogRuns, FinalPass, ImportBegins
  <2>2. used' \in Uses
    BY <1>1, <1>3 DEF Memory, WatchdogRuns, FinalPass, ImportBegins
  <2> QED
    BY <1>1, <1>3, <2>1, <2>2, TakeStep DEF WatchdogRuns, FinalPass, ImportBegins
<1> QED
  BY <1>2, <1>3

\* The lock stays what it is; the process or its watchdog goes on.
LEMMA WatchdogSteps ==
    ASSUME IInv, NEW p \in Processes, WatchdogDue(p) \/ WatchdogExits(p) \/ Exit(p)
    PROVE  IInv'
<1>1. proc[p] \in Process /\ lock[p] \in Pass /\ Local(p) /\ Memory
  BY Records DEF IInv
<1>2. lock' = [lock EXCEPT ![p] = lock[p]] /\ UNCHANGED <<disk, lease, calls, orphans, used, trampled>>
  BY <1>1 DEF Memory, WatchdogDue, WatchdogExits, Exit
<1>3. CASE WatchdogDue(p) \/ WatchdogExits(p)
  <2> PICK w \in {"off", "due"} : /\ proc[p].watchdog = "wait" /\ (w = "due" => proc[p].at = "up")
                                  /\ proc' = [proc EXCEPT ![p] = [proc[p] EXCEPT !.watchdog = w]]
    BY <1>3 DEF WatchdogDue, WatchdogExits
  <2> DEFINE P == [proc[p] EXCEPT !.watchdog = w]
  <2>1. /\ P \in Process /\ P.at = proc[p].at /\ P.guard = proc[p].guard /\ P.store = proc[p].store
        /\ P.watchdog = w
    BY <1>1 DEF Process
  <2>2. proc' = [proc EXCEPT ![p] = P] /\ proc'[p] = P /\ lock'[p] = lock[p]
    BY <1>1, <1>2 DEF Memory
  <2> HIDE DEF P
  <2>3. Placed(p)'
    BY <1>1, <2>1, <2>2 DEF Local, Placed
  <2>4. ~trampled' /\ (P.at = "up" \/ lock[p].by = "start") => Same(settings.other, P.store)
    BY <1>1, <1>2, <2>1 DEF Local, Agreed, Same, Lost
  <2> QED
    BY <1>1, <1>2, <2>1, <2>2, <2>3, <2>4, QuietStep
<1>4. CASE Exit(p)
  <2>1. proc[p].at = "stopped" /\ Calling(p) = {} /\ lock[p] = Free /\ proc' = [proc EXCEPT ![p] = Offline]
    BY <1>4 DEF Exit
  <2>2. proc'[p] = Offline /\ lock'[p] = Free
    BY <1>1, <1>2, <2>1 DEF Memory
  <2>3. Placed(p)'
    BY <2>2, Beginnings DEF Placed
  <2> QED
    BY <1>1, <1>2, <2>1, <2>2, <2>3, Beginnings, QuietStep
<1> QED
  BY <1>3, <1>4

\* The process is asked to stop (stop).
LEMMA AskStopStep ==
    ASSUME IInv, NEW p \in Processes, AskStop(p)  PROVE IInv'
<1> DEFINE P == [proc[p] EXCEPT !.at = "stopping"]
<1>1. proc[p] \in Process /\ lock[p] \in Pass /\ Local(p) /\ Memory
  BY Records DEF IInv
<1>2. /\ proc[p].at = "up" /\ lock[p].by \in {"nobody", "watchdog"} /\ proc' = [proc EXCEPT ![p] = P]
      /\ lease' = lease /\ UNCHANGED <<disk, lock, calls, orphans, used, trampled>>
  BY DEF AskStop, HeldUntilTheEnd
<1>3. /\ P \in Process /\ P.at = "stopping" /\ P.guard = proc[p].guard /\ P.store = proc[p].store
      /\ P.watchdog = proc[p].watchdog
  BY <1>1 DEF Process, Stages
<1>4. lock' = [lock EXCEPT ![p] = lock[p]] /\ proc'[p] = P /\ lock'[p] = lock[p]
  BY <1>1, <1>2 DEF Memory
<1> HIDE DEF P
<1>5. Placed(p)'
  BY <1>1, <1>2, <1>3, <1>4 DEF Local, Placed
<1> QED
  BY <1>1, <1>2, <1>3, <1>4, <1>5, QuietStep

\* An untrusted import ran and was verified (run_untrusted_import).
LEMMA ImportSteps ==
    ASSUME IInv, NEW p \in Processes, Imported(p) \/ ImportVerified(p)  PROVE IInv'
<1>1. proc[p] \in Process /\ lock[p] \in Pass /\ Local(p) /\ Memory
  BY Records DEF IInv
<1>2. /\ lock[p].by \in {"import", "imported"} /\ proc[p].at = "vendor"
      /\ UNCHANGED <<disk, lease, proc, calls, orphans, used, trampled>>
  BY <1>1 DEF Imported, ImportVerified, Ended, Local, Placed
<1>3. proc' = [proc EXCEPT ![p] = proc[p]] /\ proc'[p] = proc[p]
  BY <1>1, <1>2 DEF Memory
<1>4. PICK L \in Pass : /\ lock' = [lock EXCEPT ![p] = L] /\ (L = Free \/ L = Holding("imported", "compare"))
  BY <1>1, Beginnings DEF Imported, ImportVerified, Unlock, Owners, Places
<1>5. lock'[p] = L /\ (L = Free \/ (L.by = "imported" /\ L.at = "compare"))
  BY <1>1, <1>4, Beginnings DEF Memory, Owners, Places
<1>6. Placed(p)'
  BY <1>1, <1>2, <1>3, <1>5, Beginnings DEF Local, Placed
<1> QED
  BY <1>1, <1>2, <1>3, <1>4, <1>5, <1>6, Beginnings, QuietStep

-----------------------------------------------------------------------------
(* Tools.                                                                  *)

\* A call goes on in the process it is of.
LEMMA CallStep ==
    ASSUME IInv, NEW p \in Processes, NEW c \in Calls, NEW K \in ACall, calls' = [calls EXCEPT ![c] = K],
           K.at \in {"before", "running", "returned", "after"} =>
               K.of = p /\ proc[p].at \in {"up", "stopping", "stopped"},
           NEW L \in Pass, lock' = [lock EXCEPT ![p] = L],
           UNCHANGED <<disk, lease, proc, used>>, orphans' \in BOOLEAN, trampled' \in BOOLEAN,
           trampled => trampled',
           \/ L = lock[p]
           \/ L = Free /\ lock[p].by \notin {"nobody", "vendor", "undo"}
           \/ L = Holding("before", "compare") /\ lock[p].by = "nobody" /\ proc[p].at = "up"
           \/ /\ L = Holding("after", "compare") /\ lock[p].by = "nobody"
              /\ proc[p].at \in {"up", "stopping", "stopped"} /\ (trampled' \/ lease = p)
    PROVE  IInv'
<1>1. proc[p] \in Process /\ lock[p] \in Pass /\ Local(p) /\ Memory /\ Called /\ Disk
  BY Records DEF IInv
<1>2. proc' = [proc EXCEPT ![p] = proc[p]] /\ proc'[p] = proc[p] /\ lock'[p] = L
  BY <1>1 DEF Memory
<1>3. Called' /\ calls' \in [Calls -> ACall]
  BY <1>1 DEF Memory, Called
<1>4. \/ L = lock[p]
      \/ L = Free /\ L.by = "nobody" /\ L.at = "free" /\ lock[p].by \notin {"nobody", "vendor", "undo"}
      \/ /\ L.by = "before" /\ L.at = "compare" /\ lock[p].by = "nobody" /\ proc[p].at = "up"
      \/ /\ L.by = "after" /\ L.at = "compare" /\ lock[p].by = "nobody"
         /\ proc[p].at \in {"up", "stopping", "stopped"} /\ (trampled' \/ lease = p)
  BY Beginnings DEF Owners, Places
<1>5. Placed(p)'
  BY <1>1, <1>2, <1>4 DEF Local, Placed
<1>6. L.by = "after" /\ ~trampled' => lease = p
  BY <1>1, <1>4 DEF Local, Leased
<1>7. L.by = "save" => lock[p].by = "save" /\ L.old = lock[p].old
  BY <1>4
<1>8. /\ L.at # "replace" \/ L = lock[p]
      /\ lock[p].by \in {"vendor", "undo"} => L.by = lock[p].by
  BY <1>4
<1>9. ~trampled' /\ (proc[p].at = "up" \/ L.by = "start") => Same(settings.other, proc[p].store)
  BY <1>1, <1>4 DEF Local, Agreed, Same, Lost
<1>10. used' \in Uses
  BY <1>1 DEF Memory
<1> QED
  BY <1>1, <1>2, <1>3, <1>5, <1>6, <1>7, <1>8, <1>9, <1>10, StageStep

\* Every step of a tool call (call_plugin).
LEMMA CallSteps ==
    ASSUME IInv, NEW p \in Processes, NEW c \in Calls, Call(p, c)  PROVE IInv'
<1>1. /\ proc[p] \in Process /\ lock[p] \in Pass /\ Local(p) /\ Memory /\ Called /\ Disk
      /\ calls[c] \in ACall /\ p # None /\ orphans \in BOOLEAN /\ trampled \in BOOLEAN
  BY Records, Values DEF IInv, Memory, Disk
<1>2. CASE CallBegins(p, c)
  <2> DEFINE K == [calls[c] EXCEPT !.at = "before", !.of = p]
  <2>1. /\ proc[p].at = "up" /\ calls' = [calls EXCEPT ![c] = K] /\ Take(p, "before")
        /\ UNCHANGED <<disk, lease, proc, orphans, used, trampled>>
    BY <1>2 DEF CallBegins
  <2>2. K \in ACall /\ K.of = p
    BY <1>1 DEF ACall
  <2>3. /\ lock[p].by = "nobody" /\ lock' = [lock EXCEPT ![p] = Holding("before", "compare")]
        /\ Holding("before", "compare") \in Pass
    BY <2>1, TakeFacts DEF Owners
  <2> QED
    BY <1>1, <2>1, <2>2, <2>3, CallStep
<1>3. CASE CallChecked(p, c) \/ CallEnds(p, c)
  <2> PICK place \in {"refused", "running", "failed", "ok"} :
          calls' = [calls EXCEPT ![c] = [calls[c] EXCEPT !.at = place]]
    BY <1>3 DEF CallChecked, CallEnds
  <2> DEFINE K == [calls[c] EXCEPT !.at = place]
  <2>1. /\ calls[c].at \in {"before", "after"} /\ calls[c].of = p /\ lock[p].by \in {"before", "after"}
        /\ Unlock(p) /\ UNCHANGED <<disk, lease, proc, orphans, used, trampled>>
    BY <1>3 DEF CallChecked, CallEnds, Ended
  <2>2. K \in ACall /\ K.of = p
    BY <1>1, <2>1 DEF ACall
  <2>3. lock' = [lock EXCEPT ![p] = Free] /\ proc[p].at \in {"up", "stopping", "stopped"}
    BY <1>1, <2>1 DEF Unlock, Called
  <2> QED
    BY <1>1, <2>1, <2>2, <2>3, CallStep, Beginnings
<1>4. CASE CallReturns(p, c)
  <2> DEFINE K == [calls[c] EXCEPT !.at = "returned"]
  <2>1. /\ calls[c].at = "running" /\ calls[c].of = p /\ calls' = [calls EXCEPT ![c] = K]
        /\ orphans' \in {orphans, TRUE} /\ UNCHANGED <<disk, lease, proc, lock, used, trampled>>
    BY <1>4 DEF CallReturns
  <2>2. K \in ACall /\ K.of = p
    BY <1>1, <2>1 DEF ACall
  <2>3. lock' = [lock EXCEPT ![p] = lock[p]] /\ proc[p].at \in {"up", "stopping", "stopped"}
    BY <1>1, <2>1 DEF Memory, Called
  <2>4. orphans' \in BOOLEAN
    BY <1>1, <2>1
  <2> QED
    BY <1>1, <2>1, <2>2, <2>3, <2>4, CallStep
<1>5. CASE CallVerified(p, c)
  <2> DEFINE K == [calls[c] EXCEPT !.at = "after"]
  <2>1. /\ calls[c].at = "returned" /\ calls[c].of = p /\ calls' = [calls EXCEPT ![c] = K]
        /\ Take(p, "after") /\ trampled' = (trampled \/ lease # p)
        /\ UNCHANGED <<disk, lease, proc, orphans, used>>
    BY <1>5 DEF CallVerified
  <2>2. K \in ACall /\ K.of = p
    BY <1>1, <2>1 DEF ACall
  <2>3. /\ lock[p].by = "nobody" /\ lock' = [lock EXCEPT ![p] = Holding("after", "compare")]
        /\ Holding("after", "compare") \in Pass /\ proc[p].at \in {"up", "stopping", "stopped"}
    BY <1>1, <2>1, TakeFacts DEF Owners, Called
  <2>4. trampled' \in BOOLEAN /\ (trampled => trampled') /\ (trampled' \/ lease = p)
    BY <2>1
  <2> QED
    BY <1>1, <2>1, <2>2, <2>3, <2>4, CallStep
<1> QED
  BY <1>2, <1>3, <1>4, <1>5 DEF Call

\* A tool writes a protected file or the preferences, nothing else; what it makes of the
\* other settings is Lost.
LEMMA ChangeStep ==
    ASSUME IInv, Change  PROVE IInv'
<1>1. Disk /\ Memory /\ Called /\ \A p \in Processes : Local(p)
  BY DEF IInv
<1>2. Changed /\ used' = [used EXCEPT !.changes = @ + 1]
      /\ UNCHANGED <<vault, receipt, lease, proc, lock, orphans, trampled>>
  BY DEF Change
<1>3. surface' \in [Files -> Contents] /\ settings' \in Preferences /\ settings'.other \in {settings.other, Lost}
  BY <1>1, <1>2, Values DEF Changed, Disk, Contents, Preferences, Controls, Foreign, Others, Lost
<1>4. /\ calls' \in [Calls -> ACall]
      /\ \A c \in Calls : calls'[c].at = calls[c].at /\ calls'[c].of = calls[c].of
  <2>1. calls' = calls \/ \E c \in Calls : calls' = [calls EXCEPT ![c].wrote = TRUE]
    BY DEF Change
  <2>2. calls \in [Calls -> ACall]
    BY <1>1 DEF Memory
  <2>3. ASSUME NEW c \in Calls, calls' = [calls EXCEPT ![c] = [calls[c] EXCEPT !.wrote = TRUE]]
        PROVE  /\ calls' \in [Calls -> ACall]
               /\ \A d \in Calls : calls'[d].at = calls[d].at /\ calls'[d].of = calls[d].of
    <3>1. /\ [calls[c] EXCEPT !.wrote = TRUE] \in ACall
          /\ [calls[c] EXCEPT !.wrote = TRUE].at = calls[c].at /\ [calls[c] EXCEPT !.wrote = TRUE].of = calls[c].of
      BY <2>2 DEF ACall
    <3> QED
      BY <2>2, <2>3, <3>1
  <2> QED
    BY <2>1, <2>2, <2>3
<1>5. used' \in Uses
  BY <1>1, <1>2 DEF Memory, Uses
<1>6. Disk' /\ Memory'
  BY <1>1, <1>2, <1>3, <1>4, <1>5 DEF Disk, Memory
<1>7. Called'
  BY <1>1, <1>2, <1>4 DEF Called
<1>8. ASSUME NEW p \in Processes  PROVE Local(p)'
  BY <1>1, <1>2, <1>3 DEF Local, Placed, Leased, Agreed, Same, Lost
<1> QED
  BY <1>6, <1>7, <1>8 DEF IInv

-----------------------------------------------------------------------------
(* Start, recovery and the end of a process.                               *)

\* A process without the lease and without a pass.
LEMMA AtRest ==
    ASSUME NEW p \in Processes, proc'[p].at \in {"down", "recovered", "stopped"}, proc'[p].watchdog # "due",
           lock'[p] = Free, lease' # p, proc'[p].at = "stopped" => proc'[p].guard \in Trust
    PROVE  Local(p)'
<1>1. Placed(p)'
  BY Beginnings DEF Placed
<1>2. Leased(p)'
  BY Beginnings DEF Leased
<1>3. Agreed(p)'
  BY Beginnings DEF Agreed, Same, Lost
<1> QED
  BY <1>1, <1>2, <1>3 DEF Local

\* A receipt that is found restores what it names.
LEMMA Recovers ==
    ASSUME IInv, Recovered
    PROVE  /\ settings' \in Preferences /\ vault' \in Trust \cup {None}
           /\ receipt = None => settings' = settings /\ vault' = vault
BY Values DEF IInv, Disk, Recovered, Saved, Receipt

\* A start recovers the settings journal first; with another process up it tramples.
LEMMA StartStep ==
    ASSUME IInv, NEW p \in Processes, Start(p)  PROVE IInv'
<1> DEFINE P == [Offline EXCEPT !.at = "recovered"]
<1>1. proc[p] \in Process /\ lock[p] \in Pass /\ Local(p) /\ Memory /\ Disk
  BY Records DEF IInv
<1>2. /\ proc[p].at = "down" /\ used' = [used EXCEPT !.starts = @ + 1] /\ proc' = [proc EXCEPT ![p] = P]
      /\ Recovered /\ receipt' = None /\ trampled' = (trampled \/ (receipt # None /\ lease # None))
      /\ UNCHANGED <<surface, lease, lock, calls, orphans>>
  BY DEF Start
<1>3. P \in Process /\ P.at = "recovered" /\ P.watchdog = "off"
  BY Beginnings DEF Process, Stages
<1> HIDE DEF P
<1>4. Mine(p) /\ proc'[p] = P /\ lock'[p] = Free
  BY <1>1, <1>2, <1>3, Enforcers DEF Mine, Memory, Local, Placed
<1>5. lease' # p
  BY <1>1, <1>2 DEF Local, Leased
<1>6. Disk'
  <2>1. trampled' \in BOOLEAN
    BY <1>2
  <2> QED
    BY <1>1, <1>2, <2>1, Recovers DEF Disk
<1>7. Called' /\ calls' \in [Calls -> ACall]
  BY <1>2, <1>4, CallsStay
<1>8. Local(p)'
  BY <1>3, <1>4, <1>5, AtRest
<1>9. (vault' = vault /\ settings'.other = settings.other) \/ lease \in {p, None} \/ trampled'
  BY <1>2, Recovers
<1>10. used' \in Uses
  BY <1>1, <1>2 DEF Memory, Uses
<1>11. (trampled => trampled') /\ lease' = lease
  BY <1>2
<1> QED
  BY <1>4, <1>6, <1>7, <1>8, <1>9, <1>10, <1>11, StepOf

\* The lease is taken with the baseline that is stored, or with the files as they are.
LEMMA BaselineStep ==
    ASSUME IInv, NEW p \in Processes, LoadBaseline(p) \/ AcceptBaseline(p)  PROVE IInv'
<1>1. proc[p] \in Process /\ lock[p] \in Pass /\ Local(p) /\ Memory /\ Disk
  BY Records DEF IInv
<1>2. /\ proc[p].at = "recovered" /\ lease = None /\ lease' = p
      /\ UNCHANGED <<surface, settings, receipt, calls, orphans, used, trampled>>
      /\ lock[p] = Free /\ lock[p].by = "nobody" /\ proc[p].watchdog # "due"
  BY <1>1, Enforcers DEF LoadBaseline, AcceptBaseline, disk, Local, Placed
<1>3. CASE LoadBaseline(p)
  <2> DEFINE P == [proc[p] EXCEPT !.at = "boot", !.guard = vault]
             L == Holding("boot", "compare")
  <2>1. /\ vault # None /\ vault' = vault /\ proc' = [proc EXCEPT ![p] = P]
        /\ lock' = [lock EXCEPT ![p] = L]
    BY <1>3 DEF LoadBaseline, disk
  <2>2. P \in Process /\ P.at = "boot" /\ P.guard = vault /\ vault \in Trust /\ P.watchdog # "due"
    BY <1>1, <1>2, <2>1 DEF Process, Stages, Disk
  <2>3. L \in Pass /\ L.by = "boot" /\ L.at = "compare"
    BY Beginnings DEF Owners, Places
  <2> HIDE DEF P, L
  <2>4. Mine(p) /\ proc'[p] = P /\ lock'[p] = L
    BY <1>1, <2>1, <2>2, <2>3 DEF Mine, Memory
  <2>5. Disk'
    BY <1>1, <1>2, <2>1 DEF Disk
  <2>6. Local(p)'
    BY <1>2, <2>1, <2>2, <2>3, <2>4 DEF Local, Placed, Leased, Agreed, Same, Lost
  <2>7. Called' /\ calls' \in [Calls -> ACall]
    BY <1>2, <2>4, CallsStay
  <2>8. used' \in Uses /\ (trampled => trampled')
    BY <1>1, <1>2 DEF Memory
  <2> QED
    BY <1>2, <2>1, <2>4, <2>5, <2>6, <2>7, <2>8, StepOf
<1>4. CASE AcceptBaseline(p)
  <2> DEFINE P == [proc[p] EXCEPT !.at = "vendor", !.guard = Captured]
  <2>1. /\ vault' = Captured /\ proc' = [proc EXCEPT ![p] = P] /\ lock' = lock
    BY <1>4 DEF AcceptBaseline
  <2>2. Captured \in Trust
    BY <1>1 DEF Disk, Captured, Trust, Trusted, Baseline, Versions, Preferences
  <2>3. P \in Process /\ P.at = "vendor" /\ P.guard = Captured /\ P.watchdog # "due"
    BY <1>1, <1>2, <2>2 DEF Process, Stages
  <2> HIDE DEF P
  <2>4. Mine(p) /\ proc'[p] = P /\ lock'[p] = Free
    BY <1>1, <1>2, <2>1, <2>3 DEF Mine, Memory
  <2>5. Disk'
    BY <1>1, <1>2, <2>1, <2>2 DEF Disk
  <2>6. Local(p)'
    BY <1>2, <2>1, <2>2, <2>3, <2>4, Beginnings DEF Local, Placed, Leased, Agreed, Same, Lost
  <2>7. Called' /\ calls' \in [Calls -> ACall]
    BY <1>2, <2>4, CallsStay
  <2>8. used' \in Uses /\ (trampled => trampled')
    BY <1>1, <1>2 DEF Memory
  <2> QED
    BY <1>2, <2>4, <2>5, <2>6, <2>7, <2>8, StepOf
<1> QED
  BY <1>3, <1>4

\* A process that ends, or whose guard ends, gives the lease back.
LEMMA EndStep ==
    ASSUME IInv, NEW p \in Processes, NEW P \in Process, proc' = [proc EXCEPT ![p] = P], Unlock(p),
           P.at \in {"down", "stopped"}, P.watchdog # "due", P.at = "stopped" => P.guard \in Trust,
           UNCHANGED <<surface, settings, receipt, used, trampled>>, orphans' \in BOOLEAN,
           lease' = IF lease = p THEN None ELSE lease,
           vault' = vault \/ (vault' \in Trust /\ lease = p),
           Called', calls' \in [Calls -> ACall]
    PROVE  IInv'
<1>1. proc[p] \in Process /\ lock[p] \in Pass /\ Local(p) /\ Memory /\ Disk /\ p # None
  BY Records, Values DEF IInv
<1>2. Mine(p) /\ proc'[p] = P /\ lock'[p] = Free
  BY <1>1, Beginnings DEF Mine, Memory, Unlock
<1>3. Disk'
  BY <1>1 DEF Disk
<1>4. Local(p)'
  BY <1>1, <1>2, AtRest
<1>5. used' \in Uses /\ (trampled => trampled')
  BY <1>1 DEF Memory
<1> QED
  BY <1>1, <1>2, <1>3, <1>4, <1>5, StepOf

\* A process that gives up, stops, undoes a migration or crashes gives back the lease.
LEMMA EndSteps ==
    ASSUME IInv, NEW p \in Processes, GiveUp(p) \/ Stopped(p) \/ MigrationUndone(p) \/ Crash(p)
    PROVE  IInv'
<1>1. proc[p] \in Process /\ lock[p] \in Pass /\ Local(p) /\ Memory /\ Disk /\ Called
  BY Records DEF IInv
<1>2. CASE GiveUp(p) \/ MigrationUndone(p)
  <2>1. /\ lock[p].by \in {"boot", "undo", "start"} /\ proc' = [proc EXCEPT ![p] = Offline] /\ Unlock(p)
        /\ UNCHANGED <<surface, settings, receipt, calls, orphans, used, trampled>>
    BY <1>2 DEF GiveUp, MigrationUndone, Ended, disk
  <2>2. lease = p /\ proc[p].at \in {"boot", "vendor"} /\ proc[p].guard \in Trust
    BY <1>1, <2>1, Enforcers DEF Local, Placed
  <2>3. lease' = None /\ vault' \in {vault, proc[p].guard}
    BY <1>2, <2>2 DEF GiveUp, MigrationUndone, disk
  <2>4. Mine(p)
    BY <1>1, <2>1, Beginnings DEF Mine, Memory, Unlock
  <2>5. Called' /\ calls' \in [Calls -> ACall]
    BY <2>1, <2>2, <2>4, CallsStay
  <2>6. orphans' \in BOOLEAN
    BY <1>1, <2>1 DEF Disk
  <2> QED
    BY <2>1, <2>2, <2>3, <2>5, <2>6, EndStep, Beginnings
<1>3. CASE Stopped(p)
  <2> DEFINE P == [proc[p] EXCEPT !.at = "stopped"]
  <2>1. /\ lock[p].by = "stop" /\ proc' = [proc EXCEPT ![p] = P] /\ Unlock(p) /\ lease' = None
        /\ UNCHANGED <<surface, settings, vault, receipt, calls, orphans, used, trampled>>
    BY <1>3 DEF Stopped, Ended, disk
  <2>2. lease = p /\ proc[p].guard \in Trust /\ proc[p].watchdog # "due"
    BY <1>1, <2>1, Enforcers DEF Local, Placed
  <2>3. P \in Process /\ P.at = "stopped" /\ P.watchdog # "due" /\ P.guard \in Trust
    BY <1>1, <2>2 DEF Process, Stages
  <2> HIDE DEF P
  <2>4. Mine(p) /\ proc'[p] = P
    BY <1>1, <2>1, <2>3, Beginnings DEF Mine, Memory, Unlock
  <2>5. Called' /\ calls' \in [Calls -> ACall]
    BY <2>1, <2>3, <2>4, CallsStay
  <2>6. orphans' \in BOOLEAN
    BY <1>1, <2>1 DEF Disk
  <2> QED
    BY <2>1, <2>2, <2>3, <2>5, <2>6, EndStep
<1>4. CASE Crash(p)
  <2>1. /\ proc' = [proc EXCEPT ![p] = Offline] /\ Unlock(p)
        /\ lease' = IF lease = p THEN None ELSE lease
        /\ calls' = [c \in Calls |-> IF c \in Calling(p) THEN [calls[c] EXCEPT !.at = "failed"] ELSE calls[c]]
        /\ UNCHANGED <<surface, settings, vault, receipt, used, trampled>>
    BY <1>4 DEF Crash, disk
  <2>2. orphans' \in BOOLEAN
    <3>1. orphans \in BOOLEAN /\ (orphans \/ \E c \in Calling(p) : calls[c].at = "running") \in BOOLEAN
      BY <1>1 DEF Disk
    <3> QED
      BY <1>4, <3>1 DEF Crash
  <2>3. calls' \in [Calls -> ACall]
    BY <1>1, <2>1 DEF Memory, ACall
  <2>4. Called'
    <3> SUFFICES ASSUME NEW c \in Calls, calls'[c].at \in {"before", "running", "returned", "after"}
                 PROVE  /\ calls'[c].of \in Processes
                        /\ proc'[calls'[c].of].at \in {"up", "stopping", "stopped"}
      BY DEF Called
    <3>1. c \notin Calling(p) /\ calls'[c] = calls[c]
      BY <1>1, <2>1 DEF Memory, ACall
    <3>2. calls[c].of \in Processes /\ calls[c].of # p /\ proc[calls[c].of].at \in {"up", "stopping", "stopped"}
      BY <1>1, <3>1 DEF Called, Calling
    <3> QED
      BY <1>1, <2>1, <3>1, <3>2 DEF Memory
  <2> QED
    BY <2>1, <2>2, <2>3, <2>4, EndStep, Beginnings
<1> QED
  BY <1>2, <1>3, <1>4

-----------------------------------------------------------------------------
(* The migration of a package.                                             *)

\* What a new version replaces, it replaces with itself.
LEMMA UpdatedIsTrusted ==
    ASSUME NEW p \in Processes, proc[p].guard \in Trust, ~NoUpdate(p)
    PROVE  Updated(p) \in Trust
<1> DEFINE g == proc[p].guard
<1>1. /\ g \in Baseline /\ Release[p] \in {"v1", "v2"} /\ Packaged \in Files
  BY GuardAssumption DEF NoUpdate, Trust, Versions, Files
<1>2. Updated(p) = [g EXCEPT !.manifest = Release[p],
            !.entries = [g.entries EXCEPT ![Packaged] =
                IF g.entries[Packaged] \in {"v1", "v2"} THEN Release[p] ELSE g.entries[Packaged]]]
  BY <1>1 DEF Updated, Baseline
<1>3. g.entries \in [Files -> Contents] /\ g.entries[Packaged] \in Contents
  BY <1>1 DEF Baseline
<1> DEFINE v == IF g.entries[Packaged] \in {"v1", "v2"} THEN Release[p] ELSE g.entries[Packaged]
           e == [g.entries EXCEPT ![Packaged] = v]
<1>4. v \in Contents /\ v \in {Release[p], "changed", "absent"}
  BY <1>1, <1>3 DEF Contents
<1>5. e \in [Files -> Contents] /\ e[Packaged] \in {Release[p], "changed", "absent"}
  BY <1>1, <1>3, <1>4
<1> HIDE DEF e
<1>6. [g EXCEPT !.manifest = Release[p], !.entries = e] \in Baseline
  BY <1>1, <1>5 DEF Baseline, Versions
<1>7. Trusted([g EXCEPT !.manifest = Release[p], !.entries = e])
  BY <1>1, <1>5 DEF Trusted, Baseline
<1> QED
  BY <1>2, <1>6, <1>7 DEF Trust, e

\* The guard takes the files of the new package into its baseline (_migrate_vendor_update).
LEMMA MigrateStep ==
    ASSUME IInv, NEW p \in Processes, Migrate(p)  PROVE IInv'
<1> DEFINE P == [proc[p] EXCEPT !.guard = Updated(p)]
           L == [Holding("vendor", "done") EXCEPT !.old = proc[p].guard,
                    !.at = IF Updated(p).entries = proc[p].guard.entries THEN "done" ELSE "restore",
                    !.todo = Files]
<1>1. proc[p] \in Process /\ lock[p] \in Pass /\ Local(p) /\ Memory /\ Disk
  BY Records DEF IInv
<1>2. /\ proc[p].at = "vendor" /\ lock[p] = Free /\ ~NoUpdate(p) /\ proc' = [proc EXCEPT ![p] = P]
      /\ lock' = [lock EXCEPT ![p] = L] /\ UNCHANGED <<disk, lease, calls, orphans, used, trampled>>
  BY DEF Migrate
<1>3. proc[p].guard \in Trust /\ Updated(p) \in Trust /\ lease = p /\ proc[p].watchdog # "due"
  BY <1>1, <1>2, UpdatedIsTrusted DEF Local, Placed, Leased
<1>4. P \in Process /\ P.at = "vendor" /\ P.guard = Updated(p) /\ P.watchdog # "due"
  BY <1>1, <1>2, <1>3 DEF Process
<1>5. L \in Pass /\ L.by = "vendor" /\ L.at \in {"done", "restore"} /\ L.old = proc[p].guard
  <2>1. Holding("vendor", "done") \in Pass /\ Holding("vendor", "done").by = "vendor"
    BY Beginnings DEF Owners, Places
  <2> QED
    BY <1>3, <2>1 DEF Pass, Places
<1> HIDE DEF P, L
<1>6. Mine(p) /\ proc'[p] = P /\ lock'[p] = L
  BY <1>1, <1>2, <1>4, <1>5 DEF Mine, Memory
<1>7. Disk'
  BY <1>1, <1>2 DEF Disk, disk
<1>8. Local(p)'
  BY <1>2, <1>3, <1>4, <1>5, <1>6 DEF Local, Placed, Leased, Agreed, Same, Lost
<1>9. Called' /\ calls' \in [Calls -> ACall]
  BY <1>2, <1>6, CallsStay
<1>10. used' \in Uses /\ (trampled => trampled') /\ lease' = lease /\ vault' = vault /\ settings' = settings
  BY <1>1, <1>2 DEF Memory, disk
<1> QED
  BY <1>6, <1>7, <1>8, <1>9, <1>10, StepOf

\* The baseline file is saved, or not, and then memory goes back.
LEMMA MigrationSteps ==
    ASSUME IInv, NEW p \in Processes, Migrated(p) \/ MigrationFails(p)  PROVE IInv'
<1>1. proc[p] \in Process /\ lock[p] \in Pass /\ Local(p) /\ Memory /\ Disk
  BY Records DEF IInv
<1>2. /\ lock[p].by = "vendor" /\ lock[p].at \in {"done", "error"}
      /\ UNCHANGED <<surface, settings, receipt, lease, calls, orphans, used, trampled>>
  BY DEF Migrated, MigrationFails, Passed, Ended
<1>3. /\ lease = p /\ proc[p].at = "vendor" /\ proc[p].guard \in Trust /\ lock[p].old \in Trust
      /\ proc[p].watchdog # "due"
  BY <1>1, <1>2, Enforcers DEF Local, Placed
<1>4. used' \in Uses /\ (trampled => trampled') /\ lease' = lease
  BY <1>1, <1>2 DEF Memory
<1>5. CASE Migrated(p)
  <2>1. vault' = proc[p].guard /\ proc' = proc /\ lock' = [lock EXCEPT ![p] = Free]
    BY <1>5 DEF Migrated, Unlock
  <2>2. Mine(p) /\ proc'[p] = proc[p] /\ lock'[p] = Free
    BY <1>1, <2>1, Beginnings DEF Mine, Memory
  <2>3. Disk'
    BY <1>1, <1>2, <1>3, <2>1 DEF Disk
  <2>4. Local(p)'
    BY <1>2, <1>3, <2>1, <2>2, Beginnings DEF Local, Placed, Leased, Agreed, Same, Lost
  <2>5. Called' /\ calls' \in [Calls -> ACall]
    BY <1>2, <1>3, <2>2, CallsStay
  <2> QED
    BY <1>3, <1>4, <2>2, <2>3, <2>4, <2>5, StepOf
<1>6. CASE MigrationFails(p)
  <2> DEFINE P == [proc[p] EXCEPT !.guard = lock[p].old]
             L == Rewrite([lock[p] EXCEPT !.by = "undo"])
  <2>1. /\ vault' \in {vault, proc[p].guard} /\ proc' = [proc EXCEPT ![p] = P] /\ lock' = [lock EXCEPT ![p] = L]
    BY <1>6 DEF MigrationFails, GoneBack
  <2>2. P \in Process /\ P.at = "vendor" /\ P.guard \in Trust /\ P.watchdog # "due"
    BY <1>1, <1>3 DEF Process
  <2>3. L \in Pass /\ L.by = "undo" /\ L.at = "restore"
    BY <1>1 DEF Pass, Rewrite, Owners, Places
  <2> HIDE DEF P, L
  <2>4. Mine(p) /\ proc'[p] = P /\ lock'[p] = L
    BY <1>1, <2>1, <2>2, <2>3 DEF Mine, Memory
  <2>5. Disk'
    BY <1>1, <1>2, <1>3, <2>1 DEF Disk
  <2>6. Local(p)'
    BY <1>2, <1>3, <2>2, <2>3, <2>4 DEF Local, Placed, Leased, Agreed, Same, Lost
  <2>7. Called' /\ calls' \in [Calls -> ACall]
    BY <1>2, <1>3, <2>4, CallsStay
  <2> QED
    BY <1>3, <1>4, <2>4, <2>5, <2>6, <2>7, StepOf
<1> QED
  BY <1>5, <1>6

-----------------------------------------------------------------------------
(* Settings.                                                               *)

\* A step of a save: the process has the lock or takes it, and is up.
LEMMA SaveStep ==
    ASSUME IInv, NEW p \in Processes, NEW P \in Process, NEW L \in Pass, proc[p].at = "up",
           proc' = [proc EXCEPT ![p] = P], lock' = [lock EXCEPT ![p] = L], Disk',
           P.at = "up", P.guard \in Trust, P.watchdog = proc[p].watchdog,
           lock[p].by # "watchdog",
           \/ L = Free
           \/ L.by = "save" /\ L.at \in {"body", "commit"} /\ L.old \in Previous,
           ~trampled' => vault' = P.guard /\ Same(settings'.other, P.store),
           ~trampled' /\ L # Free => /\ L.old.guard = L.old.files.vault
                                     /\ Same(L.old.files.settings.other, L.old.store),
           UNCHANGED <<surface, lease, calls, orphans>>, used' \in Uses, trampled => trampled'
    PROVE  IInv'
<1>1. proc[p] \in Process /\ lock[p] \in Pass /\ Local(p) /\ Memory
  BY Records DEF IInv
<1>2. Mine(p) /\ proc'[p] = P /\ lock'[p] = L
  BY <1>1 DEF Mine, Memory
<1>3. lease = p /\ (P.watchdog = "due" => P.at \in {"up", "stopping"})
  BY <1>1 DEF Local, Leased
<1>4. Placed(p)' /\ Leased(p)'
  BY <1>2, <1>3, Beginnings DEF Placed, Leased
<1>5. ASSUME ~trampled'  PROVE Agreed(p)'
  BY <1>2, <1>5, Beginnings DEF Agreed, Same, Lost
<1>6. Called' /\ calls' \in [Calls -> ACall]
  BY <1>2, CallsStay
<1> QED
  BY <1>2, <1>3, <1>4, <1>5, <1>6, StepOf DEF Local

\* The before-images are what the process remembers, if nobody tramples on the receipt.
LEMMA SaveBeginsStep ==
    ASSUME IInv, NEW p \in Processes, NEW ours \in BOOLEAN, SaveBegins(p, ours)  PROVE IInv'
<1> DEFINE old == [guard |-> proc[p].guard, store |-> proc[p].store, files |-> receipt']
           L == [Holding("save", "body") EXCEPT !.found = ours, !.old = old]
<1>1. proc[p] \in Process /\ lock[p] \in Pass /\ Local(p) /\ Memory /\ Disk
  BY Records DEF IInv
<1>2. /\ proc[p].at = "up" /\ lock[p] = Free /\ used.saves < MaxSaves
      /\ used' = [used EXCEPT !.saves = @ + 1]
      /\ Recovered /\ trampled' = (trampled \/ receipt # None)
      /\ receipt' = [settings |-> settings', vault |-> vault'] /\ lock' = [lock EXCEPT ![p] = L]
      /\ UNCHANGED <<surface, lease, proc, calls, orphans>>
  BY DEF SaveBegins
<1>3. /\ settings' \in Preferences /\ vault' \in Trust \cup {None}
      /\ receipt = None => settings' = settings /\ vault' = vault
  BY <1>2, Recovers
<1>4. receipt' \in Saved /\ receipt'.vault = vault' /\ receipt'.settings = settings'
  BY <1>2, <1>3, Values DEF Saved, Receipt
<1>5. proc[p].guard \in Trust /\ lease = p /\ lock[p].by = "nobody"
  BY <1>1, <1>2, Beginnings DEF Local, Placed, Leased
<1>6. old \in Previous /\ old.guard = proc[p].guard /\ old.store = proc[p].store /\ old.files = receipt'
  BY <1>1, <1>4, <1>5 DEF Previous, Process
<1> HIDE DEF old
<1>7. L \in Pass /\ L.by = "save" /\ L.at = "body" /\ L.old = old
  <2>1. /\ Holding("save", "body") \in Pass /\ Holding("save", "body").by = "save"
        /\ Holding("save", "body").at = "body"
    BY Beginnings DEF Owners, Places
  <2> QED
    BY <1>6, <2>1 DEF Pass
<1>8. used' \in Uses
  <2>1. used.saves + 1 \in 0 .. MaxSaves
    BY <1>1, <1>2, Values DEF Memory, Uses
  <2> QED
    BY <1>1, <1>2, <2>1 DEF Memory, Uses
<1>9. trampled' \in BOOLEAN /\ (trampled => trampled') /\ (~trampled' => ~trampled /\ receipt = None)
  BY <1>2
<1>10. Disk'
  BY <1>1, <1>2, <1>3, <1>4, <1>9 DEF Disk
<1>11. ~trampled' => vault' = proc[p].guard /\ Same(settings'.other, proc[p].store)
  BY <1>1, <1>2, <1>3, <1>5, <1>9 DEF Local, Agreed, Same, Lost
<1>12. ~trampled' => L.old.guard = L.old.files.vault /\ Same(L.old.files.settings.other, L.old.store)
  BY <1>4, <1>6, <1>7, <1>11
<1>13. proc' = [proc EXCEPT ![p] = proc[p]]
  BY <1>1, <1>2 DEF Memory
<1> HIDE DEF L
<1> QED
  BY <1>1, <1>2, <1>5, <1>6, <1>7, <1>8, <1>9, <1>10, <1>11, <1>12, <1>13, SaveStep

\* Within a save the process is up, has the lease and remembers what it may go back to.
LEMMA SaveFacts ==
    ASSUME IInv, NEW p \in Processes, lock[p].at \in {"body", "commit"}
    PROVE  /\ lock[p].by = "save" /\ proc[p].at = "up" /\ lock[p].old \in Previous
           /\ proc[p].guard \in Trust /\ lease = p
           /\ ~trampled => /\ vault = proc[p].guard /\ Same(settings.other, proc[p].store)
                           /\ lock[p].old.guard = lock[p].old.files.vault
                           /\ Same(lock[p].old.files.settings.other, lock[p].old.store)
BY Records DEF Local, Placed, Leased, Agreed, Same, Lost

\* The files are written from the memory of the store, and both agree.
LEMMA SaveWritesStep ==
    ASSUME IInv, NEW p \in Processes, SaveWrites(p)  PROVE IInv'
<1> DEFINE g == [proc[p].guard EXCEPT !.control = Accepted(p)]
           P == [proc[p] EXCEPT !.guard = g, !.store = used.saves]
           L == [lock[p] EXCEPT !.at = "commit"]
<1>1. proc[p] \in Process /\ lock[p] \in Pass /\ Memory /\ Disk
  BY Records DEF IInv
<1>2. /\ lock[p].at = "body" /\ settings' = [control |-> g.control, other |-> used.saves]
      /\ vault' = IF lock[p].found THEN g ELSE vault
      /\ proc' = [proc EXCEPT ![p] = P] /\ lock' = [lock EXCEPT ![p] = L]
      /\ UNCHANGED <<surface, receipt, lease, calls, orphans, used, trampled>>
  BY DEF SaveWrites, In
<1>3. /\ lock[p].by = "save" /\ proc[p].at = "up" /\ lock[p].old \in Previous /\ proc[p].guard \in Trust
      /\ ~trampled => /\ vault = proc[p].guard
                      /\ lock[p].old.guard = lock[p].old.files.vault
                      /\ Same(lock[p].old.files.settings.other, lock[p].old.store)
  BY <1>2, SaveFacts
<1>4. used.saves \in 0 .. MaxSaves /\ MaxSaves \in Nat
  BY <1>1, Values DEF Memory, Uses
<1>5. Accepted(p) \in Controls
  BY <1>3, <1>4 DEF Accepted, Controls, Foreign, Trust, Baseline
<1>6. g \in Trust /\ g.control \in Controls
  BY <1>3, <1>5 DEF Trust, Trusted, Baseline
<1>7. ~trampled' => vault' = g
  <2>1. CASE lock[p].found
    BY <1>2, <2>1
  <2>2. CASE ~lock[p].found
    <3>1. g = proc[p].guard
      BY <1>3, <2>2 DEF Accepted, Trust, Baseline
    <3> QED
      BY <1>2, <1>3, <2>2, <3>1
  <2> QED
    BY <2>1, <2>2
<1>8. P \in Process /\ P.at = "up" /\ P.guard = g /\ P.watchdog = proc[p].watchdog /\ P.store = used.saves
  <2>1. used.saves \in Others
    BY <1>4 DEF Others, Lost
  <2> HIDE DEF g
  <2> QED
    BY <1>1, <1>3, <1>6, <2>1 DEF Process
<1>9. L \in Pass /\ L.by = "save" /\ L.at = "commit" /\ L.old = lock[p].old
  BY <1>1, <1>3 DEF Pass, Places
<1>10. settings' \in Preferences /\ settings'.other = used.saves /\ vault' \in Trust \cup {None}
  <2>1. vault' = g \/ vault' = vault
    BY <1>2
  <2> QED
    BY <1>1, <1>2, <1>4, <1>6, <2>1 DEF Preferences, Disk, Others, Lost
<1>11. Disk'
  BY <1>1, <1>2, <1>10 DEF Disk
<1>12. used' \in Uses /\ (trampled => trampled')
  BY <1>1, <1>2 DEF Memory
<1> HIDE DEF P, L, g
<1>13. Same(settings'.other, P.store)
  BY <1>8, <1>10 DEF Same
<1> QED
  BY <1>1, <1>2, <1>3, <1>6, <1>7, <1>8, <1>9, <1>10, <1>11, <1>12, <1>13, SaveStep

\* The receipt goes, after the files or with them.
LEMMA SaveEndsStep ==
    ASSUME IInv, NEW p \in Processes, SaveCommits(p) \/ SaveFails(p)  PROVE IInv'
<1>1. proc[p] \in Process /\ lock[p] \in Pass /\ Memory /\ Disk
  BY Records DEF IInv
<1>2. /\ lock[p].at \in {"body", "commit"} /\ receipt' = None /\ lock' = [lock EXCEPT ![p] = Free]
      /\ UNCHANGED <<surface, lease, calls, orphans, used, trampled>>
  BY DEF SaveCommits, SaveFails, In, Unlock
<1>3. /\ lock[p].by = "save" /\ proc[p].at = "up" /\ lock[p].old \in Previous /\ proc[p].guard \in Trust
      /\ ~trampled => /\ vault = proc[p].guard /\ Same(settings.other, proc[p].store)
                      /\ lock[p].old.guard = lock[p].old.files.vault
                      /\ Same(lock[p].old.files.settings.other, lock[p].old.store)
  BY <1>2, SaveFacts
<1>4. used' \in Uses /\ (trampled => trampled')
  BY <1>1, <1>2 DEF Memory
<1>5. CASE SaveCommits(p)
  <2>1. settings' = settings /\ vault' = vault /\ proc' = [proc EXCEPT ![p] = proc[p]]
    BY <1>1, <1>5 DEF SaveCommits, Memory
  <2>2. Disk'
    BY <1>1, <1>2, <2>1 DEF Disk
  <2> QED
    BY <1>1, <1>2, <1>3, <1>4, <2>1, <2>2, SaveStep, Beginnings
<1>6. CASE SaveFails(p)
  <2> DEFINE old == lock[p].old
             P == [proc[p] EXCEPT !.guard = old.guard, !.store = old.store]
  <2>1. settings' = old.files.settings /\ vault' = old.files.vault /\ proc' = [proc EXCEPT ![p] = P]
    BY <1>6 DEF SaveFails, Before
  <2>2. /\ old.guard \in Trust /\ old.store \in Others /\ old.files.settings \in Preferences
        /\ old.files.vault \in Trust \cup {None}
    BY <1>3 DEF Previous, Saved, Receipt
  <2>3. /\ P \in Process /\ P.at = "up" /\ P.guard = old.guard /\ P.store = old.store
        /\ P.watchdog = proc[p].watchdog
    BY <1>1, <1>3, <2>2 DEF Process
  <2>4. Disk'
    BY <1>1, <1>2, <2>1, <2>2 DEF Disk
  <2>5. ~trampled' => vault' = P.guard /\ Same(settings'.other, P.store)
    BY <1>2, <1>3, <2>1, <2>3
  <2> HIDE DEF P, old
  <2> QED
    BY <1>1, <1>2, <1>3, <1>4, <2>1, <2>2, <2>3, <2>4, <2>5, SaveStep, Beginnings
<1> QED
  BY <1>5, <1>6

-----------------------------------------------------------------------------
(* The theorems.                                                           *)

\* The first state: no process, no baseline, free locks.
LEMMA InitIInv == Init => IInv
<1> SUFFICES ASSUME Init PROVE IInv
  OBVIOUS
<1>1. /\ surface = [f \in Files |-> IF f = Packaged THEN "v1" ELSE "absent"]
      /\ settings = [control |-> 0, other |-> 0]
      /\ vault = None /\ receipt = None /\ lease = None
      /\ proc = [p \in Processes |-> Offline] /\ lock = [p \in Processes |-> Free]
      /\ calls = [c \in Calls |-> [at |-> "new", of |-> None, wrote |-> FALSE]]
      /\ orphans = FALSE /\ used = [changes |-> 0, saves |-> 0, starts |-> 0] /\ trampled = FALSE
  BY DEF Init
<1>2. Disk
  <2>1. surface \in [Files -> Contents]
    BY <1>1 DEF Contents
  <2>2. settings \in Preferences
    BY <1>1, Values DEF Preferences, Controls, Foreign, Others, Lost
  <2> QED
    BY <1>1, <2>1, <2>2 DEF Disk
<1>3. Memory
  BY <1>1, Values, Beginnings DEF Memory, ACall, Uses
<1>4. ASSUME NEW p \in Processes  PROVE Local(p)
  <2>1. proc[p] = Offline /\ lock[p] = Free /\ lease # p
    BY <1>1, Values
  <2> QED
    BY <2>1, Beginnings DEF Local, Placed, Leased, Agreed, Same, Lost
<1>5. Called
  BY <1>1 DEF Called
<1> QED
  BY <1>2, <1>3, <1>4, <1>5 DEF IInv

\* Every step keeps the invariant.
LEMMA StepIInv == IInv /\ [Next]_vars => IInv'
<1> SUFFICES ASSUME IInv, [Next]_vars PROVE IInv'
  OBVIOUS
<1>1. CASE Change
  BY <1>1, ChangeStep
<1>2. ASSUME NEW p \in Processes, PassStep(p)  PROVE IInv'
  BY <1>2, CompareStep, RestoreFileStep, PreferencesStep, CheckAgainStep DEF PassStep
<1>9. ASSUME NEW p \in Processes, PassFails(p)  PROVE IInv'
  BY <1>9, PassFailsStep
<1>3. ASSUME NEW p \in Processes, Boot(p)  PROVE IInv'
  BY <1>3, StartStep, LeaseRefusedStep, BaselineStep, BootedStep, EndSteps, MigrateStep,
     MigrationSteps, PassesBegin, StartedStep DEF Boot
<1>4. ASSUME NEW p \in Processes, Watch(p) \/ Stop(p)  PROVE IInv'
  BY <1>4, WatchdogSteps, PassesBegin, WatchdogDoneStep, AskStopStep, EndSteps DEF Watch, Stop
<1>5. ASSUME NEW p \in Processes, Save(p)  PROVE IInv'
  BY <1>5, SaveBeginsStep, SaveWritesStep, SaveEndsStep DEF Save
<1>6. ASSUME NEW p \in Processes, Crash(p) \/ Import(p)  PROVE IInv'
  BY <1>6, EndSteps, PassesBegin, ImportSteps DEF Import
<1>7. ASSUME NEW p \in Processes, NEW c \in Calls, Call(p, c)  PROVE IInv'
  BY <1>7, CallSteps
<1>8. CASE UNCHANGED vars
  <2>1. Disk /\ Memory /\ Called /\ \A p \in Processes : Local(p)
    BY DEF IInv
  <2>2. UNCHANGED <<surface, settings, vault, receipt, lease, proc, lock, calls, orphans, used, trampled>>
    BY <1>8 DEF vars, disk
  <2> QED
    BY <2>1, <2>2 DEF IInv, Disk, Memory, Called, Local, Placed, Leased, Agreed, Same, Lost
<1> QED
  BY <1>1, <1>2, <1>3, <1>4, <1>5, <1>6, <1>7, <1>8, <1>9 DEF Next

\* IInv holds in every reachable state.
THEOREM Invariance == Spec => []IInv
BY InitIInv, StepIInv, PTL DEF Spec

\* ControlIsHeld: what a running process enforces is what the next start will load,
\* one process enforces at a time, and the recorded version of a package is true.
THEOREM Guard == Spec => []ControlIsHeld
<1>1. ASSUME IInv PROVE ControlIsHeld
  <2>1. Disk /\ Memory /\ \A p \in Processes : proc[p] \in Process /\ lock[p] \in Pass /\ Local(p)
    BY <1>1, Records DEF IInv
  <2>2. TypeOK
    <3>1. /\ surface \in [Files -> Contents] /\ settings \in Preferences
          /\ vault \in Baseline \cup {None} /\ lease \in Processes \cup {None}
          /\ orphans \in BOOLEAN /\ trampled \in BOOLEAN
      BY <2>1, Values DEF Disk
    <3>2. ASSUME NEW p \in Processes
          PROVE  /\ proc[p].at \in Stages /\ proc[p].guard \in Baseline \cup {None}
                 /\ proc[p].store \in Others /\ proc[p].watchdog \in {"off", "wait", "due"}
                 /\ lock[p].by \in Owners /\ lock[p].todo \subseteq Files
      BY <2>1, Values DEF Process, Pass
    <3>3. \A c \in Calls : calls[c].at \in {"new", "before", "running", "returned", "after", "ok", "failed", "refused"}
      BY <2>1 DEF Memory, ACall
    <3> QED
      BY <3>1, <3>2, <3>3 DEF TypeOK
  <2>3. MemoryIsDurable
    BY <2>1 DEF MemoryIsDurable, Local, Leased, Agreed, Same, Lost, Placed
  <2>4. OneEnforcer
    BY <2>1 DEF OneEnforcer, Local, Placed, Leased
  <2>5. ManifestIsTrusted
    BY <2>1 DEF ManifestIsTrusted, Disk, Trust, Trusted
  <2> QED
    BY <2>2, <2>3, <2>4, <2>5 DEF ControlIsHeld
<1> QED
  BY <1>1, Invariance, PTL

-----------------------------------------------------------------------------
(***************************************************************************)
(* The gateway.  A coroutine moves only while nothing runs without an      *)
(* await, so a start meets no call and a stop no start; whatever waits for *)
(* the gateway is one of its calls, and the others have left no child.     *)
(***************************************************************************)

GKey == GatewayKeys \cup {None}
ABridge == [up : BOOLEAN, key : GKey, history : SUBSET GatewayKeys,
            ownership : {"none", "owned", "adopted_existing"}, lastReady : BOOLEAN,
            lock : GatewayCalls \cup {None}, cached : BOOLEAN]
AChild == [state : {"none", "starting", "listening", "dead"}, key : GKey]
ALog == [exists : BOOLEAN, keys : SUBSET GatewayKeys]
APump == [on : BOOLEAN, line : GKey, attached : BOOLEAN]
ACallOf == [at : {"idle", "lock", "probe", "wait", "run"}, kind : {"gateway", "invoke", "catalog", "agent"},
            child : BOOLEAN, message : BOOLEAN, polls : 0 .. MaxPolls]
AVault == [own : GKey, primary : GKey]
InStart == {"token", "env", "policy", "parse", "vault", "scrub", "skills"}
ALoop == [at : {"free", "cleared", "stopping"} \cup InStart, starting : BOOLEAN,
          parsed : [TokenFiles -> GKey] \cup {<<>>}]

GatewayShape ==
    /\ bridge \in ABridge /\ own \in AChild /\ log \in ALog /\ pump \in APump
    /\ requests \in [GatewayCalls -> ACallOf] /\ tokens \in AVault
    /\ files \in [TokenFiles -> GKey] /\ loop \in ALoop

\* What has been parsed is at hand where it is used.
Parsed == loop.at \in {"vault", "scrub"} => loop.parsed \in [TokenFiles -> GKey]
\* Nothing of the gateway runs before the start that made the bridge is over.
StartsAlone == loop.starting /\ loop.at \in InStart => ~Gateway!Alive
GatewayInv == GatewayShape /\ Parsed /\ StartsAlone /\ Gateway!OwnIsStopped /\ Gateway!NothingLeft

\* The redaction history has only provider keys.
LEMMA KnownKeys == ASSUME GatewayShape PROVE Gateway!Known \in SUBSET GatewayKeys
BY DEF GatewayShape, ABridge, GKey, Gateway!Known

\* The gateway invariant at the start of Elren.
LEMMA GatewayStart == Gateway!Init => GatewayInv
<1> SUFFICES ASSUME Gateway!Init PROVE GatewayInv
  OBVIOUS
<1>1. bridge \in ABridge
  BY DEF Gateway!Init, Gateway!Down, Gateway!Unlocked, ABridge, GKey
<1>2. own \in AChild /\ log \in ALog /\ pump \in APump
  BY DEF Gateway!Init, Gateway!NoProcess, Gateway!NoPump, AChild, ALog, APump, GKey
<1>3. requests \in [GatewayCalls -> ACallOf]
  BY GatewayAssumption DEF Gateway!Init, Gateway!Idle, ACallOf
<1>4. tokens \in AVault /\ files \in [TokenFiles -> GKey] /\ loop \in ALoop
  BY DEF Gateway!Init, AVault, GKey, ALoop
<1>5. Parsed /\ StartsAlone /\ Gateway!OwnIsStopped /\ Gateway!NothingLeft
  BY DEF Gateway!Init, Parsed, StartsAlone, InStart, Gateway!OwnIsStopped, Gateway!NothingLeft, Gateway!Alive,
     Gateway!NoProcess, Gateway!Down
<1> QED BY <1>1, <1>2, <1>3, <1>4, <1>5 DEF GatewayInv, GatewayShape

\* The steps of the log and of the processes.
LEMMA GatewayLog == GatewayInv /\ Gateway!Log => GatewayInv'
<1> SUFFICES ASSUME GatewayInv, Gateway!Log PROVE GatewayInv'
  OBVIOUS
<1> USE DEF GatewayInv
<1>1. UNCHANGED <<own, requests, tokens, files, loop>> /\ bridge' \in ABridge /\ log' \in ALog /\ pump' \in APump
      /\ bridge'.up = bridge.up /\ bridge'.ownership = bridge.ownership
  <2>1. CASE Gateway!GatewayPrints
    BY <2>1 DEF Gateway!GatewayPrints, Gateway!store, GatewayShape, APump, AChild, GKey
  <2>2. CASE Gateway!PumpWrites
    <3>1. Gateway!Known \in SUBSET GatewayKeys
      BY KnownKeys
    <3>2. UNCHANGED <<own, requests, tokens, files, loop>>
      BY <2>2 DEF Gateway!PumpWrites, Gateway!store
    <3>3. CASE loop.at = "cleared"
      <4>1. pump' = Gateway!NoPump /\ UNCHANGED <<bridge, log>>
        BY <2>2, <3>3 DEF Gateway!PumpWrites
      <4>2. Gateway!NoPump \in APump
        BY DEF Gateway!NoPump, APump, GKey
      <4> QED BY <3>2, <4>1, <4>2 DEF GatewayShape
    <3>4. CASE loop.at # "cleared"
      <4>1. /\ pump' = [pump EXCEPT !.line = None] /\ bridge' = [bridge EXCEPT !.history = Gateway!Known]
            /\ log' = IF pump.attached THEN [log EXCEPT !.keys = @ \cup ({pump.line} \ Gateway!Known)] ELSE log
            /\ pump.line # None
        BY <2>2, <3>4 DEF Gateway!PumpWrites
      <4>2. pump' \in APump
        BY <4>1 DEF GatewayShape, APump, GKey
      <4>3. bridge' \in ABridge /\ bridge'.up = bridge.up /\ bridge'.ownership = bridge.ownership
        BY <3>1, <4>1 DEF GatewayShape, ABridge
      <4>4. log' \in ALog
        <5>1. pump.line \in GatewayKeys
          BY <4>1 DEF GatewayShape, APump, GKey
        <5> QED BY <4>1, <5>1 DEF GatewayShape, ALog
      <4> QED BY <3>2, <4>2, <4>3, <4>4
    <3> QED BY <3>3, <3>4
  <2>3. CASE Gateway!PumpEnds
    BY <2>3 DEF Gateway!PumpEnds, Gateway!store, Gateway!NoPump, GatewayShape, APump, GKey
  <2> QED BY <2>1, <2>2, <2>3 DEF Gateway!Log
<1> QED BY <1>1 DEF GatewayShape, Parsed, StartsAlone, Gateway!OwnIsStopped, Gateway!NothingLeft, Gateway!Alive

\* The child may begin to listen or die, and another gateway may come and go.
LEMMA GatewayProcess == GatewayInv /\ Gateway!Process => GatewayInv'
<1> SUFFICES ASSUME GatewayInv, Gateway!Process PROVE GatewayInv'
  OBVIOUS
<1> USE DEF GatewayInv
<1>1. /\ UNCHANGED <<bridge, log, pump, requests, tokens, files, loop>> /\ own' \in AChild
      /\ Gateway!Alive' => Gateway!Alive
  BY DEF Gateway!Process, Gateway!GatewayListens, Gateway!GatewayDies, Gateway!OtherChanges, Gateway!Changes,
     Gateway!store, GatewayShape, AChild, Gateway!Alive
<1> QED BY <1>1 DEF GatewayShape, Parsed, StartsAlone, Gateway!OwnIsStopped, Gateway!NothingLeft

\* The steps of one request: the bridge is at rest, and only it and its child change.
LEMMA GatewayRequest ==
    ASSUME GatewayInv, NEW c \in GatewayCalls, Gateway!Free, UNCHANGED <<tokens, files, loop>>,
           bridge' \in ABridge, bridge'.up = bridge.up, own' \in AChild, log' \in ALog, pump' \in APump,
           Gateway!Alive' => bridge'.ownership = "owned",
           NEW after \in ACallOf, requests' = [requests EXCEPT ![c] = after],
           after.at = "idle" => ~after.child /\ ~after.message
    PROVE  GatewayInv'
<1>1. GatewayShape'
  BY DEF GatewayInv, GatewayShape
<1>2. Parsed' /\ StartsAlone'
  BY DEF Gateway!Free, Parsed, StartsAlone, InStart, Gateway!Alive
<1>3. Gateway!OwnIsStopped'
  BY DEF Gateway!OwnIsStopped, Gateway!Free
<1>4. Gateway!NothingLeft'
  BY DEF Gateway!NothingLeft, GatewayInv, GatewayShape
<1> QED BY <1>1, <1>2, <1>3, <1>4 DEF GatewayInv

\* A call begins: the agent call runs at once, the others wait for the lock.
LEMMA GatewayCalled ==
    ASSUME GatewayInv, NEW c \in GatewayCalls, NEW kind \in {"invoke", "catalog", "agent"}, Gateway!Call(c, kind)
    PROVE  GatewayInv'
<1> DEFINE run == [requests[c] EXCEPT !.at = "run", !.kind = kind, !.child = TRUE, !.message = TRUE]
           wait == [requests[c] EXCEPT !.at = "lock", !.kind = kind]
           after == IF kind = "agent" THEN run ELSE wait
<1>1. /\ Gateway!Free /\ requests' = [requests EXCEPT ![c] = after]
      /\ bridge' = [bridge EXCEPT !.history = Gateway!Known] \/ bridge' = bridge
      /\ UNCHANGED <<own, log, pump, tokens, files, loop>>
  BY DEF Gateway!Call, Gateway!At, Gateway!gateway, Gateway!store
<1>2. requests[c] \in ACallOf
  BY DEF GatewayInv, GatewayShape
<1>3. run \in ACallOf /\ run.at = "run" /\ wait \in ACallOf /\ wait.at = "lock"
  BY <1>2 DEF ACallOf
<1> HIDE DEF run, wait
<1>4. after \in ACallOf /\ after.at # "idle"
  BY <1>3
<1>5. Gateway!Known \in SUBSET GatewayKeys
  BY KnownKeys DEF GatewayInv
<1>6. bridge' \in ABridge /\ bridge'.up = bridge.up /\ bridge'.ownership = bridge.ownership
  BY <1>1, <1>5 DEF GatewayInv, GatewayShape, ABridge
<1>7. own' \in AChild /\ log' \in ALog /\ pump' \in APump
  BY <1>1 DEF GatewayInv, GatewayShape
<1>8. Gateway!Alive' => bridge'.ownership = "owned"
  BY <1>1, <1>6 DEF GatewayInv, Gateway!OwnIsStopped, Gateway!Alive, Gateway!Free
<1> HIDE DEF after
<1> QED BY <1>1, <1>4, <1>6, <1>7, <1>8, GatewayRequest

\* A call takes the lock and probes.
LEMMA GatewayLocked ==
    ASSUME GatewayInv, NEW c \in GatewayCalls, Gateway!Lock(c)
    PROVE  GatewayInv'
<1> DEFINE after == [requests[c] EXCEPT !.at = "probe"]
<1>1. /\ Gateway!Free /\ requests' = [requests EXCEPT ![c] = after]
      /\ bridge' = [bridge EXCEPT !.lock = c]
      /\ UNCHANGED <<own, log, pump, tokens, files, loop>>
  BY DEF Gateway!Lock, Gateway!At, Gateway!Go, Gateway!gateway, Gateway!store
<1>2. after \in ACallOf /\ after.at # "idle"
  BY DEF GatewayInv, GatewayShape, ACallOf
<1>3. bridge' \in ABridge /\ bridge'.up = bridge.up /\ bridge'.ownership = bridge.ownership
  BY <1>1 DEF GatewayInv, GatewayShape, ABridge
<1>4. own' \in AChild /\ log' \in ALog /\ pump' \in APump
  BY <1>1 DEF GatewayInv, GatewayShape
<1>5. Gateway!Alive' => bridge'.ownership = "owned"
  BY <1>1, <1>3 DEF GatewayInv, Gateway!OwnIsStopped, Gateway!Alive, Gateway!Free
<1> HIDE DEF after
<1> QED BY <1>1, <1>2, <1>3, <1>4, <1>5, GatewayRequest

\* A call goes on when the gateway answers, with a child only for the catalog.
LEMMA GatewayReady ==
    ASSUME GatewayInv, NEW c \in GatewayCalls, Gateway!Free, NEW ownership \in {"owned", "adopted_existing"},
           Gateway!Ready(c, ownership), Gateway!Alive => ownership = "owned"
    PROVE  GatewayInv'
<1> DEFINE after == [requests[c] EXCEPT !.at = "run", !.child = (requests[c].kind = "catalog")]
           history == IF requests[c].kind = "catalog" THEN Gateway!Known ELSE bridge.history
<1>1. /\ requests' = [requests EXCEPT ![c] = after]
      /\ bridge' = [bridge EXCEPT !.lock = Gateway!Unlocked, !.ownership = ownership, !.lastReady = TRUE,
                                  !.history = history]
      /\ UNCHANGED <<own, log, pump, tokens, files, loop>>
  BY DEF Gateway!Ready, Gateway!gateway, Gateway!store
<1>2. after \in ACallOf /\ after.at # "idle"
  BY DEF GatewayInv, GatewayShape, ACallOf
<1>3. history \in SUBSET GatewayKeys
  BY KnownKeys DEF GatewayInv, GatewayShape, ABridge
<1> HIDE DEF after, history
<1>4. bridge' \in ABridge /\ bridge'.up = bridge.up /\ bridge'.ownership = ownership
  BY <1>1, <1>3 DEF GatewayInv, GatewayShape, ABridge, Gateway!Unlocked
<1>5. own' \in AChild /\ log' \in ALog /\ pump' \in APump
  BY <1>1 DEF GatewayInv, GatewayShape
<1>6. Gateway!Alive' => bridge'.ownership = "owned"
  BY <1>1, <1>4 DEF Gateway!Alive
<1> QED BY <1>1, <1>2, <1>4, <1>5, <1>6, GatewayRequest

\* A gateway that is started is the bridge's own.
LEMMA GatewayStarts ==
    ASSUME GatewayInv, NEW c, Gateway!Free, Gateway!StartGateway(c)
    PROVE  /\ bridge' \in ABridge /\ bridge'.up = bridge.up /\ own' \in AChild /\ log' \in ALog /\ pump' \in APump
           /\ Gateway!Alive' => bridge'.ownership = "owned"
<1>1. CASE Gateway!Alive
  <2>1. bridge' = [bridge EXCEPT !.lastReady = FALSE] /\ UNCHANGED <<own, pump, log>>
    BY <1>1 DEF Gateway!StartGateway
  <2>2. bridge' \in ABridge /\ bridge'.up = bridge.up /\ bridge'.ownership = bridge.ownership
    BY <2>1 DEF GatewayInv, GatewayShape, ABridge
  <2> QED BY <2>1, <2>2 DEF GatewayInv, GatewayShape, Gateway!OwnIsStopped, Gateway!Alive, Gateway!Free
<1>2. CASE ~Gateway!Alive
  <2>1. /\ bridge' = [bridge EXCEPT !.lastReady = FALSE, !.history = Gateway!Learned, !.ownership = "owned"]
        /\ own' = [state |-> "starting", key |-> bridge.key]
        /\ pump' = [on |-> TRUE, line |-> None, attached |-> TRUE]
        /\ log' = [exists |-> TRUE, keys |-> Gateway!Sanitized]
    BY <1>2 DEF Gateway!StartGateway
  <2>2. Gateway!Learned \in SUBSET GatewayKeys /\ Gateway!Sanitized \in SUBSET GatewayKeys
    BY KnownKeys DEF GatewayInv, GatewayShape, ABridge, ALog, Gateway!Learned, Gateway!Sanitized
  <2>3. bridge' \in ABridge /\ bridge'.up = bridge.up /\ bridge'.ownership = "owned"
    BY <2>1, <2>2 DEF GatewayInv, GatewayShape, ABridge
  <2>4. own' \in AChild /\ pump' \in APump /\ log' \in ALog
    BY <2>1, <2>2 DEF GatewayInv, GatewayShape, ABridge, AChild, APump, ALog, GKey
  <2> QED BY <2>3, <2>4
<1> QED BY <1>1, <1>2

\* A request that fails, returns or is cancelled leaves nothing of its own.
LEMMA GatewayEnds ==
    ASSUME GatewayInv, NEW c \in GatewayCalls, Gateway!Free, requests' = [requests EXCEPT ![c] = Gateway!Idle],
           UNCHANGED <<own, log, pump, tokens, files, loop>>,
           bridge' \in ABridge, bridge'.up = bridge.up, bridge'.ownership = bridge.ownership
    PROVE  GatewayInv'
<1> DEFINE after == Gateway!Idle
<1>1. after \in ACallOf /\ ~after.child /\ ~after.message
  BY GatewayAssumption DEF Gateway!Idle, ACallOf
<1>2. own' \in AChild /\ log' \in ALog /\ pump' \in APump
  BY DEF GatewayInv, GatewayShape
<1>3. Gateway!Alive' => bridge'.ownership = "owned"
  BY DEF GatewayInv, Gateway!OwnIsStopped, Gateway!Alive, Gateway!Free
<1> HIDE DEF after
<1>4. requests' = [requests EXCEPT ![c] = after]
  BY DEF after
<1> QED BY <1>1, <1>2, <1>3, <1>4, GatewayRequest

\* Every step of a call, its end and its cancellation.
LEMMA GatewayWork ==
    ASSUME GatewayInv, NEW c \in GatewayCalls, Gateway!Work(c)
    PROVE  GatewayInv'
<1>1. CASE \E kind \in {"invoke", "catalog", "agent"} : Gateway!Call(c, kind)
  BY <1>1, GatewayCalled
<1>2. CASE Gateway!Lock(c)
  BY <1>2, GatewayLocked
<1>3. CASE Gateway!Probe(c)
  <2>1. Gateway!Free
    BY <1>3 DEF Gateway!Probe, Gateway!At
  <2>2. CASE Gateway!Answers
    <3>1. Gateway!Owner \in {"owned", "adopted_existing"} /\ (Gateway!Alive => Gateway!Owner = "owned")
      BY DEF Gateway!Owner
    <3>2. Gateway!Ready(c, Gateway!Owner)
      BY <1>3, <2>2 DEF Gateway!Probe
    <3> QED BY <2>1, <3>1, <3>2, GatewayReady
  <2>3. CASE ~Gateway!Answers
    <3> DEFINE after == [requests[c] EXCEPT !.at = "wait", !.polls = 0]
    <3>1. /\ Gateway!StartGateway(c) /\ requests' = [requests EXCEPT ![c] = after]
          /\ UNCHANGED <<tokens, files, loop>>
      BY <1>3, <2>3 DEF Gateway!Probe, Gateway!store
    <3>2. after \in ACallOf /\ after.at # "idle"
      <4>1. requests[c] \in ACallOf
        BY DEF GatewayInv, GatewayShape
      <4>2. 0 \in 0 .. MaxPolls
        BY GatewayAssumption
      <4> QED BY <4>1, <4>2 DEF ACallOf
    <3> HIDE DEF after
    <3> QED BY <2>1, <3>1, <3>2, GatewayStarts, GatewayRequest
  <2> QED BY <2>2, <2>3
<1>4. CASE Gateway!Poll(c)
  <2>1. Gateway!Free
    BY <1>4 DEF Gateway!Poll, Gateway!At
  <2>2. CASE Gateway!Answers
    BY <1>4, <2>1, <2>2, GatewayReady DEF Gateway!Poll
  <2>3. CASE ~Gateway!Answers /\ (requests[c].polls = MaxPolls \/ ~Gateway!Alive)
    <3>1. /\ bridge' = [bridge EXCEPT !.lock = Gateway!Unlocked, !.lastReady = FALSE]
          /\ requests' = [requests EXCEPT ![c] = Gateway!Idle] /\ UNCHANGED <<own, log, pump, tokens, files, loop>>
      BY <1>4, <2>3 DEF Gateway!Poll, Gateway!Fails, Gateway!Ends, Gateway!gateway, Gateway!store
    <3>2. bridge' \in ABridge /\ bridge'.up = bridge.up /\ bridge'.ownership = bridge.ownership
      BY <3>1 DEF GatewayInv, GatewayShape, ABridge, Gateway!Unlocked
    <3> QED BY <2>1, <3>1, <3>2, GatewayEnds
  <2>4. CASE ~Gateway!Answers /\ ~(requests[c].polls = MaxPolls \/ ~Gateway!Alive)
    <3> DEFINE after == [requests[c] EXCEPT !.polls = @ + 1]
    <3>1. /\ requests' = [requests EXCEPT ![c] = after] /\ bridge' = [bridge EXCEPT !.lastReady = FALSE]
          /\ UNCHANGED <<own, log, pump, tokens, files, loop>>
      BY <1>4, <2>4 DEF Gateway!Poll, Gateway!gateway, Gateway!store
    <3>2. after \in ACallOf /\ after.at = requests[c].at
      <4>1. requests[c] \in ACallOf
        BY DEF GatewayInv, GatewayShape
      <4>2. requests[c].polls + 1 \in 0 .. MaxPolls
        <5>1. requests[c].polls \in 0 .. MaxPolls
          BY <4>1 DEF ACallOf
        <5> QED BY <2>4, <5>1, GatewayAssumption
      <4> QED BY <4>1, <4>2 DEF ACallOf
    <3>3. after.at # "idle"
      BY <1>4, <3>2 DEF Gateway!Poll, Gateway!At
    <3> HIDE DEF after
    <3>4. bridge' \in ABridge /\ bridge'.up = bridge.up /\ bridge'.ownership = bridge.ownership
      BY <3>1 DEF GatewayInv, GatewayShape, ABridge
    <3>5. own' \in AChild /\ log' \in ALog /\ pump' \in APump
      BY <3>1 DEF GatewayInv, GatewayShape
    <3>6. Gateway!Alive' => bridge'.ownership = "owned"
      BY <2>1, <3>1, <3>4 DEF GatewayInv, Gateway!OwnIsStopped, Gateway!Alive, Gateway!Free
    <3> QED BY <2>1, <3>1, <3>2, <3>3, <3>4, <3>5, <3>6, GatewayRequest
  <2> QED BY <2>2, <2>3, <2>4
<1>5. CASE Gateway!Returns(c)
  <2>1. /\ Gateway!Free /\ requests' = [requests EXCEPT ![c] = Gateway!Idle]
        /\ UNCHANGED <<own, log, pump, tokens, files, loop>>
        /\ bridge' = [bridge EXCEPT !.cached = bridge.cached \/ requests[c].kind = "catalog"]
    BY <1>5 DEF Gateway!Returns, Gateway!At, Gateway!Ends, Gateway!gateway, Gateway!store
  <2>2. bridge' \in ABridge /\ bridge'.up = bridge.up /\ bridge'.ownership = bridge.ownership
    BY <2>1 DEF GatewayInv, GatewayShape, ABridge
  <2> QED BY <2>1, <2>2, GatewayEnds
<1>6. CASE Gateway!Cancelled(c)
  <2>1. /\ Gateway!Free /\ requests' = [requests EXCEPT ![c] = Gateway!Idle]
        /\ UNCHANGED <<own, log, pump, tokens, files, loop>>
        /\ bridge' = [bridge EXCEPT !.lock = IF bridge.lock = c THEN Gateway!Unlocked ELSE bridge.lock]
    BY <1>6 DEF Gateway!Cancelled, Gateway!Reaped, Gateway!gateway, Gateway!store
  <2>2. bridge' \in ABridge /\ bridge'.up = bridge.up /\ bridge'.ownership = bridge.ownership
    BY <2>1 DEF GatewayInv, GatewayShape, ABridge, Gateway!Unlocked
  <2> QED BY <2>1, <2>2, GatewayEnds
<1> QED BY <1>1, <1>2, <1>3, <1>4, <1>5, <1>6 DEF Gateway!Work

\* The steps of the store while the bridge starts, saves or migrates: its process rests.
LEMMA GatewayRests ==
    ASSUME GatewayInv, UNCHANGED <<own, requests>>, bridge' \in ABridge, log' \in ALog, pump' \in APump,
           tokens' \in AVault, files' \in [TokenFiles -> GKey], loop' \in ALoop, Parsed',
           bridge'.up => bridge.up, bridge'.ownership = bridge.ownership \/ ~Gateway!Alive,
           Gateway!Alive => bridge'.up,
           loop.at # "stopping", loop'.at # "stopping",
           loop'.starting /\ loop'.at \in InStart => loop.starting /\ loop.at \in InStart
    PROVE  GatewayInv'
<1>1. GatewayShape'
  BY DEF GatewayInv, GatewayShape
<1>2. StartsAlone' /\ Gateway!OwnIsStopped' /\ Gateway!NothingLeft'
  BY DEF GatewayInv, StartsAlone, Gateway!OwnIsStopped, Gateway!NothingLeft, Gateway!Alive
<1> QED BY <1>1, <1>2 DEF GatewayInv

\* The start, the stop and a crash of Elren.
LEMMA GatewayLifecycle == GatewayInv /\ Gateway!Lifecycle => GatewayInv'
<1> SUFFICES ASSUME GatewayInv, Gateway!Lifecycle PROVE GatewayInv'
  OBVIOUS
<1>0. /\ bridge \in ABridge /\ own \in AChild /\ log \in ALog /\ pump \in APump
      /\ requests \in [GatewayCalls -> ACallOf] /\ tokens \in AVault
      /\ files \in [TokenFiles -> GKey] /\ loop \in ALoop
  BY DEF GatewayInv, GatewayShape
<1>a. Gateway!Down \in ABridge /\ Gateway!Down.up = FALSE
  BY DEF Gateway!Down, Gateway!Unlocked, ABridge, GKey
<1>b. Gateway!Idle \in ACallOf /\ Gateway!Idle.at = "idle" /\ ~Gateway!Idle.child /\ ~Gateway!Idle.message
  BY GatewayAssumption DEF Gateway!Idle, ACallOf
<1>c. Gateway!NoPump \in APump /\ Gateway!NoProcess \in AChild /\ Gateway!NoProcess.state = "none"
  BY DEF Gateway!NoPump, Gateway!NoProcess, APump, AChild, GKey
<1>1. CASE Gateway!Start
  <2> DEFINE key == Gateway!RuntimeKey
             redacts == {key} \ {None}
             history == IF log.exists THEN redacts ELSE {}
             keys == IF log.exists THEN log.keys \ redacts ELSE log.keys
             new == [Gateway!Down EXCEPT !.up = TRUE, !.key = key]
  <2>1. /\ bridge' = [new EXCEPT !.history = history]
        /\ log' = [log EXCEPT !.keys = keys]
        /\ requests' = [c \in GatewayCalls |-> Gateway!Idle]
        /\ loop' = [at |-> "token", starting |-> TRUE, parsed |-> <<>>]
        /\ own = Gateway!NoProcess /\ UNCHANGED <<own, pump, tokens, files>>
    BY <1>1 DEF Gateway!Start
  <2>2. key \in GKey
    BY <1>0 DEF Gateway!RuntimeKey, AVault
  <2>3. history \in SUBSET GatewayKeys /\ keys \in SUBSET GatewayKeys
    BY <1>0, <2>2 DEF GKey, ALog
  <2> HIDE DEF key, history, keys
  <2>4. bridge' \in ABridge /\ bridge'.up = TRUE
    BY <1>a, <2>1, <2>2, <2>3 DEF ABridge
  <2>5. log' \in ALog /\ loop' \in ALoop
    BY <1>0, <2>1, <2>3 DEF ALog, ALoop, InStart
  <2>6. requests' \in [GatewayCalls -> ACallOf] /\ Gateway!NothingLeft'
    BY <1>b, <2>1 DEF Gateway!NothingLeft
  <2>7. GatewayShape'
    BY <1>0, <2>1, <2>4, <2>5, <2>6 DEF GatewayShape
  <2>8. ~Gateway!Alive'
    BY <1>c, <2>1 DEF Gateway!Alive
  <2> QED BY <2>1, <2>6, <2>7, <2>8 DEF GatewayInv, Parsed, StartsAlone, Gateway!OwnIsStopped
<1>2. CASE Gateway!StoreToken \/ Gateway!ScrubToken
  <2>1. /\ loop.at \in {"token", "env"} /\ UNCHANGED <<bridge, own, log, pump, requests, tokens, files>>
        /\ loop' = [loop EXCEPT !.at = "env"] \/ loop' = [loop EXCEPT !.at = "policy"]
    BY <1>2 DEF Gateway!StoreToken, Gateway!ScrubToken, Gateway!Continue, Gateway!gateway
  <2>2. loop' \in ALoop /\ loop'.starting = loop.starting /\ loop'.at \in {"env", "policy"}
    BY <1>0, <2>1 DEF ALoop, InStart
  <2> QED BY <1>0, <2>1, <2>2, GatewayRests DEF Parsed, InStart, GatewayInv, Gateway!OwnIsStopped
<1>3. CASE Gateway!StopBegins
  <2>1. /\ Gateway!Free /\ loop' = [loop EXCEPT !.at = "stopping"]
        /\ own' = IF Gateway!Alive /\ bridge.ownership = "owned" THEN [own EXCEPT !.state = "dead"] ELSE own
        /\ UNCHANGED <<bridge, log, pump, requests, tokens, files>>
    BY <1>3 DEF Gateway!StopBegins, Gateway!store
  <2>2. loop' \in ALoop /\ loop'.at = "stopping" /\ own' \in AChild
    BY <1>0, <2>1 DEF ALoop, AChild
  <2>3. ~Gateway!Alive'
    <3>1. Gateway!Alive => bridge.ownership = "owned"
      BY <2>1 DEF GatewayInv, Gateway!OwnIsStopped, Gateway!Free
    <3>2. CASE Gateway!Alive
      BY <1>0, <2>1, <3>1, <3>2 DEF Gateway!Alive, AChild
    <3>3. CASE ~Gateway!Alive
      BY <2>1, <3>3 DEF Gateway!Alive
    <3> QED BY <3>2, <3>3
  <2>4. GatewayShape'
    BY <1>0, <2>1, <2>2 DEF GatewayShape
  <2>5. Gateway!NothingLeft'
    BY <2>1 DEF GatewayInv, Gateway!NothingLeft
  <2> QED BY <2>2, <2>3, <2>4, <2>5 DEF GatewayInv, Parsed, StartsAlone, InStart, Gateway!OwnIsStopped
<1>4. CASE Gateway!StopEnds
  <2>1. /\ bridge' = Gateway!Down /\ loop' = [loop EXCEPT !.at = "free"] /\ pump' = Gateway!NoPump
        /\ own' = IF Gateway!Alive THEN own ELSE Gateway!NoProcess
        /\ loop.at = "stopping" /\ UNCHANGED <<log, requests, tokens, files>>
    BY <1>4 DEF Gateway!StopEnds, Gateway!store
  <2>2. own' = Gateway!NoProcess
    BY <2>1 DEF GatewayInv, Gateway!OwnIsStopped
  <2>3. ~Gateway!Alive'
    BY <1>c, <2>2 DEF Gateway!Alive
  <2>4. loop' \in ALoop /\ loop'.at = "free"
    BY <1>0, <2>1 DEF ALoop
  <2>5. GatewayShape'
    BY <1>0, <1>a, <1>c, <2>1, <2>2, <2>4 DEF GatewayShape
  <2> QED BY <1>a, <2>1, <2>3, <2>4, <2>5
      DEF GatewayInv, Parsed, StartsAlone, InStart, Gateway!OwnIsStopped, Gateway!NothingLeft
<1>5. CASE Gateway!Crash
  <2> DEFINE left == [c \in GatewayCalls |-> [Gateway!Idle EXCEPT !.message = requests[c].message]]
  <2>1. /\ bridge' = Gateway!Down /\ loop' = [at |-> "free", starting |-> FALSE, parsed |-> <<>>]
        /\ own' = Gateway!NoProcess /\ pump' = Gateway!NoPump
        /\ requests' = left /\ UNCHANGED <<log, tokens, files>>
    BY <1>5 DEF Gateway!Crash, Gateway!store
  <2>2. left \in [GatewayCalls -> ACallOf]
    <3> SUFFICES ASSUME NEW c \in GatewayCalls PROVE left[c] \in ACallOf
      OBVIOUS
    <3>1. requests[c].message \in BOOLEAN
      BY <1>0 DEF ACallOf
    <3> QED BY <1>b, <3>1 DEF ACallOf
  <2> HIDE DEF left
  <2>3. loop' \in ALoop /\ loop'.at = "free" /\ ~Gateway!Alive'
    BY <1>c, <2>1 DEF ALoop, Gateway!Alive
  <2>4. GatewayShape'
    BY <1>0, <1>a, <1>c, <2>1, <2>2, <2>3 DEF GatewayShape
  <2> QED BY <1>a, <2>1, <2>3, <2>4
      DEF GatewayInv, Parsed, StartsAlone, InStart, Gateway!OwnIsStopped, Gateway!NothingLeft
<1>6. CASE Gateway!CacheExpires \/ \E probe \in BOOLEAN : Gateway!Status(probe)
  <2>1. /\ Gateway!Free /\ UNCHANGED <<own, log, pump, requests, tokens, files, loop>>
        /\ bridge' \in ABridge /\ bridge'.up = bridge.up
        /\ bridge'.ownership = bridge.ownership \/ bridge'.ownership = Gateway!Owner
    <3>1. CASE Gateway!CacheExpires
      BY <1>0, <3>1 DEF Gateway!CacheExpires, Gateway!gateway, Gateway!store, ABridge
    <3>2. ASSUME NEW probe \in BOOLEAN, Gateway!Status(probe)
          PROVE  /\ Gateway!Free /\ UNCHANGED <<own, log, pump, requests, tokens, files, loop>>
                 /\ bridge' \in ABridge /\ bridge'.up = bridge.up
                 /\ bridge'.ownership = bridge.ownership \/ bridge'.ownership = Gateway!Owner
      <4>1. Gateway!Answers \in BOOLEAN
        BY DEF Gateway!Answers
      <4> DEFINE seen == IF probe THEN Gateway!Answers ELSE bridge.lastReady
                 ready == IF probe THEN Gateway!Answers ELSE bridge.lastReady \/ Gateway!Alive
                 ownership == IF ready THEN Gateway!Owner ELSE bridge.ownership
      <4>2. /\ Gateway!Free /\ UNCHANGED <<own, log, pump, requests, tokens, files, loop>>
            /\ bridge' = [bridge EXCEPT !.lastReady = seen, !.ownership = ownership]
        BY <3>2 DEF Gateway!Status, Gateway!gateway, Gateway!store
      <4>3. seen \in BOOLEAN /\ ownership \in {"none", "owned", "adopted_existing"}
        BY <1>0, <4>1 DEF ABridge, Gateway!Owner
      <4>4. ownership = bridge.ownership \/ ownership = Gateway!Owner
        OBVIOUS
      <4> HIDE DEF seen, ownership
      <4> QED BY <1>0, <4>2, <4>3, <4>4 DEF ABridge
    <3> QED BY <1>6, <3>1, <3>2
  <2>2. Gateway!Alive' => bridge'.ownership = "owned"
    BY <2>1 DEF GatewayInv, Gateway!OwnIsStopped, Gateway!Alive, Gateway!Owner, Gateway!Free
  <2>3. GatewayShape'
    BY <1>0, <2>1 DEF GatewayShape
  <2> QED BY <2>1, <2>2, <2>3
      DEF GatewayInv, Gateway!Free, Parsed, StartsAlone, InStart, Gateway!OwnIsStopped, Gateway!NothingLeft, Gateway!Alive
<1> QED BY <1>1, <1>2, <1>3, <1>4, <1>5, <1>6 DEF Gateway!Lifecycle

\* A settings save and its rollback change the key only.
LEMMA GatewaySettings == GatewayInv /\ Gateway!Settings => GatewayInv'
<1> SUFFICES ASSUME GatewayInv, Gateway!Settings PROVE GatewayInv'
  OBVIOUS
<1>0. /\ bridge \in ABridge /\ own \in AChild /\ log \in ALog /\ pump \in APump
      /\ requests \in [GatewayCalls -> ACallOf] /\ tokens \in AVault
      /\ files \in [TokenFiles -> GKey] /\ loop \in ALoop
  BY DEF GatewayInv, GatewayShape
<1>1. ASSUME NEW k \in GatewayKeys, Gateway!SaveSettings(k) PROVE GatewayInv'
  <2> DEFINE key == IF tokens.own # None THEN tokens.own ELSE k
  <2>1. /\ Gateway!Free /\ tokens' = [tokens EXCEPT !.primary = k]
        /\ bridge' = [bridge EXCEPT !.key = key]
        /\ loop' = [at |-> "parse", starting |-> FALSE, parsed |-> <<>>]
        /\ UNCHANGED <<own, log, pump, files, requests>>
    BY <1>1 DEF Gateway!SaveSettings, Gateway!gateway
  <2>2. tokens' \in AVault /\ key \in GKey
    BY <1>0, <2>1 DEF AVault, GKey
  <2> HIDE DEF key
  <2>3. bridge' \in ABridge /\ bridge'.up = bridge.up /\ bridge'.ownership = bridge.ownership
    BY <1>0, <2>1, <2>2 DEF ABridge
  <2>4. loop' \in ALoop
    BY <2>1 DEF ALoop, InStart
  <2> QED BY <1>0, <2>1, <2>2, <2>3, <2>4, GatewayRests DEF Gateway!Free, Parsed
<1>2. CASE Gateway!RollbackClears \/ Gateway!RollbackRestores
  <2>1. /\ UNCHANGED <<bridge, own, log, pump, tokens, files, requests>> /\ loop.at \in {"free", "cleared"}
        /\ loop' = [loop EXCEPT !.at = "cleared"] \/ loop' = [loop EXCEPT !.at = "free"]
    BY <1>2 DEF Gateway!RollbackClears, Gateway!RollbackRestores, Gateway!Continue, Gateway!Free, Gateway!gateway, Gateway!store
  <2>2. loop' \in ALoop /\ loop'.at \in {"free", "cleared"}
    BY <1>0, <2>1 DEF ALoop
  <2>3. Gateway!Alive => bridge.up
    BY DEF GatewayInv, Gateway!OwnIsStopped
  <2> QED BY <1>0, <2>1, <2>2, <2>3, GatewayRests DEF Parsed, InStart
<1> QED BY <1>1, <1>2 DEF Gateway!Settings

\* The migration into the vault, or its error, which ends a start.
LEMMA GatewayVaulted ==
    ASSUME GatewayInv, Gateway!Vaulted \/ Gateway!VaultFails
    PROVE  GatewayInv'
<1>0. /\ bridge \in ABridge /\ own \in AChild /\ log \in ALog /\ pump \in APump
      /\ requests \in [GatewayCalls -> ACallOf] /\ tokens \in AVault
      /\ files \in [TokenFiles -> GKey] /\ loop \in ALoop
  BY DEF GatewayInv, GatewayShape
<1>1. loop.at = "vault" /\ loop.parsed \in [TokenFiles -> GKey]
  BY DEF Gateway!Vaulted, Gateway!VaultFails, GatewayInv, Parsed
<1>2. Gateway!Alive => bridge.up
  BY DEF GatewayInv, Gateway!OwnIsStopped
<1>3. CASE Gateway!Vaulted /\ Gateway!MayScrub
  <2> DEFINE drawn == IF Gateway!Credentials = {} THEN tokens.own ELSE CHOOSE k \in Gateway!Credentials : TRUE
             key == IF drawn # None THEN drawn ELSE bridge.key
  <2>1. /\ tokens' = [tokens EXCEPT !.own = drawn] /\ bridge' = [bridge EXCEPT !.key = key]
        /\ loop' = [loop EXCEPT !.at = "scrub"] /\ UNCHANGED <<own, log, pump, files, requests>>
    BY <1>3 DEF Gateway!Vaulted, Gateway!Continue, Gateway!gateway
  <2>2. drawn \in GKey
    <3>1. Gateway!Credentials \subseteq GatewayKeys
      BY <1>1 DEF Gateway!Credentials, GKey
    <3>2. CASE Gateway!Credentials = {}
      BY <1>0, <3>2 DEF AVault
    <3>3. CASE Gateway!Credentials # {}
      BY <3>1, <3>3 DEF GKey
    <3> QED BY <3>2, <3>3
  <2>3. key \in GKey
    BY <1>0, <2>2 DEF ABridge
  <2> HIDE DEF drawn, key
  <2>4. tokens' \in AVault /\ bridge' \in ABridge /\ bridge'.up = bridge.up /\ bridge'.ownership = bridge.ownership
    BY <1>0, <2>1, <2>2, <2>3 DEF AVault, ABridge
  <2>5. loop' \in ALoop /\ loop'.at = "scrub" /\ loop'.starting = loop.starting /\ loop'.parsed = loop.parsed
    BY <1>0, <2>1 DEF ALoop, InStart
  <2> QED BY <1>0, <1>1, <1>2, <2>1, <2>4, <2>5, GatewayRests DEF Parsed, InStart
<1>4. CASE Gateway!VaultFails \/ (Gateway!Vaulted /\ ~Gateway!MayScrub)
  <2>1. /\ loop' = [at |-> "free", starting |-> FALSE, parsed |-> <<>>]
        /\ bridge' = IF loop.starting THEN Gateway!Down ELSE bridge
        /\ UNCHANGED <<own, log, pump, tokens, files, requests>>
    BY <1>4 DEF Gateway!Vaulted, Gateway!VaultFails, Gateway!Raises, Gateway!gateway, Gateway!store
  <2>2. loop' \in ALoop
    BY <2>1 DEF ALoop
  <2>3. Gateway!Down \in ABridge /\ Gateway!Down.up = FALSE
    BY DEF Gateway!Down, Gateway!Unlocked, ABridge, GKey
  <2>4. loop.starting => ~Gateway!Alive
    BY <1>1 DEF GatewayInv, StartsAlone, InStart
  <2>5. bridge' \in ABridge /\ (bridge'.up => bridge.up) /\ (Gateway!Alive => bridge' = bridge)
    BY <1>0, <2>1, <2>3, <2>4
  <2>6. bridge'.ownership = bridge.ownership \/ ~Gateway!Alive
    BY <2>5
  <2> QED BY <1>0, <1>1, <1>2, <2>1, <2>2, <2>5, <2>6, GatewayRests DEF Parsed, InStart
<1> QED BY <1>3, <1>4

\* The migration and the edits of the files.
LEMMA GatewayMigration == GatewayInv /\ Gateway!Migration => GatewayInv'
<1> SUFFICES ASSUME GatewayInv, Gateway!Migration PROVE GatewayInv'
  OBVIOUS
<1>0. /\ bridge \in ABridge /\ own \in AChild /\ log \in ALog /\ pump \in APump
      /\ requests \in [GatewayCalls -> ACallOf] /\ tokens \in AVault
      /\ files \in [TokenFiles -> GKey] /\ loop \in ALoop
  BY DEF GatewayInv, GatewayShape
<1>a. Gateway!Alive => bridge.up
  BY DEF GatewayInv, Gateway!OwnIsStopped
<1>1. ASSUME Gateway!UpdateConfig("policy", "parse") \/ Gateway!UpdateConfig("skills", "free") PROVE GatewayInv'
  <2>1. /\ loop.at \in {"policy", "skills"} /\ UNCHANGED <<bridge, own, log, pump, tokens, requests>>
        /\ loop' = [loop EXCEPT !.at = "parse"] \/ loop' = [loop EXCEPT !.at = "free"]
        /\ files' = files \/ files' = [files EXCEPT ![Root] = None]
    BY <1>1 DEF Gateway!UpdateConfig, Gateway!Continue, Gateway!gateway
  <2>2. loop' \in ALoop /\ loop'.at \in {"parse", "free"} /\ loop'.starting = loop.starting
    BY <1>0, <2>1 DEF ALoop, InStart
  <2>3. files' \in [TokenFiles -> GKey]
    BY <1>0, <2>1 DEF GKey
  <2> QED BY <1>0, <1>a, <2>1, <2>2, <2>3, GatewayRests DEF Parsed, InStart
<1>2. CASE Gateway!Parse
  <2>1. /\ loop.at = "parse" /\ loop' = [loop EXCEPT !.at = "vault", !.parsed = files]
        /\ UNCHANGED <<bridge, own, log, pump, tokens, files, requests>>
    BY <1>2 DEF Gateway!Parse, Gateway!gateway, Gateway!store
  <2>2. loop' \in ALoop /\ loop'.at = "vault" /\ loop'.starting = loop.starting /\ loop'.parsed = files
    BY <1>0, <2>1 DEF ALoop, InStart
  <2> QED BY <1>0, <1>a, <2>1, <2>2, GatewayRests DEF Parsed, InStart
<1>3. CASE Gateway!Vaulted \/ Gateway!VaultFails
  BY <1>3, GatewayVaulted
<1>4. ASSUME NEW f \in TokenFiles, Gateway!Scrub(f) PROVE GatewayInv'
  <2>1. /\ loop.at = "scrub" /\ loop' = [loop EXCEPT !.parsed = [loop.parsed EXCEPT ![f] = None]]
        /\ files' = [files EXCEPT ![f] = None] /\ UNCHANGED <<bridge, own, log, pump, tokens, requests>>
    BY <1>4 DEF Gateway!Scrub, Gateway!gateway
  <2>2. [loop.parsed EXCEPT ![f] = None] \in [TokenFiles -> GKey] /\ files' \in [TokenFiles -> GKey]
    BY <1>0, <2>1 DEF GatewayInv, Parsed, GKey
  <2>3. loop' \in ALoop /\ loop'.at = "scrub" /\ loop'.starting = loop.starting /\ Parsed'
    BY <1>0, <2>1, <2>2 DEF ALoop, Parsed
  <2> QED BY <1>0, <1>a, <2>1, <2>2, <2>3, GatewayRests DEF InStart
<1>5. CASE Gateway!Scrubbed
  <2>1. /\ loop.at = "scrub" /\ loop' = [loop EXCEPT !.at = "skills"]
        /\ log' = [log EXCEPT !.keys = Gateway!Sanitized] /\ pump' = [pump EXCEPT !.attached = Gateway!Attached]
        /\ bridge' = [bridge EXCEPT !.history = Gateway!Learned]
        /\ UNCHANGED <<own, tokens, files, requests>>
    BY <1>5 DEF Gateway!Scrubbed, Gateway!Continue, Gateway!store
  <2>2. Gateway!Learned \in SUBSET GatewayKeys /\ Gateway!Sanitized \in SUBSET GatewayKeys
    BY <1>0, KnownKeys DEF GatewayInv, ABridge, ALog, Gateway!Learned, Gateway!Sanitized
  <2>3. Gateway!Attached \in BOOLEAN
    BY <1>0 DEF Gateway!Attached, APump
  <2>4. bridge' \in ABridge /\ bridge'.up = bridge.up /\ bridge'.ownership = bridge.ownership
    BY <1>0, <2>1, <2>2 DEF ABridge
  <2>5. log' \in ALog /\ pump' \in APump
    BY <1>0, <2>1, <2>2, <2>3 DEF ALog, APump
  <2>6. loop' \in ALoop /\ loop'.at = "skills" /\ loop'.starting = loop.starting
    BY <1>0, <2>1 DEF ALoop, InStart
  <2> QED BY <1>0, <1>a, <2>1, <2>4, <2>5, <2>6, GatewayRests DEF Parsed, InStart
<1>6. ASSUME NEW f \in TokenFiles, NEW k \in GatewayKeys, Gateway!UserEdits(f, k) PROVE GatewayInv'
  <2>1. loop.at = "free" /\ files' = [files EXCEPT ![f] = k] /\ UNCHANGED <<bridge, own, log, pump, tokens, loop, requests>>
    BY <1>6 DEF Gateway!UserEdits, Gateway!gateway
  <2>2. files' \in [TokenFiles -> GKey]
    BY <1>0, <2>1 DEF GKey
  <2> QED BY <1>0, <1>a, <2>1, <2>2, GatewayRests DEF Parsed, InStart
<1> QED BY <1>1, <1>2, <1>3, <1>4, <1>5, <1>6 DEF Gateway!Migration

\* OwnIsStopped, NothingLeft: the gateway that the bridge started is always one that its
\* stop will stop, a stop leaves none behind, and a call that is over has left neither a
\* child process nor a file with its prompt.
THEOREM GatewayStops == FilesSpec => []GatewayIsStopped
<1> DEFINE Inv == subject = "gateway" => GatewayInv
<1>1. FilesInit => Inv
  BY GatewayStart DEF FilesInit
<1>2. Inv /\ [FilesNext]_allVars => Inv'
  <2> SUFFICES ASSUME Inv, [FilesNext]_allVars, subject' = "gateway" PROVE GatewayInv'
    OBVIOUS
  <2>1. subject = "gateway" /\ GatewayInv
    BY DEF FilesNext, allVars
  <2>2. CASE UNCHANGED gateway
    BY <2>1, <2>2 DEF gateway, GatewayInv, GatewayShape, Parsed, StartsAlone, Gateway!OwnIsStopped, Gateway!NothingLeft,
       Gateway!Alive
  <2>3. CASE Gateway!Next
    BY <2>1, <2>3, GatewayLog, GatewayProcess, GatewayWork, GatewayLifecycle, GatewaySettings, GatewayMigration
    DEF Gateway!Next
  <2> QED BY <2>2, <2>3 DEF FilesNext, allVars
<1>3. Inv => GatewayIsStopped
  <2> SUFFICES ASSUME GatewayInv PROVE Gateway!TypeOK /\ Gateway!OwnIsStopped /\ Gateway!NothingLeft
    BY DEF GatewayIsStopped
  <2>1. \A c \in GatewayCalls : requests[c] \in ACallOf
    BY DEF GatewayInv, GatewayShape
  <2> QED BY <2>1 DEF GatewayInv, GatewayShape, Gateway!TypeOK, ABridge, AChild, ALog, APump, ALoop, ACallOf, GKey,
      Gateway!Unlocked, InStart
<1> QED BY <1>1, <1>2, <1>3, PTL DEF FilesSpec

-----------------------------------------------------------------------------
(* The gateway's credentials.  A key is noted for redaction before a child *)
(* can print it, and the files are scrubbed of what the vault has.         *)

\* Every key that a child may print has been noted for redaction before.
LogKept ==
    /\ log.exists /\ log.keys = {}
    /\ Gateway!Alive => own.key \in bridge.history \cup {None}
    /\ pump.line # None => pump.line \in bridge.history /\ bridge.up /\ ~(loop.starting /\ loop.at \in InStart)

\* What is scrubbed from the files is in the vault.
KeysMigrated ==
    /\ Gateway!CredentialsMigrated /\ found \in SUBSET GatewayKeys
    /\ loop.at = "vault" => loop.parsed = files
    /\ loop.at = "scrub" => found \subseteq {tokens.own}

\* A step that changes neither the child nor the log keeps every printed key redacted.
LEMMA LogStays ==
    ASSUME LogKept, UNCHANGED <<own, log>>, pump' = pump \/ pump'.line = None,
           bridge.history \subseteq bridge'.history, bridge'.up = bridge.up,
           loop'.starting /\ loop'.at \in InStart => loop.starting /\ loop.at \in InStart
    PROVE  LogKept'
BY DEF LogKept, Gateway!Alive

\* A step that changes neither the files nor the vault's own key keeps the migration.
LEMMA FilesStay ==
    ASSUME KeysMigrated, UNCHANGED <<files, found>>, tokens'.own = tokens.own,
           loop'.at \in {"vault", "scrub"} => loop' = loop
    PROVE  KeysMigrated'
BY DEF KeysMigrated, Gateway!CredentialsMigrated

\* No step writes a key into the log.
LEMMA LogStep == GatewayInv /\ LogKept /\ Gateway!Next => LogKept'
<1> SUFFICES ASSUME GatewayInv, LogKept, Gateway!Next PROVE LogKept'
  OBVIOUS
<1>0. /\ bridge \in ABridge /\ own \in AChild /\ log \in ALog /\ pump \in APump
      /\ requests \in [GatewayCalls -> ACallOf] /\ tokens \in AVault
      /\ files \in [TokenFiles -> GKey] /\ loop \in ALoop
  BY DEF GatewayInv, GatewayShape
<1>a. /\ bridge.history \subseteq Gateway!Known /\ Gateway!Learned = Gateway!Known /\ Gateway!Sanitized = {}
      /\ bridge.key # None => bridge.key \in Gateway!Known
  BY DEF Gateway!Known, Gateway!Learned, Gateway!Sanitized, LogKept
<1>b. Gateway!NoPump.line = None /\ Gateway!NoProcess.state = "none"
  BY DEF Gateway!NoPump, Gateway!NoProcess
<1>1. CASE Gateway!Log
  <2>1. CASE Gateway!GatewayPrints
    <3>1. /\ Gateway!Alive /\ own.key # None /\ pump' = [pump EXCEPT !.line = own.key]
          /\ UNCHANGED <<bridge, own, log, loop>>
      BY <2>1 DEF Gateway!GatewayPrints
    <3>2. pump'.line = own.key
      BY <1>0, <3>1 DEF APump
    <3>3. bridge.up /\ ~(loop.starting /\ loop.at \in InStart)
      BY <3>1 DEF GatewayInv, StartsAlone, Gateway!OwnIsStopped
    <3> QED BY <3>1, <3>2, <3>3 DEF LogKept, Gateway!Alive
  <2>2. CASE Gateway!PumpWrites
    <3>1. CASE loop.at = "cleared"
      <4>1. pump' = Gateway!NoPump /\ UNCHANGED <<bridge, own, log, loop>>
        BY <2>2, <3>1 DEF Gateway!PumpWrites
      <4> QED BY <1>b, <4>1, LogStays
    <3>2. CASE loop.at # "cleared"
      <4>1. /\ pump.line # None /\ pump' = [pump EXCEPT !.line = None]
            /\ bridge' = [bridge EXCEPT !.history = Gateway!Known]
            /\ log' = IF pump.attached THEN [log EXCEPT !.keys = @ \cup ({pump.line} \ Gateway!Known)] ELSE log
            /\ UNCHANGED <<own, loop>>
        BY <2>2, <3>2 DEF Gateway!PumpWrites
      <4>2. pump.line \in Gateway!Known
        BY <1>a, <4>1 DEF LogKept
      <4>3. {pump.line} \ Gateway!Known = {}
        BY <4>2
      <4>4. log' = log
        BY <1>0, <4>1, <4>3 DEF ALog
      <4>5. pump'.line = None
        BY <1>0, <4>1 DEF APump
      <4>6. bridge'.history = Gateway!Known /\ bridge'.up = bridge.up
        BY <1>0, <4>1 DEF ABridge
      <4> QED BY <1>a, <4>1, <4>4, <4>5, <4>6, LogStays
    <3> QED BY <3>1, <3>2
  <2>3. CASE Gateway!PumpEnds
    <3>1. pump' = Gateway!NoPump /\ UNCHANGED <<bridge, own, log, loop>>
      BY <2>3 DEF Gateway!PumpEnds
    <3> QED BY <1>b, <3>1, LogStays
  <2> QED BY <1>1, <2>1, <2>2, <2>3 DEF Gateway!Log
<1>2. CASE Gateway!Process
  <2>1. /\ UNCHANGED <<bridge, log, pump, loop>> /\ own'.key = own.key /\ (Gateway!Alive' => Gateway!Alive)
    BY <1>0, <1>2 DEF Gateway!Process, Gateway!GatewayListens, Gateway!GatewayDies, Gateway!OtherChanges, Gateway!Alive, AChild
  <2> QED BY <2>1 DEF LogKept
<1>3. ASSUME NEW c \in GatewayCalls, Gateway!Work(c) PROVE LogKept'
  <2>1. CASE Gateway!Probe(c) /\ ~Gateway!Answers /\ ~Gateway!Alive
    <3>1. /\ bridge' = [bridge EXCEPT !.lastReady = FALSE, !.history = Gateway!Learned, !.ownership = "owned"]
          /\ own' = [state |-> "starting", key |-> bridge.key]
          /\ pump' = [on |-> TRUE, line |-> None, attached |-> TRUE]
          /\ log' = [exists |-> TRUE, keys |-> Gateway!Sanitized] /\ loop' = loop
      BY <2>1 DEF Gateway!Probe, Gateway!StartGateway
    <3>2. bridge'.history = Gateway!Known
      BY <1>0, <1>a, <3>1 DEF ABridge
    <3> QED BY <1>a, <3>1, <3>2 DEF LogKept
  <2>2. CASE ~(Gateway!Probe(c) /\ ~Gateway!Answers /\ ~Gateway!Alive)
    <3>1. UNCHANGED <<own, log, pump, loop>>
      BY <1>3, <2>2 DEF Gateway!Work, Gateway!Call, Gateway!Lock, Gateway!Probe, Gateway!Poll, Gateway!Ready, Gateway!StartGateway,
         Gateway!Returns, Gateway!Cancelled, Gateway!gateway, Gateway!store
    <3>2. bridge'.up = bridge.up /\ bridge'.history \in {bridge.history, Gateway!Known}
      <4>1. CASE \E kind \in {"invoke", "catalog", "agent"} : Gateway!Call(c, kind)
        BY <1>0, <4>1 DEF Gateway!Call, ABridge
      <4>2. CASE Gateway!Lock(c)
        BY <1>0, <4>2 DEF Gateway!Lock, ABridge
      <4>3. ASSUME NEW ownership, Gateway!Ready(c, ownership)
            PROVE  bridge'.up = bridge.up /\ bridge'.history \in {bridge.history, Gateway!Known}
        BY <1>0, <4>3 DEF Gateway!Ready, ABridge
      <4>4. CASE Gateway!Probe(c)
        <5>1. CASE Gateway!Answers
          BY <4>3, <4>4, <5>1 DEF Gateway!Probe
        <5>2. CASE ~Gateway!Answers
          BY <1>0, <2>2, <4>4, <5>2 DEF Gateway!Probe, Gateway!StartGateway, ABridge
        <5> QED BY <5>1, <5>2
      <4>5. CASE Gateway!Poll(c)
        <5>1. CASE Gateway!Answers
          BY <4>3, <4>5, <5>1 DEF Gateway!Poll
        <5>2. CASE ~Gateway!Answers
          BY <1>0, <4>5, <5>2 DEF Gateway!Poll, Gateway!Fails, ABridge
        <5> QED BY <5>1, <5>2
      <4>6. CASE Gateway!Returns(c) \/ Gateway!Cancelled(c)
        BY <1>0, <4>6 DEF Gateway!Returns, Gateway!Cancelled, ABridge
      <4> QED BY <1>3, <4>1, <4>2, <4>4, <4>5, <4>6 DEF Gateway!Work
    <3> QED BY <1>a, <3>1, <3>2, LogStays
  <2> QED BY <2>1, <2>2
<1>4. CASE Gateway!Start
  <2>1. ~bridge.up /\ own = Gateway!NoProcess /\ UNCHANGED <<own, pump>>
    BY <1>4 DEF Gateway!Start
  <2>2. log'.exists /\ log'.keys = {}
    BY <1>0, <1>4 DEF Gateway!Start, LogKept, ALog
  <2> QED BY <1>b, <2>1, <2>2 DEF LogKept, Gateway!Alive
<1>5. CASE Gateway!StoreToken \/ Gateway!ScrubToken
  <2>1. /\ loop.at \in {"token", "env"} /\ UNCHANGED <<bridge, own, log, pump>>
        /\ loop' = [loop EXCEPT !.at = "env"] \/ loop' = [loop EXCEPT !.at = "policy"]
    BY <1>5 DEF Gateway!StoreToken, Gateway!ScrubToken, Gateway!Continue, Gateway!gateway
  <2>2. loop'.starting = loop.starting /\ loop.at \in InStart
    BY <1>0, <2>1 DEF ALoop, InStart
  <2> QED BY <2>1, <2>2, LogStays
<1>6. CASE Gateway!StopBegins
  <2>1. /\ loop' = [loop EXCEPT !.at = "stopping"] /\ UNCHANGED <<bridge, log, pump>>
        /\ own' = own \/ own' = [own EXCEPT !.state = "dead"]
    BY <1>6 DEF Gateway!StopBegins
  <2>2. loop'.at = "stopping" /\ own'.key = own.key /\ (Gateway!Alive' => Gateway!Alive)
    BY <1>0, <2>1 DEF ALoop, AChild, Gateway!Alive
  <2> QED BY <2>1, <2>2 DEF LogKept, InStart
<1>7. CASE Gateway!StopEnds
  <2>1. /\ loop.at = "stopping" /\ pump' = Gateway!NoPump /\ log' = log
        /\ own' = IF Gateway!Alive THEN own ELSE Gateway!NoProcess
    BY <1>7 DEF Gateway!StopEnds
  <2>2. own' = Gateway!NoProcess
    BY <2>1 DEF GatewayInv, Gateway!OwnIsStopped
  <2> QED BY <1>b, <2>1, <2>2 DEF LogKept, Gateway!Alive
<1>8. CASE Gateway!Crash
  <2>1. pump' = Gateway!NoPump /\ log' = log /\ own' = Gateway!NoProcess
    BY <1>8 DEF Gateway!Crash
  <2> QED BY <1>b, <2>1 DEF LogKept, Gateway!Alive
<1>9. CASE Gateway!CacheExpires \/ \E probe \in BOOLEAN : Gateway!Status(probe)
  <2>1. UNCHANGED <<own, log, pump, loop>>
    BY <1>9 DEF Gateway!CacheExpires, Gateway!Status, Gateway!gateway
  <2>2. bridge'.up = bridge.up /\ bridge'.history = bridge.history
    BY <1>0, <1>9 DEF Gateway!CacheExpires, Gateway!Status, ABridge
  <2> QED BY <2>1, <2>2, LogStays
<1>10. CASE Gateway!Settings
  <2>1. UNCHANGED <<own, log, pump>>
    BY <1>10 DEF Gateway!Settings, Gateway!SaveSettings, Gateway!RollbackClears, Gateway!RollbackRestores, Gateway!gateway
  <2>2. bridge'.up = bridge.up /\ bridge'.history = bridge.history
    BY <1>0, <1>10 DEF Gateway!Settings, Gateway!SaveSettings, Gateway!RollbackClears, Gateway!RollbackRestores, ABridge
  <2>3. ~(loop'.starting /\ loop'.at \in InStart)
    BY <1>0, <1>10 DEF Gateway!Settings, Gateway!SaveSettings, Gateway!RollbackClears, Gateway!RollbackRestores, Gateway!Continue,
       ALoop, InStart
  <2> QED BY <2>1, <2>2, <2>3, LogStays
<1>11. CASE Gateway!Migration
  <2>1. CASE Gateway!Scrubbed
    <3>1. /\ loop.at = "scrub" /\ loop' = [loop EXCEPT !.at = "skills"]
          /\ log' = [log EXCEPT !.keys = Gateway!Sanitized] /\ pump' = [pump EXCEPT !.attached = Gateway!Attached]
          /\ bridge' = [bridge EXCEPT !.history = Gateway!Learned] /\ own' = own
      BY <2>1 DEF Gateway!Scrubbed, Gateway!Continue
    <3>2. log' = log
      BY <1>0, <1>a, <3>1 DEF LogKept, ALog
    <3>3. pump'.line = pump.line /\ bridge'.up = bridge.up /\ bridge'.history = Gateway!Known
      BY <1>0, <1>a, <3>1 DEF APump, ABridge
    <3>4. loop'.starting = loop.starting /\ loop.at \in InStart
      BY <1>0, <3>1 DEF ALoop, InStart
    <3> QED BY <1>a, <3>1, <3>2, <3>3, <3>4 DEF LogKept, Gateway!Alive
  <2>2. CASE Gateway!VaultFails \/ (Gateway!Vaulted /\ ~Gateway!MayScrub)
    <3>1. /\ loop.at = "vault" /\ loop' = [at |-> "free", starting |-> FALSE, parsed |-> <<>>]
          /\ bridge' = IF loop.starting THEN Gateway!Down ELSE bridge
          /\ UNCHANGED <<own, log, pump>>
      BY <2>2 DEF Gateway!Vaulted, Gateway!VaultFails, Gateway!Raises, Gateway!gateway
    <3>2. CASE loop.starting
      <4>1. ~Gateway!Alive /\ pump.line = None
        BY <3>1, <3>2 DEF GatewayInv, StartsAlone, LogKept, InStart
      <4> QED BY <3>1, <4>1 DEF LogKept, Gateway!Alive
    <3>3. CASE ~loop.starting
      BY <3>1, <3>3, LogStays
    <3> QED BY <3>2, <3>3
  <2>3. CASE ~Gateway!Scrubbed /\ ~(Gateway!VaultFails \/ (Gateway!Vaulted /\ ~Gateway!MayScrub))
    <3>1. UNCHANGED <<own, log, pump>>
      BY <1>11, <2>3 DEF Gateway!Migration, Gateway!UpdateConfig, Gateway!Parse, Gateway!Vaulted, Gateway!Scrub, Gateway!UserEdits,
         Gateway!gateway
    <3>2. bridge'.up = bridge.up /\ bridge'.history = bridge.history
      BY <1>0, <1>11, <2>3 DEF Gateway!Migration, Gateway!UpdateConfig, Gateway!Parse, Gateway!Vaulted, Gateway!Scrub, Gateway!UserEdits,
         ABridge
    <3>3. loop'.starting = loop.starting /\ (loop.at \in InStart \/ loop' = loop)
      BY <1>0, <1>11, <2>3 DEF Gateway!Migration, Gateway!UpdateConfig, Gateway!Parse, Gateway!Vaulted, Gateway!Scrub, Gateway!UserEdits,
         Gateway!Continue, ALoop, InStart
    <3> QED BY <3>1, <3>2, <3>3, LogStays
  <2> QED BY <2>1, <2>2, <2>3
<1> QED BY <1>1, <1>2, <1>3, <1>4, <1>5, <1>6, <1>7, <1>8, <1>9, <1>10, <1>11 DEF Gateway!Next, Gateway!Lifecycle
\* The instance counts as FiniteSets does.
LEMMA GatewayCardinality == ASSUME NEW S PROVE Gateway!Cardinality(S) = Cardinality(S)
BY DEF Gateway!Cardinality, Cardinality, Gateway!IsFiniteSet, IsFiniteSet

\* The credentials of parsed files are keys, and at most one of them is one key.
LEMMA OneCredential ==
    ASSUME loop.parsed \in [TokenFiles -> GKey]
    PROVE  /\ Gateway!Credentials \in SUBSET GatewayKeys
           /\ Gateway!MayScrub => Gateway!Credentials = {} \/ \E k : Gateway!Credentials = {k}
<1> DEFINE S == {loop.parsed[f] : f \in TokenFiles}
<1>1. Gateway!Credentials = S \ {None}
  BY DEF Gateway!Credentials
<1>2. loop.parsed \in Surjection(TokenFiles, S)
  BY DEF Surjection
<1>3. IsFiniteSet(S)
  BY <1>2, FilesAssumption, FS_Surjection
<1>4. IsFiniteSet(Gateway!Credentials)
  <2> HIDE DEF S
  <2> QED BY <1>1, <1>3, FS_Difference
<1>5. Gateway!MayScrub => Cardinality(Gateway!Credentials) = 0 \/ Cardinality(Gateway!Credentials) = 1
  <2>1. Gateway!MayScrub => Cardinality(Gateway!Credentials) <= 1
    BY GatewayCardinality DEF Gateway!MayScrub
  <2> QED BY <1>4, <2>1, FS_CardinalityType
<1>6. Gateway!Credentials \in SUBSET GatewayKeys
  BY <1>1 DEF GKey
<1> QED BY <1>4, <1>5, <1>6, FS_EmptySet, FS_Singleton

\* What the files have at first is what must be kept.
LEMMA MigrationStart ==
    ASSUME Gateway!Init PROVE KeysMigrated /\ (~FreshLog => LogKept)
<1>1. found = {files[f] : f \in TokenFiles} \ {None} /\ files \in [TokenFiles -> GKey]
  BY DEF Gateway!Init, GKey
<1>2. Gateway!CredentialsMigrated /\ found \in SUBSET GatewayKeys
  BY <1>1 DEF Gateway!CredentialsMigrated, GKey
<1> QED BY <1>2 DEF Gateway!Init, KeysMigrated, LogKept, Gateway!Alive, Gateway!NoProcess, Gateway!NoPump

\* A key leaves its file only after the vault has it.
LEMMA MigrationStep ==
    ASSUME GatewayInv, KeysMigrated, ~ReadFails, Gateway!Next PROVE KeysMigrated'
<1>0. /\ tokens \in AVault /\ files \in [TokenFiles -> GKey] /\ loop \in ALoop
      /\ loop.at \in {"vault", "scrub"} => loop.parsed \in [TokenFiles -> GKey]
  BY DEF GatewayInv, GatewayShape, Parsed
<1>1. CASE Gateway!Log \/ Gateway!Process
  <2>1. UNCHANGED <<files, found, tokens, loop>>
    BY <1>1 DEF Gateway!Log, Gateway!GatewayPrints, Gateway!PumpWrites, Gateway!PumpEnds, Gateway!Process,
       Gateway!GatewayListens, Gateway!GatewayDies, Gateway!OtherChanges, Gateway!store
  <2> QED BY <2>1, FilesStay
<1>2. ASSUME NEW c \in GatewayCalls, Gateway!Work(c) PROVE KeysMigrated'
  <2>1. UNCHANGED <<files, found, tokens, loop>>
    BY <1>2 DEF Gateway!Work, Gateway!Call, Gateway!Lock, Gateway!Probe, Gateway!Poll, Gateway!Ready, Gateway!Returns,
       Gateway!Cancelled, Gateway!store
  <2> QED BY <2>1, FilesStay
<1>3. CASE Gateway!Lifecycle
  <2>1. UNCHANGED <<files, found, tokens>>
    BY <1>3 DEF Gateway!Lifecycle, Gateway!Start, Gateway!StoreToken, Gateway!ScrubToken, Gateway!StopBegins,
       Gateway!StopEnds, Gateway!Crash, Gateway!CacheExpires, Gateway!Status, Gateway!store
  <2>2. CASE Gateway!Start \/ Gateway!Crash
    <3>1. loop'.at \notin {"vault", "scrub"}
      BY <2>2 DEF Gateway!Start, Gateway!Crash
    <3> QED BY <2>1, <3>1, FilesStay
  <2>3. CASE Gateway!StoreToken \/ Gateway!ScrubToken \/ Gateway!StopBegins \/ Gateway!StopEnds
    <3>1. \E at \in {"env", "policy", "stopping", "free"} : loop' = [loop EXCEPT !.at = at]
      BY <2>3 DEF Gateway!StoreToken, Gateway!ScrubToken, Gateway!StopBegins, Gateway!StopEnds, Gateway!Continue
    <3>2. loop'.at \notin {"vault", "scrub"}
      BY <1>0, <3>1 DEF ALoop
    <3> QED BY <2>1, <3>2, FilesStay
  <2>4. CASE Gateway!CacheExpires \/ \E probe \in BOOLEAN : Gateway!Status(probe)
    <3>1. loop' = loop
      BY <2>4 DEF Gateway!CacheExpires, Gateway!Status
    <3> QED BY <2>1, <3>1, FilesStay
  <2> QED BY <1>3, <2>2, <2>3, <2>4 DEF Gateway!Lifecycle
<1>4. CASE Gateway!Settings
  <2>1. UNCHANGED <<files, found>> /\ tokens'.own = tokens.own
    BY <1>0, <1>4 DEF Gateway!Settings, Gateway!SaveSettings, Gateway!RollbackClears, Gateway!RollbackRestores,
       Gateway!store, AVault
  <2>2. loop'.at \notin {"vault", "scrub"}
    BY <1>0, <1>4 DEF Gateway!Settings, Gateway!SaveSettings, Gateway!RollbackClears, Gateway!RollbackRestores,
       Gateway!Continue, ALoop
  <2> QED BY <2>1, <2>2, FilesStay
<1>5. CASE Gateway!UpdateConfig("policy", "parse") \/ Gateway!UpdateConfig("skills", "free")
  <2>1. UNCHANGED <<files, found, tokens>>
    BY <1>5 DEF Gateway!UpdateConfig
  <2>2. loop'.at \notin {"vault", "scrub"}
    BY <1>0, <1>5 DEF Gateway!UpdateConfig, Gateway!Continue, ALoop
  <2> QED BY <2>1, <2>2, FilesStay
<1>6. CASE Gateway!Parse
  <2>1. UNCHANGED <<files, found, tokens>> /\ loop'.at = "vault" /\ loop'.parsed = files
    BY <1>0, <1>6 DEF Gateway!Parse, Gateway!store, ALoop
  <2> QED BY <2>1 DEF KeysMigrated, Gateway!CredentialsMigrated
<1>7. CASE Gateway!Vaulted
  <2>1. loop.at = "vault" /\ loop.parsed = files /\ files' = files
    BY <1>7 DEF Gateway!Vaulted, KeysMigrated
  <2>2. CASE ~Gateway!MayScrub
    <3>1. UNCHANGED <<files, found, tokens>> /\ loop'.at = "free"
      BY <1>7, <2>2 DEF Gateway!Vaulted, Gateway!Raises
    <3> QED BY <3>1, FilesStay
  <2>3. CASE Gateway!MayScrub /\ Gateway!Credentials = {}
    <3>1. tokens' = [tokens EXCEPT !.own = tokens.own] /\ found' = found /\ loop' = [loop EXCEPT !.at = "scrub"]
      BY <1>7, <2>3 DEF Gateway!Vaulted, Gateway!Continue
    <3>2. tokens'.own = tokens.own /\ loop'.at = "scrub"
      BY <1>0, <3>1 DEF AVault, ALoop
    <3>3. \A f \in TokenFiles : files[f] = None
      BY <2>1, <2>3 DEF Gateway!Credentials
    <3>4. found \subseteq {tokens.own}
      BY <3>3, FilesAssumption DEF KeysMigrated, Gateway!CredentialsMigrated
    <3> QED BY <2>1, <3>1, <3>2, <3>4 DEF KeysMigrated, Gateway!CredentialsMigrated
  <2>4. CASE Gateway!MayScrub /\ Gateway!Credentials # {}
    <3>1. PICK k : Gateway!Credentials = {k}
      BY <1>0, <2>1, <2>4, OneCredential
    <3>2. (CHOOSE x \in Gateway!Credentials : TRUE) = k
      BY <3>1
    <3>3. tokens' = [tokens EXCEPT !.own = k] /\ found' = {k} /\ loop' = [loop EXCEPT !.at = "scrub"]
      BY <1>7, <2>4, <3>1, <3>2 DEF Gateway!Vaulted, Gateway!Continue
    <3>4. tokens'.own = k /\ loop'.at = "scrub"
      BY <1>0, <3>3 DEF AVault, ALoop
    <3>5. k \in GatewayKeys
      BY <1>0, <2>1, <3>1, OneCredential
    <3> QED BY <3>3, <3>4, <3>5 DEF KeysMigrated, Gateway!CredentialsMigrated
  <2> QED BY <2>2, <2>3, <2>4
<1>8. CASE Gateway!VaultFails
  <2>1. UNCHANGED <<files, found, tokens>> /\ loop'.at = "free"
    BY <1>8 DEF Gateway!VaultFails, Gateway!Raises, Gateway!store
  <2> QED BY <2>1, FilesStay
<1>9. CASE Gateway!Scrubbed
  <2>1. UNCHANGED <<files, found, tokens>> /\ loop'.at = "skills"
    BY <1>0, <1>9 DEF Gateway!Scrubbed, Gateway!Continue, Gateway!store, ALoop
  <2> QED BY <2>1, FilesStay
<1>10. ASSUME NEW f \in TokenFiles, Gateway!Scrub(f) PROVE KeysMigrated'
  <2>1. loop.at = "scrub" /\ UNCHANGED <<tokens, found>> /\ loop'.at = "scrub"
    BY <1>0, <1>10 DEF Gateway!Scrub, ALoop
  <2>2. found \subseteq {tokens.own}
    BY <2>1 DEF KeysMigrated
  <2> QED BY <2>1, <2>2 DEF KeysMigrated, Gateway!CredentialsMigrated
<1>11. ASSUME NEW f \in TokenFiles, NEW k \in GatewayKeys, Gateway!UserEdits(f, k) PROVE KeysMigrated'
  <2>1. /\ loop.at = "free" /\ loop' = loop /\ tokens' = tokens /\ files[f] = None
        /\ files' = [files EXCEPT ![f] = k] /\ found' = found \cup {k}
    BY <1>11 DEF Gateway!UserEdits
  <2>2. ASSUME NEW x \in found' PROVE tokens'.own = x \/ \E g \in TokenFiles : files'[g] = x
    <3>1. CASE x = k
      BY <1>0, <2>1, <3>1
    <3>2. CASE x # k
      <4>1. x \in found /\ x \in GatewayKeys
        BY <2>1, <2>2, <3>2 DEF KeysMigrated
      <4>2. CASE tokens.own = x
        BY <2>1, <4>2
      <4>3. CASE tokens.own # x
        <5>1. PICK g \in TokenFiles : files[g] = x
          BY <4>1, <4>3 DEF KeysMigrated, Gateway!CredentialsMigrated
        <5>2. g # f
          BY <2>1, <4>1, <5>1, FilesAssumption
        <5> QED BY <1>0, <2>1, <5>1, <5>2
      <4> QED BY <4>2, <4>3
    <3> QED BY <3>1, <3>2
  <2> QED BY <2>1, <2>2 DEF KeysMigrated, Gateway!CredentialsMigrated
<1> QED BY <1>1, <1>2, <1>3, <1>4, <1>5, <1>6, <1>7, <1>8, <1>9, <1>10, <1>11 DEF Gateway!Next, Gateway!Migration

-----------------------------------------------------------------------------
(***************************************************************************)
(* The task database.  A pass sets its marker in the transaction after the *)
(* one that cleaned the rows, and what is written in between is clean.     *)
(***************************************************************************)

AMarkers == [retired : {"", "pending", "completed"}, route : BOOLEAN, generic : BOOLEAN,
             exact : {"", "earlier", "now"}]
Steps == {"down", "made", "up", "retired", "verify", "complete", "routes", "routes-vacuum",
          "routes-mark", "generic", "generic-vacuum", "exact", "exact-vacuum", "write"}
AStore == [at : Steps, call : {"none", "initialize", "redactor", "save", "load"},
           bearers : BOOLEAN, values : SUBSET Tokens, checked : BOOLEAN]
\* What this program writes itself.
OwnPayloads == {p \in Database!Payloads : p \cap {"bearer", "route", "shape", "torn"} = {}}

DatabaseShape ==
    /\ rows \in [Rows -> Database!Payloads] /\ residue \in SUBSET Database!Plain
    /\ markers \in AMarkers /\ store \in AStore /\ configured \subseteq Tokens
    /\ prepared \in SUBSET (Rows \X OwnPayloads)

\* A bearer is only in rows that can be read.
BearersReadable == \A r \in Rows : "bearer" \in rows[r] => Database!Json(rows[r])

NoBearer == \A r \in Rows : "bearer" \notin rows[r]
NoRoute == \A r \in Rows : "route" \notin rows[r]
NoShape == \A r \in Rows : Database!Json(rows[r]) => "shape" \notin rows[r]

\* What the retirement has reached, as long as nobody wrote a bearer behind it.
Retirement ==
    /\ markers.retired = "completed" => NoBearer /\ (Readers \/ "bearer" \notin residue)
    /\ markers.retired = "pending" =>
          /\ store.at \in {"retired", "verify", "complete"} => NoBearer
          /\ store.at \in {"verify", "complete"} => Readers \/ "bearer" \notin residue
\* What the passes have reached, as long as nobody else writes.
Passes ==
    ~foreign =>
        /\ markers.route => NoRoute
        /\ markers.generic => NoShape
        /\ store.at \in {"routes-vacuum", "routes-mark", "generic", "generic-vacuum", "exact", "exact-vacuum", "write"} => NoRoute
        /\ store.at \in {"generic-vacuum", "exact", "exact-vacuum", "write"} => NoShape
DatabaseInv == DatabaseShape /\ BearersReadable /\ Retirement /\ Passes

-----------------------------------------------------------------------------
\* Encrypting a payload adds no bearer, no route and no shape.
LEMMA EncryptedPayload ==
    ASSUME NEW p \in Database!Payloads, configured \subseteq Tokens
    PROVE  LET q == Database!Encrypted(p)
           IN /\ q \in Database!Payloads /\ (Database!Json(q) <=> Database!Json(p))
              /\ "bearer" \in q => "bearer" \in p
              /\ "route" \notin q
              /\ "shape" \in q => "shape" \in p
BY DatabaseAssumption
   DEF Database!Encrypted, Database!Exact, Database!Payloads, Database!Plain, Database!Sealed, Database!Json

\* Redacting a payload takes marks away and adds none.
LEMMA RedactedPayload ==
    ASSUME NEW p \in Database!Payloads, NEW gone \in SUBSET (Tokens \cup {"shape"})
    PROVE  LET q == Database!Redacted(p, gone)
           IN /\ q \in Database!Payloads /\ (Database!Json(q) <=> Database!Json(p)) /\ q \subseteq p
              /\ Database!Json(q) /\ "shape" \in gone => "shape" \notin q
BY DatabaseAssumption DEF Database!Redacted, Database!Payloads, Database!Json

\* What the program writes of a readable payload is its own.
LEMMA SafePayload ==
    ASSUME NEW p \in Database!Payloads, Database!Json(p), configured \subseteq Tokens
    PROVE  Database!Safe(p) \in OwnPayloads /\ Database!Safe(p) \cup (p \cap Database!Sealed) \in OwnPayloads
BY DatabaseAssumption
   DEF Database!Safe, OwnPayloads, Database!Payloads, Database!Plain, Database!Sealed, Database!Json

\* What a rewrite leaves in the files was spelled out by a row it changed.
LEMMA RewriteLeaves ==
    ASSUME DatabaseShape, NEW new \in [Rows -> Database!Payloads], NEW marks, Database!Rewrite(new, marks)
    PROVE  /\ rows' = new /\ markers' = marks /\ residue' \in SUBSET Database!Plain
           /\ NoBearer /\ "bearer" \in residue' => "bearer" \in residue
<1> DEFINE left == UNION {rows[r] \ new[r] : r \in Rows}
<1>1. rows' = new /\ markers' = marks /\ residue' = residue \cup (left \cap Database!Plain)
  BY DEF Database!Rewrite
<1>2. NoBearer => "bearer" \notin left
  BY DEF NoBearer
<1> HIDE DEF left
<1> QED BY <1>1, <1>2 DEF DatabaseShape

\* Every step but those of the retirement itself and of another program.
LEMMA RetirementStays ==
    ASSUME DatabaseInv, rows' \in [Rows -> Database!Payloads], residue' \in SUBSET Database!Plain,
           markers' \in AMarkers, store' \in AStore, configured' \subseteq Tokens,
           prepared' \in SUBSET (Rows \X OwnPayloads),
           \A r \in Rows : "bearer" \in rows'[r] => "bearer" \in rows[r] /\ Database!Json(rows'[r]),
           NoBearer /\ "bearer" \in residue' => "bearer" \in residue,
           markers'.retired = markers.retired,
           store'.at \in {"retired", "verify", "complete"} => store'.at = store.at
    PROVE  DatabaseShape' /\ BearersReadable' /\ Retirement'
<1>1. DatabaseShape' /\ BearersReadable'
  BY DEF DatabaseShape, BearersReadable
<1>2. NoBearer => NoBearer'
  BY DEF NoBearer
<1>3. Retirement'
  BY <1>2 DEF DatabaseInv, Retirement
<1> QED BY <1>1, <1>3

\* The database invariant for every database an older version may have left.
LEMMA DatabaseStart == Database!Init => DatabaseInv
<1> SUFFICES ASSUME Database!Init PROVE DatabaseInv
  OBVIOUS
<1>1. \A r \in Rows : rows[r] \in Database!Payloads /\ ("bearer" \in rows[r] => Database!Json(rows[r]))
  <2> SUFFICES ASSUME NEW r \in Rows
               PROVE  rows[r] \in Database!Payloads /\ ("bearer" \in rows[r] => Database!Json(rows[r]))
    OBVIOUS
  <2>1. rows[r] \in {{}, {"bearer", "shape"}, {"route", "shape"}, {"route", "bearer"} \cup Tokens,
                     {"torn", "shape"}, {"torn", "route"}, {"sealed"}, {"alien"}}
    BY DEF Database!Init
  <2> QED BY <2>1, DatabaseAssumption DEF Database!Payloads, Database!Plain, Database!Sealed, Database!Json
<1>2. rows \in [Rows -> Database!Payloads]
  BY <1>1 DEF Database!Init
<1>3. residue \in SUBSET Database!Plain /\ markers \in AMarkers
  BY DEF Database!Init, Database!Plain, AMarkers
<1>4. store \in AStore /\ store.at = "down" /\ configured \subseteq Tokens /\ prepared = {}
  BY DEF Database!Init, Database!Off, AStore, Steps
<1>5. Retirement /\ Passes
  BY <1>4 DEF Database!Init, Retirement, Passes
<1> QED BY <1>1, <1>2, <1>3, <1>4, <1>5 DEF DatabaseInv, DatabaseShape, BearersReadable

-----------------------------------------------------------------------------
\* The retirement of the bearers, its VACUUM and its verification.
LEMMA RetirementStep ==
    ASSUME DatabaseInv,
           Database!Start \/ Database!RetiredVacuum \/ Database!Verify \/ Database!Complete
    PROVE  DatabaseInv'
<1>0. /\ rows \in [Rows -> Database!Payloads] /\ residue \in SUBSET Database!Plain
      /\ markers \in AMarkers /\ store \in AStore /\ configured \subseteq Tokens
      /\ prepared \in SUBSET (Rows \X OwnPayloads) /\ BearersReadable /\ Retirement /\ Passes
  BY DEF DatabaseInv, DatabaseShape
<1>a. Database!Off \in AStore /\ Database!Off.at = "down"
  BY DEF Database!Off, AStore, Steps
<1>1. CASE Database!Start
  <2>0. UNCHANGED <<prepared, configured, foreign>> /\ store.at = "down"
    BY <1>1 DEF Database!Start, Database!Same
  <2>1. CASE markers.retired = "completed"
    <3>1. store' = [Database!Off EXCEPT !.at = "routes", !.call = "initialize"] /\ UNCHANGED <<rows, residue, markers>>
      BY <1>1, <2>1 DEF Database!Start, Database!disk
    <3>2. store' \in AStore /\ store'.at = "routes"
      BY <1>a, <3>1 DEF AStore, Steps
    <3>3. DatabaseShape' /\ BearersReadable' /\ Retirement'
      BY <1>0, <2>0, <3>1, <3>2, RetirementStays DEF BearersReadable
    <3>4. Passes'
      BY <1>0, <2>0, <3>1, <3>2 DEF Passes, NoRoute, NoShape
    <3> QED BY <3>3, <3>4 DEF DatabaseInv
  <2>2. CASE markers.retired # "completed"
    <3> DEFINE new == [r \in Rows |-> Database!Retire(rows[r])]
               before == IF new = rows THEN markers ELSE Database!Touched(markers)
               marks == [before EXCEPT !.retired = "pending"]
               changed == new # rows
    <3>1. /\ Database!Rewrite(new, marks)
          /\ store' = [Database!Off EXCEPT !.at = "retired", !.call = "initialize", !.bearers = changed]
      BY <1>1, <2>2 DEF Database!Start
    <3>2. \A r \in Rows : /\ new[r] \in Database!Payloads /\ new[r] \subseteq rows[r] /\ "bearer" \notin new[r]
                          /\ Database!Json(new[r]) <=> Database!Json(rows[r])
      BY <1>0 DEF Database!Retire, BearersReadable, Database!Payloads, Database!Json
    <3>3. new \in [Rows -> Database!Payloads] /\ changed \in BOOLEAN
      BY <3>2
    <3>4. /\ marks \in AMarkers /\ marks.retired = "pending"
          /\ marks.route => markers.route
          /\ marks.generic => markers.generic
      BY <1>0 DEF AMarkers, Database!Touched
    <3> HIDE DEF new, marks, changed
    <3>5. store' \in AStore /\ store'.at = "retired"
      BY <1>a, <3>1, <3>3 DEF AStore, Steps
    <3>6. rows' = new /\ markers' = marks /\ residue' \in SUBSET Database!Plain
      BY <3>1, <3>3, RewriteLeaves DEF DatabaseInv
    <3>7. DatabaseShape' /\ BearersReadable'
      BY <1>0, <2>0, <3>2, <3>3, <3>4, <3>5, <3>6 DEF DatabaseShape, BearersReadable
    <3>8. NoBearer' /\ Retirement'
      BY <3>2, <3>4, <3>5, <3>6 DEF NoBearer, Retirement
    <3>9. (NoRoute => NoRoute') /\ (NoShape => NoShape')
      BY <3>2, <3>6 DEF NoRoute, NoShape
    <3>10. Passes'
      BY <1>0, <2>0, <3>4, <3>5, <3>6, <3>9 DEF Passes
    <3> QED BY <3>7, <3>8, <3>10 DEF DatabaseInv
  <2> QED BY <2>1, <2>2
<1>2. CASE Database!RetiredVacuum
  <2>1. /\ store.at = "retired" /\ store' = [store EXCEPT !.at = "verify"]
        /\ UNCHANGED <<rows, markers, prepared, configured, foreign>>
        /\ residue' = {} \/ (Readers /\ residue' = residue)
    BY <1>2 DEF Database!RetiredVacuum, Database!Compacted, Database!At, Database!Same
  <2>2. store' \in AStore /\ store'.at = "verify"
    BY <1>0, <2>1 DEF AStore, Steps
  <2>3. DatabaseShape' /\ BearersReadable'
    BY <1>0, <2>1, <2>2 DEF DatabaseShape, BearersReadable
  <2>4. Retirement' /\ Passes'
    BY <1>0, <2>1, <2>2 DEF Retirement, Passes, NoBearer, NoRoute, NoShape
  <2> QED BY <2>3, <2>4 DEF DatabaseInv
<1>3. CASE Database!Verify
  <2>1. store.at = "verify" /\ UNCHANGED <<rows, residue, markers, configured, foreign>>
    BY <1>3 DEF Database!Verify, Database!Raises, Database!At, Database!disk, Database!Same
  <2>2. /\ store' = Database!Off \/ store' = [store EXCEPT !.at = "complete"]
           \/ store' = [store EXCEPT !.at = "up", !.call = "none"]
        /\ prepared' = prepared \/ prepared' = {}
    BY <1>3 DEF Database!Verify, Database!Raises, Database!At
  <2>3. store' \in AStore /\ store'.at \in {"down", "complete", "up"}
    BY <1>0, <1>a, <2>2 DEF AStore, Steps
  <2>4. DatabaseShape' /\ BearersReadable'
    BY <1>0, <2>1, <2>2, <2>3 DEF DatabaseShape, BearersReadable
  <2>5. Retirement' /\ Passes'
    BY <1>0, <2>1, <2>3 DEF Retirement, Passes, NoBearer, NoRoute, NoShape
  <2> QED BY <2>4, <2>5 DEF DatabaseInv
<1>4. CASE Database!Complete
  <2>1. /\ store.at = "complete" /\ store' = [store EXCEPT !.at = "routes"]
        /\ markers' = [markers EXCEPT !.retired = Database!Completion]
        /\ UNCHANGED <<rows, residue, prepared, configured, foreign>>
    BY <1>4 DEF Database!Complete, Database!At, Database!Same
  <2>2. store' \in AStore /\ store'.at = "routes"
    BY <1>0, <2>1 DEF AStore, Steps
  <2>3. /\ Database!Completion \in {"", "completed"}
        /\ Database!Completion = "completed" => markers.retired \in {"pending", "completed"}
    BY <1>0 DEF Database!Completion, AMarkers
  <2>4. /\ markers' \in AMarkers /\ markers'.retired = Database!Completion
        /\ markers'.route = markers.route /\ markers'.generic = markers.generic
    BY <1>0, <2>1, <2>3 DEF AMarkers
  <2>5. DatabaseShape' /\ BearersReadable'
    BY <1>0, <2>1, <2>2, <2>4 DEF DatabaseShape, BearersReadable
  <2>6. Retirement' /\ Passes'
    BY <1>0, <2>1, <2>2, <2>3, <2>4 DEF Retirement, Passes, NoBearer, NoRoute, NoShape
  <2> QED BY <2>5, <2>6 DEF DatabaseInv
<1> QED BY <1>1, <1>2, <1>3, <1>4

-----------------------------------------------------------------------------
\* A step of the passes that writes no row: only the place, what is prepared and
\* the marker of a pass that is over.
LEMMA PassMoves ==
    ASSUME DatabaseInv, UNCHANGED <<rows, configured, foreign>>, markers' \in AMarkers,
           residue' = residue \/ residue' = {},
           markers'.retired = markers.retired, markers'.generic = markers.generic,
           markers'.route => markers.route \/ NoRoute \/ foreign,
           store' \in AStore, prepared' \in SUBSET (Rows \X OwnPayloads),
           store'.at \notin {"retired", "verify", "complete"},
           store'.at \in {"routes-vacuum", "routes-mark", "generic", "generic-vacuum", "exact", "exact-vacuum", "write"}
               => markers.route \/ NoRoute \/ foreign,
           store'.at \in {"generic-vacuum", "exact", "exact-vacuum", "write"} => markers.generic \/ NoShape \/ foreign
    PROVE  DatabaseInv'
<1>0. /\ rows \in [Rows -> Database!Payloads] /\ residue \in SUBSET Database!Plain
      /\ markers \in AMarkers /\ store \in AStore /\ configured \subseteq Tokens
      /\ BearersReadable /\ Retirement /\ Passes
  BY DEF DatabaseInv, DatabaseShape
<1>1. DatabaseShape' /\ BearersReadable' /\ Retirement'
  BY <1>0, RetirementStays DEF BearersReadable
<1>2. Passes'
  BY <1>0 DEF Passes, NoRoute, NoShape
<1> QED BY <1>1, <1>2 DEF DatabaseInv

\* A step of the passes that writes rows and takes plaintext away.
LEMMA PassWrites ==
    ASSUME DatabaseInv, NEW new \in [Rows -> Database!Payloads], NEW marks \in AMarkers, Database!Rewrite(new, marks),
           \A r \in Rows : /\ "bearer" \in new[r] => "bearer" \in rows[r]
                           /\ Database!Json(new[r]) <=> Database!Json(rows[r])
                           /\ "route" \in new[r] => "route" \in rows[r]
                           /\ "shape" \in new[r] => "shape" \in rows[r],
           UNCHANGED <<prepared, configured, foreign>>,
           marks.retired = markers.retired,
           store' \in AStore, store'.at \notin {"retired", "verify", "complete"},
           marks.route \/ store'.at \in {"routes-vacuum", "routes-mark", "generic", "generic-vacuum", "exact", "exact-vacuum", "write"}
               => markers.route \/ NoRoute \/ foreign \/ \A r \in Rows : "route" \notin new[r],
           marks.generic \/ store'.at \in {"generic-vacuum", "exact", "exact-vacuum", "write"}
               => markers.generic \/ NoShape \/ foreign \/ \A r \in Rows : Database!Json(new[r]) => "shape" \notin new[r]
    PROVE  DatabaseInv'
<1>0. /\ rows \in [Rows -> Database!Payloads] /\ residue \in SUBSET Database!Plain
      /\ markers \in AMarkers /\ store \in AStore /\ configured \subseteq Tokens
      /\ prepared \in SUBSET (Rows \X OwnPayloads)
      /\ BearersReadable /\ Retirement /\ Passes
  BY DEF DatabaseInv, DatabaseShape
<1>1. /\ rows' = new /\ markers' = marks /\ residue' \in SUBSET Database!Plain
      /\ NoBearer /\ "bearer" \in residue' => "bearer" \in residue
  <2>1. DatabaseShape
    BY DEF DatabaseInv
  <2> QED BY ONLY <2>1, RewriteLeaves, new \in [Rows -> Database!Payloads], Database!Rewrite(new, marks)
<1>2. \A r \in Rows : "bearer" \in rows'[r] => "bearer" \in rows[r] /\ Database!Json(rows'[r])
  BY <1>0, <1>1 DEF BearersReadable
<1>3. DatabaseShape' /\ BearersReadable' /\ Retirement'
  <2>1. /\ rows' \in [Rows -> Database!Payloads] /\ markers' \in AMarkers /\ configured' \subseteq Tokens
        /\ prepared' \in SUBSET (Rows \X OwnPayloads) /\ markers'.retired = markers.retired
    BY <1>0, <1>1
  <2> QED BY <1>1, <1>2, <2>1, RetirementStays
<1>4. (NoRoute => NoRoute') /\ (NoShape => NoShape')
  BY <1>1 DEF NoRoute, NoShape
<1>5. Passes'
  BY <1>0, <1>1, <1>4 DEF Passes, NoRoute, NoShape
<1> QED BY <1>3, <1>5 DEF DatabaseInv

\* The encryption of the routes and its marker.
LEMMA RoutesStep ==
    ASSUME DatabaseInv, Database!Routes \/ Database!RoutesVacuum \/ Database!RoutesMark
    PROVE  DatabaseInv'
<1>0. /\ rows \in [Rows -> Database!Payloads] /\ residue \in SUBSET Database!Plain
      /\ markers \in AMarkers /\ store \in AStore /\ configured \subseteq Tokens
      /\ prepared \in SUBSET (Rows \X OwnPayloads) /\ Passes
  BY DEF DatabaseInv, DatabaseShape
<1>a. Database!Off \in AStore /\ Database!Off.at = "down"
  BY DEF Database!Off, AStore, Steps
<1> DEFINE up == [store EXCEPT !.at = "up", !.call = "none"]
<1>b. up \in AStore /\ up.at = "up"
  BY <1>0 DEF AStore, Steps
<1>c. Database!AfterRoutes \in {"made", "generic"}
  BY DEF Database!AfterRoutes
<1>d. \A at \in {"made", "generic", "routes-mark", "routes-vacuum"} :
          [store EXCEPT !.at = at] \in AStore /\ [store EXCEPT !.at = at].at = at
  BY <1>0 DEF AStore, Steps
<1> HIDE DEF up
<1>1. CASE Database!Routes
  <2>0. store.at = "routes" /\ UNCHANGED <<configured, foreign>>
    BY <1>1 DEF Database!Routes, Database!Same
  <2>1. CASE markers.route /\ Database!At(Database!AfterRoutes) /\ UNCHANGED <<prepared, rows, residue, markers>>
    BY <1>0, <1>c, <1>d, <2>0, <2>1, PassMoves DEF Database!At
  <2>2. CASE Database!Raises
    <3>1. UNCHANGED <<rows, residue, markers>> /\ store' \in {Database!Off, up} /\ prepared' \in {prepared, {}}
      BY <2>2 DEF Database!Raises, Database!disk, up
    <3> QED BY <1>0, <1>a, <1>b, <2>0, <3>1, PassMoves
  <2>3. ASSUME UNCHANGED prepared,
               LET new == [r \in Rows |-> Database!Encrypted(rows[r])]
               IN IF new = rows THEN Database!At("routes-mark") /\ UNCHANGED <<rows, residue, markers>>
                  ELSE Database!At("routes-vacuum") /\ Database!Rewrite(new, Database!Touched(markers))
        PROVE  DatabaseInv'
    <3> DEFINE new == [r \in Rows |-> Database!Encrypted(rows[r])]
               marks == Database!Touched(markers)
    <3>1. ASSUME NEW r \in Rows
          PROVE  /\ new[r] \in Database!Payloads
                 /\ "bearer" \in new[r] => "bearer" \in rows[r]
                 /\ Database!Json(new[r]) <=> Database!Json(rows[r])
                 /\ "route" \notin new[r]
                 /\ "shape" \in new[r] => "shape" \in rows[r]
      <4>1. rows[r] \in Database!Payloads /\ new[r] = Database!Encrypted(rows[r])
        BY <1>0
      <4> HIDE DEF new
      <4> QED BY <1>0, <4>1, EncryptedPayload
    <3>a. new \in [Rows -> Database!Payloads]
      BY <3>1
    <3>2. marks \in AMarkers /\ marks.retired = markers.retired /\ ~marks.generic
      BY <1>0 DEF Database!Touched, AMarkers
    <3>3. \/ new = rows /\ Database!At("routes-mark") /\ UNCHANGED <<rows, residue, markers>>
          \/ new # rows /\ Database!At("routes-vacuum") /\ Database!Rewrite(new, marks)
      BY <2>3
    <3> HIDE DEF new, marks
    <3>4. CASE new = rows /\ Database!At("routes-mark") /\ UNCHANGED <<rows, residue, markers>>
      <4>1. NoRoute
        BY <3>1, <3>4 DEF NoRoute
      <4> QED BY <1>0, <1>d, <2>0, <2>3, <3>4, <4>1, PassMoves DEF Database!At
    <3>5. CASE Database!At("routes-vacuum") /\ Database!Rewrite(new, marks)
      BY <1>0, <1>d, <2>0, <2>3, <3>1, <3>a, <3>2, <3>5, PassWrites DEF Database!At
    <3> QED BY <3>3, <3>4, <3>5
  <2> QED BY <1>1, <2>1, <2>2, <2>3 DEF Database!Routes, Database!disk
<1>2. CASE Database!RoutesVacuum
  <2>1. /\ store.at = "routes-vacuum" /\ UNCHANGED <<rows, markers, configured, foreign>>
        /\ residue' = {} \/ residue' = residue
        /\ store' \in {Database!Off, up, [store EXCEPT !.at = "routes-mark"]} /\ prepared' \in {prepared, {}}
    BY <1>2 DEF Database!RoutesVacuum, Database!Compacted, Database!At, Database!Same, up
  <2>2. NoRoute \/ foreign
    BY <1>0, <2>1 DEF Passes
  <2> QED BY <1>0, <1>a, <1>b, <1>d, <2>1, <2>2, PassMoves
<1>3. CASE Database!RoutesMark
  <2>1. /\ store.at = "routes-mark" /\ UNCHANGED <<rows, residue, prepared, configured, foreign>>
        /\ markers' = [markers EXCEPT !.route = TRUE] /\ store' = [store EXCEPT !.at = Database!AfterRoutes]
    BY <1>3 DEF Database!RoutesMark, Database!At, Database!Same
  <2>2. NoRoute \/ foreign
    BY <1>0, <2>1 DEF Passes
  <2>3. markers' \in AMarkers /\ markers'.retired = markers.retired /\ markers'.generic = markers.generic
    BY <1>0, <2>1 DEF AMarkers
  <2> QED BY <1>0, <1>c, <1>d, <2>1, <2>2, <2>3, PassMoves
<1> QED BY <1>1, <1>2, <1>3

\* The generic and the exact redaction with their markers.
LEMMA RedactionStep ==
    ASSUME DatabaseInv,
           Database!Generic \/ Database!GenericVacuum \/ Database!ExactPass \/ Database!ExactVacuum
    PROVE  DatabaseInv'
<1>0. /\ rows \in [Rows -> Database!Payloads] /\ residue \in SUBSET Database!Plain
      /\ markers \in AMarkers /\ store \in AStore /\ configured \subseteq Tokens
      /\ prepared \in SUBSET (Rows \X OwnPayloads) /\ Passes
  BY DEF DatabaseInv, DatabaseShape
<1>c. Database!AfterExact \in {"write", "up"}
  BY DEF Database!AfterExact
<1>d. \A at \in {"exact", "generic-vacuum", "exact-vacuum", "write", "up"} :
          [store EXCEPT !.at = at] \in AStore /\ [store EXCEPT !.at = at].at = at
  BY <1>0 DEF AStore, Steps
<1>1. CASE Database!Generic
  <2>0. store.at = "generic" /\ UNCHANGED <<prepared, configured, foreign>> /\ (NoRoute \/ foreign)
    BY <1>0, <1>1 DEF Database!Generic, Database!Same, Passes
  <2>1. CASE markers.generic
    <3>1. Database!At("exact") /\ UNCHANGED <<rows, residue, markers>>
      BY <1>1, <2>1 DEF Database!Generic, Database!disk
    <3> QED BY <1>0, <1>d, <2>0, <2>1, <3>1, PassMoves DEF Database!At
  <2>2. CASE ~markers.generic
    <3> DEFINE new == [r \in Rows |-> Database!Redacted(rows[r], {"shape"})]
               exact == IF new = rows THEN markers.exact ELSE ""
               marks == [markers EXCEPT !.generic = TRUE, !.route = TRUE, !.exact = exact]
               at == IF new = rows THEN "exact" ELSE "generic-vacuum"
    <3>1. Database!Rewrite(new, marks) /\ store' = [store EXCEPT !.at = at]
      BY <1>1, <2>2 DEF Database!Generic, Database!At
    <3>2. ASSUME NEW r \in Rows
          PROVE  /\ new[r] \in Database!Payloads /\ new[r] \subseteq rows[r]
                 /\ Database!Json(new[r]) <=> Database!Json(rows[r])
                 /\ Database!Json(new[r]) => "shape" \notin new[r]
      <4>1. rows[r] \in Database!Payloads /\ new[r] = Database!Redacted(rows[r], {"shape"})
        BY <1>0
      <4> HIDE DEF new
      <4> QED BY <4>1, RedactedPayload
    <3>3. new \in [Rows -> Database!Payloads]
      BY <3>2
    <3>4. marks \in AMarkers /\ marks.retired = markers.retired
      BY <1>0 DEF AMarkers
    <3>5. at \in {"exact", "generic-vacuum"}
      OBVIOUS
    <3> HIDE DEF new, marks, at
    <3> QED BY <1>d, <2>0, <3>1, <3>2, <3>3, <3>4, <3>5, PassWrites
  <2> QED BY <2>1, <2>2
<1>2. CASE Database!GenericVacuum
  <2>1. /\ store.at = "generic-vacuum" /\ UNCHANGED <<rows, markers, prepared, configured, foreign>>
        /\ residue' = {} \/ residue' = residue
        /\ store' = [store EXCEPT !.at = "exact"]
    BY <1>2 DEF Database!GenericVacuum, Database!Compacted, Database!At, Database!Same
  <2>2. (NoRoute /\ NoShape) \/ foreign
    BY <1>0, <2>1 DEF Passes
  <2> QED BY <1>0, <1>d, <2>1, <2>2, PassMoves
<1>3. CASE Database!ExactPass
  <2>0. /\ store.at = "exact" /\ UNCHANGED <<prepared, configured, foreign>>
        /\ (NoRoute /\ NoShape) \/ foreign
    BY <1>0, <1>3 DEF Database!ExactPass, Database!Same, Passes
  <2>1. CASE markers.exact = "now" /\ store.checked /\ store.values = configured
    <3>1. Database!At(Database!AfterExact) /\ UNCHANGED <<rows, residue, markers>>
      BY <1>3, <2>1 DEF Database!ExactPass, Database!disk
    <3> QED BY <1>0, <1>c, <1>d, <2>0, <3>1, PassMoves DEF Database!At
  <2>2. CASE ~(markers.exact = "now" /\ store.checked /\ store.values = configured)
    <3> DEFINE new == [r \in Rows |-> IF rows[r] \cap configured = {} THEN rows[r]
                                      ELSE Database!Redacted(rows[r], configured \cup {"shape"})]
               generic == markers.generic /\ new = rows
               marks == [markers EXCEPT !.exact = "now", !.route = TRUE, !.generic = generic]
               at == IF new = rows THEN Database!AfterExact ELSE "exact-vacuum"
    <3>1. /\ Database!Rewrite(new, marks)
          /\ store' = [store EXCEPT !.values = configured, !.checked = TRUE, !.at = at]
      BY <1>3, <2>2 DEF Database!ExactPass
    <3>2. ASSUME NEW r \in Rows
          PROVE  /\ new[r] \in Database!Payloads /\ new[r] \subseteq rows[r]
                 /\ Database!Json(new[r]) <=> Database!Json(rows[r])
      <4>1. rows[r] \in Database!Payloads
        BY <1>0
      <4>2. new[r] = rows[r] \/ new[r] = Database!Redacted(rows[r], configured \cup {"shape"})
        OBVIOUS
      <4> HIDE DEF new
      <4> QED BY <1>0, <4>1, <4>2, RedactedPayload
    <3>3. new \in [Rows -> Database!Payloads]
      BY <3>2
    <3>4. marks \in AMarkers /\ marks.retired = markers.retired
      BY <1>0 DEF AMarkers
    <3>5. at \in {"write", "up", "exact-vacuum"}
      BY <1>c
    <3> HIDE DEF new, marks, at, generic
    <3>6. store' \in AStore /\ store'.at = at
      BY <1>0, <3>1, <3>5 DEF AStore, Steps
    <3> QED BY <2>0, <3>1, <3>2, <3>3, <3>4, <3>5, <3>6, PassWrites
  <2> QED BY <2>1, <2>2
<1>4. CASE Database!ExactVacuum
  <2>1. /\ store.at = "exact-vacuum" /\ UNCHANGED <<rows, markers, prepared, configured, foreign>>
        /\ residue' = {} \/ residue' = residue
        /\ store' = [store EXCEPT !.at = Database!AfterExact]
    BY <1>4 DEF Database!ExactVacuum, Database!Compacted, Database!At, Database!Same
  <2>2. (NoRoute /\ NoShape) \/ foreign
    BY <1>0, <2>1 DEF Passes
  <2> QED BY <1>0, <1>c, <1>d, <2>1, <2>2, PassMoves
<1> QED BY <1>1, <1>2, <1>3, <1>4

\* Write and Load: what is written is this program's own payload or what was there.
LEMMA OwnWrites ==
    ASSUME DatabaseInv, store.at = "write", NEW new \in [Rows -> Database!Payloads],
           \A r \in Rows : new[r] \in OwnPayloads \/ new[r] = rows[r],
           Database!Rewrite(new, Database!Restored(markers)),
           store' = [store EXCEPT !.at = "up", !.call = "none"], prepared' \in {prepared, {}},
           UNCHANGED <<configured, foreign>>
    PROVE  DatabaseInv'
<1>0. /\ rows \in [Rows -> Database!Payloads] /\ residue \in SUBSET Database!Plain
      /\ markers \in AMarkers /\ store \in AStore /\ configured \subseteq Tokens
      /\ prepared \in SUBSET (Rows \X OwnPayloads)
      /\ BearersReadable /\ Retirement /\ Passes /\ DatabaseShape
  BY DEF DatabaseInv, DatabaseShape
<1> DEFINE marks == Database!Restored(markers)
<1>1. /\ marks \in AMarkers /\ marks.retired = markers.retired
  BY <1>0 DEF Database!Restored, AMarkers
<1> HIDE DEF marks
<1>2. /\ rows' = new /\ markers' = marks /\ residue' \in SUBSET Database!Plain
      /\ NoBearer /\ "bearer" \in residue' => "bearer" \in residue
  BY <1>0, RewriteLeaves DEF marks
<1>3. store' \in AStore /\ store'.at = "up"
  BY <1>0 DEF AStore, Steps
<1>4. \A r \in Rows : /\ "bearer" \in new[r] => "bearer" \in rows[r] /\ Database!Json(new[r])
                      /\ NoRoute => "route" \notin new[r]
                      /\ NoShape /\ Database!Json(new[r]) => "shape" \notin new[r]
  BY <1>0 DEF OwnPayloads, BearersReadable, NoRoute, NoShape
<1>5. DatabaseShape' /\ BearersReadable' /\ Retirement'
  BY <1>0, <1>1, <1>2, <1>3, <1>4, RetirementStays
<1>6. ~foreign => NoRoute /\ NoShape
  BY <1>0 DEF Passes
<1>7. Passes'
  BY <1>2, <1>3, <1>4, <1>6 DEF Passes, NoRoute, NoShape
<1> QED BY <1>5, <1>7 DEF DatabaseInv

\* The calls of the running program: a save, a load, a new redactor.
LEMMA StoreCallStep ==
    ASSUME DatabaseInv,
           \/ Database!SetRedactor \/ Database!Write \/ Database!Crash
           \/ \E what \in {"save", "load"} : Database!Call(what)
           \/ \E active \in SUBSET Rows : Database!Load(active)
           \/ \E k \in Tokens : Database!Configure(k)
           \/ \E r \in Rows, p \in {{"route"}, {"shape"} \cup Tokens} : Database!Prepare(r, p)
    PROVE  DatabaseInv'
<1>0. /\ rows \in [Rows -> Database!Payloads] /\ residue \in SUBSET Database!Plain
      /\ markers \in AMarkers /\ store \in AStore /\ configured \subseteq Tokens
      /\ prepared \in SUBSET (Rows \X OwnPayloads)
      /\ BearersReadable /\ Retirement /\ Passes
  BY DEF DatabaseInv, DatabaseShape
<1>1. CASE Database!SetRedactor
  <2>1. /\ store' = [store EXCEPT !.at = "routes", !.call = "redactor", !.values = {}, !.checked = FALSE]
        /\ UNCHANGED <<rows, residue, markers, prepared, configured, foreign>>
    BY <1>1 DEF Database!SetRedactor, Database!disk, Database!Same
  <2>2. store' \in AStore /\ store'.at = "routes"
    BY <1>0, <2>1 DEF AStore, Steps
  <2> QED BY <1>0, <2>1, <2>2, PassMoves
<1>2. CASE Database!Write
  <2>1. PICK w \in prepared : Database!Rewrite([rows EXCEPT ![w[1]] = w[2]], Database!Restored(markers))
    BY <1>2 DEF Database!Write
  <2> DEFINE new == [rows EXCEPT ![w[1]] = w[2]]
  <2>2. w[1] \in Rows /\ w[2] \in OwnPayloads /\ OwnPayloads \subseteq Database!Payloads
    BY <1>0 DEF OwnPayloads
  <2>3. new \in [Rows -> Database!Payloads] /\ \A r \in Rows : new[r] \in OwnPayloads \/ new[r] = rows[r]
    BY <1>0, <2>2
  <2> HIDE DEF new
  <2>4. /\ store.at = "write" /\ store' = [store EXCEPT !.at = "up", !.call = "none"] /\ prepared' = {}
        /\ UNCHANGED <<configured, foreign>>
    BY <1>2 DEF Database!Write, Database!Same
  <2>5. Database!Rewrite(new, Database!Restored(markers))
    BY <2>1 DEF new
  <2> QED BY <2>3, <2>4, <2>5, OwnWrites
<1>3. ASSUME NEW active \in SUBSET Rows, Database!Load(active) PROVE DatabaseInv'
  <2> DEFINE Readable(p) == Database!Json(p) /\ p \cap {"route", "alien"} = {}
             new == [r \in Rows |-> IF r \in active /\ Readable(rows[r])
                                    THEN Database!Safe(rows[r]) \cup (rows[r] \cap Database!Sealed)
                                    ELSE rows[r]]
  <2>1. /\ store.at = "write" /\ store' = [store EXCEPT !.at = "up", !.call = "none"]
        /\ UNCHANGED <<prepared, configured, foreign>>
    BY <1>3 DEF Database!Load, Database!Same
  <2>2. Database!Rewrite(new, Database!Restored(markers))
    BY <1>3 DEF Database!Load
  <2>3. ASSUME NEW r \in Rows PROVE (new[r] \in OwnPayloads \/ new[r] = rows[r]) /\ new[r] \in Database!Payloads
    <3>1. rows[r] \in Database!Payloads /\ OwnPayloads \subseteq Database!Payloads
      BY <1>0 DEF OwnPayloads
    <3>2. \/ new[r] = rows[r]
          \/ Database!Json(rows[r]) /\ new[r] = Database!Safe(rows[r]) \cup (rows[r] \cap Database!Sealed)
      OBVIOUS
    <3> HIDE DEF new
    <3> QED BY <1>0, <3>1, <3>2, SafePayload
  <2>4. new \in [Rows -> Database!Payloads]
    BY <2>3
  <2> HIDE DEF new
  <2> QED BY <2>1, <2>2, <2>3, <2>4, OwnWrites
<1>4. ASSUME NEW what \in {"save", "load"}, Database!Call(what) PROVE DatabaseInv'
  <2>1. /\ store' = [store EXCEPT !.at = "routes", !.call = what]
        /\ UNCHANGED <<rows, residue, markers, prepared, configured, foreign>>
    BY <1>4 DEF Database!Call, Database!disk, Database!Same
  <2>2. store' \in AStore /\ store'.at = "routes"
    BY <1>0, <2>1 DEF AStore, Steps
  <2> QED BY <1>0, <2>1, <2>2, PassMoves
<1>5. ASSUME NEW k \in Tokens, Database!Configure(k) PROVE DatabaseInv'
  <2>1. configured' = configured \cup {k} /\ UNCHANGED <<rows, residue, markers, store, prepared, foreign>>
    BY <1>5 DEF Database!Configure, Database!disk
  <2>2. DatabaseShape' /\ BearersReadable' /\ Retirement'
    BY <1>0, <2>1, RetirementStays DEF BearersReadable
  <2> QED BY <1>0, <2>1, <2>2 DEF DatabaseInv, Passes, NoRoute, NoShape
<1>6. ASSUME NEW r \in Rows, NEW p \in {{"route"}, {"shape"} \cup Tokens}, Database!Prepare(r, p) PROVE DatabaseInv'
  <2>1. prepared' = {<<r, Database!Safe(p)>>} /\ UNCHANGED <<rows, residue, markers, store, configured, foreign>>
    BY <1>6 DEF Database!Prepare, Database!disk
  <2>2. p \in Database!Payloads /\ Database!Json(p)
    BY DatabaseAssumption DEF Database!Payloads, Database!Plain, Database!Json
  <2>3. Database!Safe(p) \in OwnPayloads
    BY <1>0, <2>2, SafePayload
  <2>4. prepared' \in SUBSET (Rows \X OwnPayloads)
    BY <2>1, <2>3
  <2>5. DatabaseShape' /\ BearersReadable' /\ Retirement'
    BY <1>0, <2>1, <2>4, RetirementStays DEF BearersReadable
  <2> QED BY <1>0, <2>1, <2>5 DEF DatabaseInv, Passes, NoRoute, NoShape
<1>7. CASE Database!Crash
  <2> DEFINE exact == IF markers.exact = "now" THEN "earlier" ELSE markers.exact
  <2>1. /\ store' = Database!Off /\ prepared' = {} /\ markers' = [markers EXCEPT !.exact = exact]
        /\ UNCHANGED <<rows, residue, configured, foreign>>
    BY <1>7 DEF Database!Crash, Database!Same
  <2>2. Database!Off \in AStore /\ Database!Off.at = "down"
    BY DEF Database!Off, AStore, Steps
  <2>3. exact \in {"", "earlier", "now"}
    BY <1>0 DEF AMarkers
  <2> HIDE DEF exact
  <2>4. /\ markers' \in AMarkers /\ markers'.retired = markers.retired
        /\ markers'.route = markers.route /\ markers'.generic = markers.generic
    BY <1>0, <2>1, <2>3 DEF AMarkers
  <2> QED BY <1>0, <2>1, <2>2, <2>4, PassMoves
<1> QED BY <1>1, <1>2, <1>3, <1>4, <1>5, <1>6, <1>7

\* Another program's write: a bearer of its own takes the retirement's marker back, and
\* every marker of the passes goes.
LEMMA OtherStep ==
    ASSUME DatabaseInv, NEW r \in Rows, NEW p \in {{}, {"bearer"}, {"route", "shape"}}, Database!OtherWrites(r, p)
    PROVE  DatabaseInv'
<1>0. /\ rows \in [Rows -> Database!Payloads] /\ residue \in SUBSET Database!Plain
      /\ markers \in AMarkers /\ store \in AStore /\ configured \subseteq Tokens
      /\ prepared \in SUBSET (Rows \X OwnPayloads)
      /\ BearersReadable /\ Retirement /\ Passes /\ DatabaseShape
  BY DEF DatabaseInv, DatabaseShape
<1> DEFINE new == [rows EXCEPT ![r] = p]
           retired == IF "bearer" \in p THEN "" ELSE Database!Touched(markers).retired
           marks == [Database!Touched(markers) EXCEPT !.retired = retired]
<1>1. /\ Database!Rewrite(new, marks) /\ UNCHANGED <<store, configured, prepared>>
      /\ foreign' = (foreign \/ store.at # "down")
  BY DEF Database!OtherWrites
<1>2. p \in Database!Payloads /\ Database!Json(p)
  BY DEF Database!Payloads, Database!Plain, Database!Json
<1>3. new \in [Rows -> Database!Payloads] /\ \A s \in Rows : new[s] = IF s = r THEN p ELSE rows[s]
  BY <1>0, <1>2
<1>4. /\ marks \in AMarkers /\ ~marks.route /\ ~marks.generic
      /\ marks.retired = IF "bearer" \in p THEN "" ELSE markers.retired
  BY <1>0 DEF Database!Touched, AMarkers
<1> HIDE DEF new, marks, retired
<1>5. /\ rows' = new /\ markers' = marks /\ residue' \in SUBSET Database!Plain
      /\ NoBearer /\ "bearer" \in residue' => "bearer" \in residue
  BY <1>0, <1>1, <1>3, RewriteLeaves
<1>6. DatabaseShape' /\ BearersReadable'
  BY <1>0, <1>1, <1>2, <1>3, <1>4, <1>5 DEF DatabaseShape, BearersReadable
<1>7. Retirement'
  <2>1. "bearer" \notin p /\ NoBearer => NoBearer'
    BY <1>3, <1>5 DEF NoBearer
  <2> QED BY <1>0, <1>1, <1>4, <1>5, <2>1 DEF Retirement
<1>8. Passes'
  BY <1>0, <1>1, <1>4, <1>5 DEF Passes
<1> QED BY <1>6, <1>7, <1>8 DEF DatabaseInv

\* Every step keeps the database invariant.
LEMMA DatabaseStep == DatabaseInv /\ Database!Next => DatabaseInv'
BY RetirementStep, RoutesStep, RedactionStep, StoreCallStep, OtherStep DEF Database!Next

\* The database invariant in every reachable state.
LEMMA DatabaseHolds == FilesSpec => [](subject = "database" => DatabaseInv)
<1> DEFINE Inv == subject = "database" => DatabaseInv
<1>1. FilesInit => Inv
  BY DatabaseStart DEF FilesInit
<1>2. Inv /\ [FilesNext]_allVars => Inv'
  <2> SUFFICES ASSUME Inv, [FilesNext]_allVars, subject' = "database" PROVE DatabaseInv'
    OBVIOUS
  <2>1. subject = "database" /\ DatabaseInv
    BY DEF FilesNext, allVars
  <2>2. CASE UNCHANGED database
    BY <2>1, <2>2 DEF database, DatabaseInv, DatabaseShape, BearersReadable, Retirement, Passes, NoBearer, NoRoute, NoShape
  <2>3. CASE Database!Next
    BY <2>1, <2>3, DatabaseStep
  <2> QED BY <2>2, <2>3 DEF FilesNext, allVars
<1> QED BY <1>1, <1>2, PTL DEF FilesSpec

\* MarkersHold: without a reader that keeps the log of the database busy, a bearer whose
\* retirement is marked completed is in no row and no free page, and every other marker is
\* true of the rows, after any crash between the passes.
THEOREM MarkersStay == ASSUME ~Readers PROVE FilesSpec => []MarkersHold
<1>1. (subject = "database" => DatabaseInv) => MarkersHold
  <2> SUFFICES ASSUME DatabaseInv PROVE Database!TypeOK /\ Database!RetiredIsGone /\ Database!MarkersAreTrue
    BY DEF MarkersHold
  <2>1. /\ rows \in [Rows -> Database!Payloads] /\ residue \in SUBSET Database!Plain
        /\ markers \in AMarkers /\ store \in AStore /\ configured \subseteq Tokens
        /\ prepared \in SUBSET (Rows \X OwnPayloads) /\ Retirement /\ Passes
    BY DEF DatabaseInv, DatabaseShape
  <2>2. OwnPayloads \subseteq Database!Payloads
    BY DEF OwnPayloads
  <2>3. Database!TypeOK
    BY <2>1, <2>2 DEF Database!TypeOK, AMarkers, AStore, Steps
  <2>4. Database!RetiredIsGone /\ Database!MarkersAreTrue
    BY <2>1 DEF Database!RetiredIsGone, Database!MarkersAreTrue, Retirement, Passes, NoBearer, NoRoute, NoShape
  <2> QED BY <2>3, <2>4
<1> QED BY <1>1, DatabaseHolds, PTL

\* MarkersAreTrue needs no such condition: what a marker says of the rows is so.
THEOREM MarkersAreTrueAlways == FilesSpec => [](subject = "database" => Database!MarkersAreTrue)
<1>1. (subject = "database" => DatabaseInv) => (subject = "database" => Database!MarkersAreTrue)
  BY DEF DatabaseInv, Database!MarkersAreTrue, Passes, NoRoute, NoShape
<1> QED BY <1>1, DatabaseHolds, PTL

-----------------------------------------------------------------------------
(***************************************************************************)
(* The credentials.  A process writes under the lease only, in the order   *)
(* vault, .env, preferences, old file; whatever a later copy still has, an *)
(* earlier one has too, so that a start may end after any of the writes.   *)
(***************************************************************************)

SKey == Starters \cup {None}
Held == {"load", "rewrite", "persist", "env", "prefs", "legacy", "up", "saving"}
AProcess == [at : {"down", "key", "verify", "ready"} \cup Held, key : SKey,
             value : Secrets!Stored, update : Secrets!Stored]
AFile == [format : {"absent", "plain", "old", "current"}, key : SKey, values : Secrets!Found]
Keepable == [fields : [Fields -> SUBSET Secrets!Values], entries : SUBSET Secrets!Entries]
Grown(old, new) == old.entries \subseteq new.entries /\ \A f \in Fields : old.fields[f] \subseteq new.fields[f]

CredentialsShape ==
    /\ keychain \in SKey /\ holder \in SKey
    /\ env \in Secrets!Secrets /\ prefs \in [secrets : Secrets!Found, saved : Nat]
    /\ legacy \in Secrets!Found \cup {None}
    /\ secrets \in AFile /\ stage \in [Starters -> AProcess]
    /\ kept \in Keepable

Home(entry) == entry # None => entry.key \in {None, entry.endpoint}
Current(entry) == Home(entry) /\ entry.endpoint \notin Retired
\* What the next start finds, and with which key.
Findable ==
    /\ Secrets!Encrypted => secrets.key = keychain /\ keychain # None
    /\ secrets.format = "absent" => secrets.values = Secrets!Nothing
    /\ \A f \in Fields : Secrets!Loaded.fields[f] \in kept.fields[f]
    /\ Secrets!Loaded.entry \in kept.entries
    /\ Home(secrets.values.entry) /\ Home(prefs.secrets.entry) /\ Home(Secrets!LegacyFile.entry)

\* The process p has left the files in the order of its migration.
Migrating(p) ==
    /\ stage[p].at \notin {"down", "key", "verify"} => stage[p].key = keychain /\ keychain # None
    /\ stage[p].at \in Held => holder = p
    /\ Current(stage[p].value.entry) /\ Current(stage[p].update.entry)
    /\ stage[p].at \in {"rewrite", "persist"} => stage[p].value = Secrets!Loaded
    /\ stage[p].at \in {"env", "prefs", "legacy"} =>
        /\ secrets.format # "absent" /\ secrets.values = stage[p].value
        /\ \A f \in Fields : stage[p].value.fields[f] = "" =>
             env[f] = "" /\ prefs.secrets.fields[f] = "" /\ Secrets!LegacyFile.fields[f] = ""
    /\ stage[p].at \in {"prefs", "legacy", "up", "saving"} => env = Secrets!Blank.fields
    /\ stage[p].at \in {"legacy", "up", "saving"} => prefs.secrets = Secrets!Nothing
    /\ stage[p].at \in {"up", "saving"} =>
        /\ legacy = None /\ stage[p].value.entry \in kept.entries
        /\ \A f \in Fields : stage[p].value.fields[f] \in kept.fields[f]
    /\ stage[p].at = "saving" =>
        /\ stage[p].update.entry \in kept.entries
        /\ \A f \in Fields : stage[p].update.fields[f] \in kept.fields[f]

CredentialsInv == CredentialsShape /\ Findable /\ \A p \in Starters : Migrating(p)

\* The order in which a start believes the four sources.
LEMMA LoadedIs ==
    \A f \in Fields : Secrets!Loaded.fields[f] =
        IF secrets.values.fields[f] # "" THEN secrets.values.fields[f]
        ELSE IF Secrets!LegacyFile.fields[f] # "" THEN Secrets!LegacyFile.fields[f]
        ELSE IF prefs.secrets.fields[f] # "" THEN prefs.secrets.fields[f] ELSE env[f]
BY DEF Secrets!Loaded, Secrets!Over

\* The same of the next state.
LEMMA LoadedIsNext ==
    \A f \in Fields : Secrets!Loaded'.fields[f] =
        IF secrets'.values.fields[f] # "" THEN secrets'.values.fields[f]
        ELSE IF Secrets!LegacyFile'.fields[f] # "" THEN Secrets!LegacyFile'.fields[f]
        ELSE IF prefs'.secrets.fields[f] # "" THEN prefs'.secrets.fields[f] ELSE env'[f]
BY DEF Secrets!Loaded, Secrets!Over

\* The list that a start believes: the vault's, if it has one.
LEMMA EntryIs ==
    /\ secrets.values.entry # None => Secrets!Loaded.entry = Secrets!Normal(secrets.values.entry)
    /\ secrets'.values.entry # None => Secrets!Loaded'.entry = Secrets!Normal(secrets'.values.entry)
    /\ \A e : Current(e) => Secrets!Normal(e) = e
BY DEF Secrets!Loaded, Secrets!Listed, Secrets!Normal, Current

\* What an absent vault and a process that is down have.
LEMMA BlankIs ==
    /\ Secrets!Blank \in Secrets!Stored /\ Secrets!Blank.fields \in Secrets!Secrets
    /\ \A f \in Fields : Secrets!Blank.fields[f] = ""
    /\ Current(Secrets!Blank.entry)
    /\ Secrets!Nothing \in Secrets!Found /\ Secrets!Nothing.fields = Secrets!Blank.fields /\ Secrets!Nothing.entry = None
    /\ Secrets!Stored \subseteq Secrets!Found
    /\ Secrets!Offline \in AProcess /\ Secrets!Offline.at = "down"
    /\ Secrets!Offline.value = Secrets!Blank /\ Secrets!Offline.update = Secrets!Blank
<1>1. Secrets!Blank.fields \in Secrets!Secrets /\ Secrets!Blank.entry \in Secrets!Entries
  BY DEF Secrets!Blank, Secrets!NoEntry, Secrets!Secrets, Secrets!Values, Secrets!Entries, Secrets!Known
<1>2. Secrets!Blank \in Secrets!Stored
  BY <1>1 DEF Secrets!Blank, Secrets!Stored
<1>3. /\ \A f \in Fields : Secrets!Blank.fields[f] = ""
      /\ Current(Secrets!Blank.entry)
  BY RetiredAssumption DEF Secrets!Blank, Secrets!NoEntry, Home, Current
<1>4. /\ Secrets!Offline \in AProcess /\ Secrets!Offline.at = "down"
      /\ Secrets!Offline.value = Secrets!Blank /\ Secrets!Offline.update = Secrets!Blank
  BY <1>2 DEF Secrets!Offline, AProcess, SKey
<1>5. Secrets!Nothing.fields = Secrets!Blank.fields /\ Secrets!Nothing.entry = None
  BY DEF Secrets!Nothing
<1>6. Secrets!Nothing \in Secrets!Found
  BY <1>1 DEF Secrets!Nothing, Secrets!Found
<1>7. Secrets!Stored \subseteq Secrets!Found
  BY DEF Secrets!Stored, Secrets!Found
<1> QED BY <1>1, <1>2, <1>3, <1>4, <1>5, <1>6, <1>7

\* What a start makes of the sources has the type of what is stored.
LEMMA LoadedTyped ==
    ASSUME secrets.values \in Secrets!Found, prefs \in [secrets : Secrets!Found, saved : Nat],
           env \in Secrets!Secrets, Secrets!LegacyFile \in Secrets!Found
    PROVE  Secrets!Loaded \in Secrets!Stored
<1>1. prefs.secrets \in Secrets!Found
  OBVIOUS
<1>3. \A low, high \in Secrets!Secrets : Secrets!Over(low, high) \in Secrets!Secrets
  BY DEF Secrets!Over, Secrets!Secrets
<1>4. ASSUME NEW x \in Secrets!Found PROVE x.fields \in Secrets!Secrets /\ x.entry \in Secrets!Entries \cup {None}
  BY DEF Secrets!Found
<1>5. Secrets!Loaded.fields \in Secrets!Secrets
  BY <1>1, <1>3, <1>4 DEF Secrets!Loaded
<1>6. Secrets!Loaded.entry \in Secrets!Entries
  <2>1. Secrets!NoEntry \in Secrets!Entries
    BY DEF Secrets!NoEntry, Secrets!Entries, Secrets!Known
  <2>2. \A e \in Secrets!Entries : Secrets!Normal(e) \in Secrets!Entries
    BY <2>1 DEF Secrets!Normal
  <2>3. \A low \in Secrets!Entries, high \in Secrets!Entries \cup {None} : Secrets!Listed(low, high) \in Secrets!Entries
    BY DEF Secrets!Listed
  <2> QED BY <1>1, <1>4, <2>1, <2>2, <2>3 DEF Secrets!Loaded
<1>7. Secrets!Loaded = [fields |-> Secrets!Loaded.fields, entry |-> Secrets!Loaded.entry]
  BY DEF Secrets!Loaded
<1>8. Secrets!Loaded \in Secrets!Stored
  <2> DEFINE a == Secrets!Loaded.fields  b == Secrets!Loaded.entry
  <2>1. a \in Secrets!Secrets /\ b \in Secrets!Entries
    BY <1>5, <1>6
  <2>2. Secrets!Loaded = [fields |-> a, entry |-> b]
    BY <1>7
  <2> HIDE DEF a, b
  <2> QED BY <2>1, <2>2 DEF Secrets!Stored
<1> QED BY <1>8

\* The same from the shape of the state.
LEMMA LoadedStored ==
    ASSUME CredentialsShape
    PROVE  Secrets!Loaded \in Secrets!Stored /\ Secrets!LegacyFile \in Secrets!Found
<1>1. Secrets!LegacyFile \in Secrets!Found
  BY BlankIs DEF CredentialsShape, Secrets!LegacyFile
<1> QED BY <1>1, LoadedTyped DEF CredentialsShape, AFile

\* A start takes no key to another endpoint, and nothing that is retired.
LEMMA LoadedCurrent ==
    ASSUME Home(secrets.values.entry), Home(prefs.secrets.entry), Home(Secrets!LegacyFile.entry)
    PROVE  Current(Secrets!Loaded.entry)
<1>1. Current(Secrets!NoEntry) /\ Home(Secrets!NoEntry)
  BY RetiredAssumption DEF Secrets!NoEntry, Current, Home
<1>2. \A e : Home(e) => Current(Secrets!Normal(e))
  BY <1>1 DEF Secrets!Normal, Current
<1>3. \A low, high : Home(low) /\ Home(high) => Home(Secrets!Listed(low, high))
  BY DEF Secrets!Listed
<1> QED BY <1>1, <1>2, <1>3 DEF Secrets!Loaded

\* A record set with larger fields is larger.
LEMMA PreferencesGrow ==
    ASSUME NEW A, NEW B, A \subseteq B, NEW x \in [secrets : A, saved : {0}]
    PROVE  x \in [secrets : B, saved : Nat]
OBVIOUS

\* The invariant of the credentials for everything an older version may have left.
LEMMA CredentialsStart == Secrets!Init => CredentialsInv
<1> SUFFICES ASSUME Secrets!Init PROVE CredentialsInv
  OBVIOUS
<1> DEFINE Q == CHOOSE q \in Starters : TRUE
<1>1. Q \in Starters
  BY StartersAssumption
<1>2. \A v \in Secrets!Values : Secrets!Old(v) \subseteq Secrets!Found /\ \A x \in Secrets!Old(v) : Home(x.entry)
  <2> SUFFICES ASSUME NEW v \in Secrets!Values, NEW x \in Secrets!Old(v)
               PROVE  x \in Secrets!Found /\ Home(x.entry)
    OBVIOUS
  <2> DEFINE E == {None, Secrets!NoEntry} \cup {[endpoint |-> e, key |-> e] : e \in Endpoints \cup Retired}
  <2>1. \A e \in E : e \in Secrets!Entries \cup {None} /\ Home(e)
    <3>1. Secrets!NoEntry \in Secrets!Entries /\ Home(Secrets!NoEntry)
      BY DEF Secrets!NoEntry, Secrets!Entries, Secrets!Known, Home
    <3>2. ASSUME NEW e \in Endpoints \cup Retired
          PROVE  [endpoint |-> e, key |-> e] \in Secrets!Entries /\ Home([endpoint |-> e, key |-> e])
      BY DEF Secrets!Entries, Secrets!Known, Home
    <3> QED BY <3>1, <3>2 DEF Home
  <2>2. x \in [fields : [Fields -> {"", v}], entry : E]
    BY DEF Secrets!Old
  <2> HIDE DEF E
  <2>3. x \in [fields : Secrets!Secrets, entry : Secrets!Entries \cup {None}] /\ x.entry \in E
    <3>1. [Fields -> {"", v}] \subseteq Secrets!Secrets
      BY DEF Secrets!Secrets, Secrets!Values
    <3> QED BY <2>1, <2>2, <3>1
  <2> QED BY <2>1, <2>3 DEF Secrets!Found
<1>3. /\ holder = None /\ stage = [p \in Starters |-> Secrets!Offline]
      /\ env \in Secrets!Secrets /\ prefs \in [secrets : Secrets!Found, saved : Nat]
      /\ legacy \in Secrets!Found \cup {None}
      /\ Home(prefs.secrets.entry) /\ Home(Secrets!LegacyFile.entry)
      /\ kept = [fields |-> [f \in Fields |-> {Secrets!Loaded.fields[f]}], entries |-> {Secrets!Loaded.entry}]
  <2>1. /\ env \in [Fields -> {"", "env"}] /\ prefs \in [secrets : Secrets!Old("prefs"), saved : {0}]
        /\ legacy \in Secrets!Old("legacy") \cup {None}
    BY DEF Secrets!Init
  <2>2. env \in Secrets!Secrets
    BY <2>1 DEF Secrets!Secrets, Secrets!Values
  <2>3. "prefs" \in Secrets!Values /\ "legacy" \in Secrets!Values
    BY DEF Secrets!Values
  <2>4. prefs \in [secrets : Secrets!Found, saved : Nat] /\ Home(prefs.secrets.entry)
    BY <1>2, <2>1, <2>3, PreferencesGrow
  <2>5. legacy \in Secrets!Found \cup {None}
    BY <1>2, <2>1, <2>3
  <2>6. Home(Secrets!LegacyFile.entry)
    BY <1>2, <2>1, <2>3, BlankIs DEF Secrets!LegacyFile, Home
  <2> QED BY <2>2, <2>4, <2>5, <2>6 DEF Secrets!Init
<1>4. /\ secrets \in AFile /\ keychain \in SKey /\ Home(secrets.values.entry)
      /\ secrets.format = "absent" => secrets.values = Secrets!Nothing
      /\ Secrets!Encrypted => secrets.key = keychain /\ keychain # None
  <2>1. CASE secrets = Secrets!NoFile /\ keychain = None
    <3>1. secrets = [format |-> "absent", key |-> None, values |-> Secrets!Nothing]
      BY <2>1 DEF Secrets!NoFile
    <3>2. secrets \in AFile
      BY <3>1, BlankIs DEF AFile, SKey
    <3>3. secrets.format = "absent" /\ secrets.values = Secrets!Nothing
      BY <3>1
    <3>4. ~Secrets!Encrypted
      BY <3>3 DEF Secrets!Encrypted
    <3> QED BY <2>1, <3>2, <3>3, <3>4, BlankIs DEF SKey, Home
  <2>2. ASSUME NEW values \in Secrets!Old("vault"), NEW format \in {"plain", "old", "current"},
               secrets = [format |-> format, key |-> Q, values |-> values],
               keychain = IF format = "plain" THEN None ELSE Q
        PROVE  /\ secrets \in AFile /\ keychain \in SKey /\ Home(secrets.values.entry)
               /\ secrets.format = "absent" => secrets.values = Secrets!Nothing
               /\ Secrets!Encrypted => secrets.key = keychain /\ keychain # None
    <3> HIDE DEF Q
    <3>1. values \in Secrets!Found /\ Home(values.entry)
      BY <1>2 DEF Secrets!Values
    <3>2. secrets \in AFile /\ keychain \in SKey
      BY <1>1, <2>2, <3>1 DEF AFile, SKey
    <3>3. secrets.values = values /\ secrets.format = format /\ secrets.key = Q
      BY <2>2
    <3> QED BY <1>1, <2>2, <3>1, <3>2, <3>3, StartersAssumption DEF Secrets!Encrypted
  <2> QED BY <2>1, <2>2 DEF Secrets!Init
<1>5. CredentialsShape
  <2>1. stage \in [Starters -> AProcess]
    BY <1>3, BlankIs
  <2>2. kept \in Keepable
    <3>1. Secrets!Loaded.fields \in Secrets!Secrets /\ Secrets!Loaded.entry \in Secrets!Entries
      <4>1. Secrets!LegacyFile \in Secrets!Found
        BY <1>3, BlankIs DEF Secrets!LegacyFile
      <4>2. Secrets!Loaded \in Secrets!Stored
        BY <1>3, <1>4, <4>1, LoadedTyped DEF AFile
      <4> QED BY <4>2 DEF Secrets!Stored
    <3> DEFINE a == [f \in Fields |-> {Secrets!Loaded.fields[f]}]  b == {Secrets!Loaded.entry}
    <3>2. a \in [Fields -> SUBSET Secrets!Values] /\ b \in SUBSET Secrets!Entries
      BY <3>1 DEF Secrets!Secrets
    <3>3. kept = [fields |-> a, entries |-> b]
      BY <1>3
    <3> HIDE DEF a, b
    <3> QED BY <3>2, <3>3 DEF Keepable
  <2> QED BY <1>3, <1>4, <2>1, <2>2 DEF CredentialsShape, SKey
<1>6. Findable
  BY <1>3, <1>4 DEF Findable
<1>7. ASSUME NEW p \in Starters PROVE Migrating(p)
  <2>1. stage[p] = Secrets!Offline
    BY <1>3
  <2> QED BY <2>1, BlankIs DEF Migrating, Held
<1> QED BY <1>5, <1>6, <1>7 DEF CredentialsInv

-----------------------------------------------------------------------------
\* A step of one process leaves the others where they are.
LEMMA OthersRest ==
    ASSUME CredentialsInv, NEW p \in Starters, NEW r, stage' = [stage EXCEPT ![p] = r],
           keychain' = keychain \/ keychain = None,
           holder' = holder \/ holder \in {None, p},
           \/ UNCHANGED <<env, prefs, legacy, secrets>> /\ (kept' = kept \/ Grown(kept, kept'))
           \/ stage[p].at \in Held,
           NEW q \in Starters, q # p
    PROVE  Migrating(q)'
<1>1. stage'[q] = stage[q] /\ Migrating(q) /\ q # None
  BY StartersAssumption DEF CredentialsInv, CredentialsShape
<1>2. stage[q].at \notin {"down", "key", "verify"} => stage'[q].key = keychain' /\ keychain' # None
  BY <1>1 DEF Migrating
<1>3. CASE stage[q].at \notin Held
  BY <1>1, <1>2, <1>3 DEF Migrating, Held
<1>4. CASE stage[q].at \in Held
  <2>1. holder = q /\ holder' = q
    BY <1>1, <1>4 DEF Migrating
  <2>2. UNCHANGED <<env, prefs, legacy, secrets>> /\ (kept' = kept \/ Grown(kept, kept'))
    <3>1. stage[p].at \notin Held
      BY <2>1 DEF CredentialsInv, Migrating
    <3> QED BY <3>1
  <2>3. UNCHANGED <<Secrets!Loaded, Secrets!LegacyFile, Secrets!Blank, Secrets!Nothing>>
    BY <2>2 DEF Secrets!Loaded, Secrets!LegacyFile, Secrets!Nothing, Secrets!Blank
  <2> QED BY <1>1, <1>2, <2>1, <2>2, <2>3 DEF Migrating, Grown
<1> QED BY <1>3, <1>4

\* A step that leaves the four files alone leaves what is found there.
LEMMA FoundStays ==
    ASSUME CredentialsInv, UNCHANGED <<env, prefs, legacy, secrets>>, keychain' = keychain \/ keychain = None,
           kept' = kept \/ Grown(kept, kept')
    PROVE  Findable'
<1>1. UNCHANGED <<Secrets!Loaded, Secrets!LegacyFile, Secrets!Nothing, Secrets!Encrypted>>
  BY DEF Secrets!Loaded, Secrets!LegacyFile, Secrets!Nothing, Secrets!Blank, Secrets!Encrypted
<1> QED BY <1>1 DEF CredentialsInv, Findable, Grown

\* What is left to show of a step.
LEMMA StepHolds ==
    ASSUME CredentialsInv, NEW p \in Starters, NEW r \in AProcess, stage' = [stage EXCEPT ![p] = r],
           keychain' \in SKey, keychain' = keychain \/ keychain = None,
           holder' \in SKey, holder' = holder \/ holder \in {None, p},
           env' \in Secrets!Secrets, prefs' \in [secrets : Secrets!Found, saved : Nat],
           legacy' \in Secrets!Found \cup {None}, secrets' \in AFile,
           kept' \in Keepable,
           \/ UNCHANGED <<env, prefs, legacy, secrets>> /\ (kept' = kept \/ Grown(kept, kept'))
           \/ stage[p].at \in Held,
           Findable', Migrating(p)'
    PROVE  CredentialsInv'
<1>1. stage' \in [Starters -> AProcess]
  BY DEF CredentialsInv, CredentialsShape
<1>2. CredentialsShape'
  BY <1>1 DEF CredentialsShape, SKey, AFile, Secrets!Secrets, Secrets!Stored, Secrets!Found, Secrets!Entries, Secrets!Values, AProcess, Held, Keepable
<1>3. ASSUME NEW q \in Starters PROVE Migrating(q)'
  <2>1. CASE q # p
    BY <2>1, OthersRest
  <2> QED BY <2>1
<1> QED BY <1>2, <1>3 DEF CredentialsInv

\* A start that ends, or a process that dies, between the files.
LEMMA EndHolds ==
    ASSUME CredentialsInv, NEW p \in Starters, Secrets!Ends(p), UNCHANGED <<keychain, kept>>,
           env' \in Secrets!Secrets, prefs' \in [secrets : Secrets!Found, saved : Nat],
           legacy' \in Secrets!Found \cup {None}, secrets' \in AFile,
           UNCHANGED <<env, prefs, legacy, secrets>> \/ stage[p].at \in Held,
           Findable'
    PROVE  CredentialsInv'
<1>1. stage' = [stage EXCEPT ![p] = Secrets!Offline] /\ holder' = IF holder = p THEN None ELSE holder
  BY DEF Secrets!Ends
<1>2. keychain \in SKey /\ holder \in SKey /\ kept \in Keepable /\ stage \in [Starters -> AProcess]
  BY DEF CredentialsInv, CredentialsShape
<1>3. stage'[p] = Secrets!Offline
  BY <1>1, <1>2
<1>4. Migrating(p)'
  BY <1>3, BlankIs DEF Migrating, Held
<1>5. holder' \in SKey /\ (holder' = holder \/ holder \in {None, p})
  BY <1>1, <1>2 DEF SKey
<1> QED BY <1>1, <1>2, <1>4, <1>5, BlankIs, StepHolds

Moved(p, to) == [stage[p] EXCEPT !.at = to]

\* A set of credentials without a value is the blank one.
LEMMA AllBlank ==
    ASSUME NEW s \in Secrets!Secrets, \A f \in Fields : s[f] = "" PROVE s = Secrets!Blank.fields
<1>1. Secrets!Blank.fields = [f \in Fields |-> ""]
  BY DEF Secrets!Blank
<1>2. s = [f \in Fields |-> s[f]]
  BY DEF Secrets!Secrets
<1> QED BY <1>1, <1>2

\* The types of the state and of one process.
LEMMA Typed ==
    ASSUME CredentialsInv, NEW p \in Starters
    PROVE  /\ stage \in [Starters -> AProcess] /\ stage[p] \in AProcess /\ Migrating(p) /\ p # None /\ p \in SKey
           /\ keychain \in SKey /\ holder \in SKey /\ env \in Secrets!Secrets
           /\ prefs \in [secrets : Secrets!Found, saved : Nat] /\ legacy \in Secrets!Found \cup {None}
           /\ secrets \in AFile /\ kept \in Keepable
BY StartersAssumption DEF CredentialsInv, CredentialsShape, SKey

\* A step to the next stage changes the stage only.
LEMMA Going ==
    ASSUME CredentialsInv, NEW p \in Starters, NEW to \in {"key", "verify", "ready"} \cup Held, Secrets!Go(p, to)
    PROVE  /\ Moved(p, to) \in AProcess /\ stage' = [stage EXCEPT ![p] = Moved(p, to)]
           /\ stage'[p] = Moved(p, to) /\ stage'[p].at = to /\ stage'[p].key = stage[p].key
           /\ stage'[p].value = stage[p].value /\ stage'[p].update = stage[p].update
<1>1. stage \in [Starters -> AProcess] /\ stage[p] \in AProcess
  BY Typed
<1>2. Moved(p, to) \in AProcess /\ stage' = [stage EXCEPT ![p] = Moved(p, to)]
  BY <1>1 DEF Moved, AProcess, Secrets!Go
<1>3. stage'[p] = Moved(p, to)
  BY <1>1, <1>2
<1> QED BY <1>1, <1>2, <1>3 DEF Moved, AProcess

\* A step before the lease needs no more than a key that is the stored one.
LEMMA KeyStep ==
    ASSUME CredentialsInv, NEW p \in Starters, NEW r \in AProcess, stage' = [stage EXCEPT ![p] = r], r.at \notin Held,
           r.value = stage[p].value, r.update = stage[p].update,
           r.at = "ready" => r.key = keychain' /\ keychain' # None,
           keychain' \in SKey, keychain' = keychain \/ keychain = None,
           UNCHANGED <<env, prefs, legacy, secrets, holder, kept>>
    PROVE  CredentialsInv'
<1>1. stage'[p] = r
  BY Typed
<1>2. Migrating(p)'
  <2>1. Current(r.value.entry) /\ Current(r.update.entry)
    BY Typed DEF Migrating
  <2>2. r.at \in {"down", "key", "verify", "ready"}
    BY DEF AProcess
  <2> QED BY <1>1, <2>1, <2>2 DEF Migrating, Held
<1>3. Findable'
  BY FoundStays
<1> QED BY <1>2, <1>3, Typed, StepHolds

\* The master key and the lease: the key is stored once and read again.
LEMMA KeyHolds ==
    ASSUME CredentialsInv, ~Replaces, NEW p \in Starters, Secrets!Key(p) PROVE CredentialsInv'
<1>0. /\ stage \in [Starters -> AProcess] /\ stage[p] \in AProcess /\ Migrating(p) /\ p # None /\ p \in SKey
      /\ keychain \in SKey /\ holder \in SKey
  BY Typed
<1>1. CASE Secrets!Start(p)
  <2>1. CASE keychain # None
    <3> DEFINE r == [stage[p] EXCEPT !.at = "ready", !.key = keychain]
    <3>1. stage' = [stage EXCEPT ![p] = r] /\ UNCHANGED <<keychain, env, prefs, legacy, secrets, holder, kept>>
      BY <1>0, <1>1, <2>1 DEF Secrets!Start, Secrets!disk
    <3>2. r \in AProcess /\ r.at = "ready" /\ r.key = keychain /\ r.value = stage[p].value /\ r.update = stage[p].update
      BY <1>0 DEF AProcess
    <3> HIDE DEF r
    <3> QED BY <1>0, <2>1, <3>1, <3>2, KeyStep DEF Held
  <2>2. CASE keychain = None
    <3>1. Secrets!Go(p, "key") /\ UNCHANGED <<keychain, env, prefs, legacy, secrets, holder, kept>>
      BY <1>1, <2>2 DEF Secrets!Start, Secrets!Go, Secrets!disk
    <3> QED BY <1>0, <3>1, Going, KeyStep DEF Held
  <2> QED BY <2>1, <2>2
<1>2. CASE Secrets!LookupFails(p)
  BY <1>2 DEF Secrets!LookupFails
<1>3. CASE Secrets!CreateKey(p)
  <2>1. UNCHANGED <<env, prefs, legacy, secrets, kept>>
    BY <1>3 DEF Secrets!CreateKey, Secrets!disk
  <2>2. CASE keychain = None
    <3>1. keychain' = p /\ Secrets!Go(p, "verify") /\ holder' = holder
      BY <1>3, <2>2 DEF Secrets!CreateKey
    <3> QED BY <1>0, <2>1, <2>2, <3>1, Going, KeyStep DEF Held
  <2>3. CASE keychain # None
    <3>1. keychain' = keychain /\ Secrets!Ends(p)
      BY <1>3, <2>3 DEF Secrets!CreateKey
    <3>2. Findable'
      BY <2>1, <3>1, FoundStays
    <3> QED BY <2>1, <3>1, <3>2, Typed, EndHolds
  <2> QED BY <2>2, <2>3
<1>4. CASE Secrets!VerifyKey(p)
  <2>1. UNCHANGED <<keychain, env, prefs, legacy, secrets, kept>>
    BY <1>4 DEF Secrets!VerifyKey, Secrets!disk
  <2>2. CASE keychain = p
    <3> DEFINE r == [stage[p] EXCEPT !.at = "ready", !.key = p]
    <3>1. stage' = [stage EXCEPT ![p] = r] /\ holder' = holder
      BY <1>0, <1>4, <2>2 DEF Secrets!VerifyKey
    <3>2. r \in AProcess /\ r.at = "ready" /\ r.key = p /\ r.value = stage[p].value /\ r.update = stage[p].update
      BY <1>0 DEF AProcess
    <3> HIDE DEF r
    <3> QED BY <1>0, <2>1, <2>2, <3>1, <3>2, KeyStep DEF Held
  <2>3. CASE keychain # p
    <3>1. Secrets!Ends(p)
      BY <1>4, <2>3 DEF Secrets!VerifyKey
    <3>2. Findable'
      BY <2>1, FoundStays
    <3> QED BY <2>1, <3>1, <3>2, Typed, EndHolds
  <2> QED BY <2>2, <2>3
<1>5. CASE Secrets!TakeLease(p)
  <2>1. stage[p].at = "ready" /\ UNCHANGED <<keychain, env, prefs, legacy, secrets, kept>>
    BY <1>5 DEF Secrets!TakeLease, Secrets!disk
  <2>2. Findable'
    BY <2>1, FoundStays
  <2>3. CASE holder = None
    <3>1. holder' = p /\ Secrets!Go(p, "load")
      BY <1>5, <2>3 DEF Secrets!TakeLease
    <3>2. /\ Moved(p, "load") \in AProcess /\ stage' = [stage EXCEPT ![p] = Moved(p, "load")]
          /\ stage'[p].at = "load" /\ stage'[p].key = stage[p].key
          /\ stage'[p].value = stage[p].value /\ stage'[p].update = stage[p].update
      BY <3>1, Going DEF Held
    <3>3. Migrating(p)'
      BY <1>0, <2>1, <3>1, <3>2 DEF Migrating, Held
    <3> QED BY <1>0, <2>1, <2>2, <2>3, <3>1, <3>2, <3>3, Typed, StepHolds
  <2>4. CASE holder # None
    <3>1. Secrets!Ends(p)
      BY <1>5, <2>4 DEF Secrets!TakeLease
    <3> QED BY <2>1, <2>2, <3>1, Typed, EndHolds
  <2> QED BY <2>3, <2>4
<1> QED BY <1>1, <1>2, <1>3, <1>4, <1>5 DEF Secrets!Key

\* A start reads its value from the files as they are.
LEMMA LoadHolds == ASSUME CredentialsInv, NEW p \in Starters, Secrets!Load(p) PROVE CredentialsInv'
<1>0. /\ stage \in [Starters -> AProcess] /\ stage[p] \in AProcess /\ Migrating(p) /\ p \in SKey
      /\ stage[p].at = "load" /\ UNCHANGED <<keychain, env, prefs, legacy, secrets, kept>>
  BY Typed DEF Secrets!Load, Secrets!disk
<1>1. Findable'
  BY <1>0, FoundStays
<1>2. CASE Secrets!Encrypted /\ secrets.key # stage[p].key
  <2>1. Secrets!Ends(p)
    BY <1>2 DEF Secrets!Load
  <2> QED BY <1>0, <1>1, <2>1, Typed, EndHolds
<1>3. CASE ~(Secrets!Encrypted /\ secrets.key # stage[p].key)
  <2> DEFINE to == IF secrets.format = "old" THEN "rewrite" ELSE IF Secrets!Persistable THEN "persist" ELSE "up"
             r == [stage[p] EXCEPT !.value = Secrets!Loaded, !.at = to]
  <2>1. stage' = [stage EXCEPT ![p] = r] /\ holder' = holder
    BY <1>0, <1>3 DEF Secrets!Load
  <2>2. Secrets!Loaded \in Secrets!Stored /\ Secrets!LegacyFile \in Secrets!Found
    BY LoadedStored DEF CredentialsInv
  <2>3. to \in {"rewrite", "persist", "up"}
    OBVIOUS
  <2>4. /\ r \in AProcess /\ r.at = to /\ r.key = stage[p].key
        /\ r.value = Secrets!Loaded /\ r.update = stage[p].update
    BY <1>0, <2>2, <2>3 DEF AProcess, Held
  <2>5. UNCHANGED <<Secrets!Loaded, Secrets!Blank, Secrets!Nothing>>
    BY <1>0 DEF Secrets!Loaded, Secrets!LegacyFile, Secrets!Nothing, Secrets!Blank
  <2>6. to = "up" => /\ legacy = None /\ prefs.secrets = Secrets!Nothing /\ Secrets!Loaded = Secrets!Blank
    BY DEF Secrets!Persistable
  <2>7. to = "up" => env = Secrets!Blank.fields
    <3> SUFFICES ASSUME to = "up" PROVE env = Secrets!Blank.fields
      OBVIOUS
    <3>1. ASSUME NEW f \in Fields PROVE env[f] = ""
      <4>1. Secrets!Loaded.fields[f] = ""
        BY <2>6, BlankIs
      <4>2. secrets.values.fields[f] = "" /\ Secrets!LegacyFile.fields[f] = "" /\ prefs.secrets.fields[f] = ""
        BY <4>1, LoadedIs
      <4> QED BY <4>1, <4>2, LoadedIs
    <3> QED BY <3>1, Typed, AllBlank
  <2>8. stage'[p] = r
    BY <1>0, <2>1
  <2>9. /\ Current(Secrets!Loaded.entry) /\ Secrets!Loaded.entry \in kept.entries
        /\ \A f \in Fields : Secrets!Loaded.fields[f] \in kept.fields[f]
    BY LoadedCurrent DEF CredentialsInv, Findable
  <2> HIDE DEF to, r
  <2>10. Migrating(p)'
    BY <1>0, <2>1, <2>3, <2>4, <2>5, <2>6, <2>7, <2>8, <2>9 DEF Migrating, Held
  <2> QED BY <1>0, <1>1, <2>1, <2>4, <2>10, Typed, StepHolds
<1> QED BY <1>2, <1>3

\* A vault written by p is one that p's key opens.
LEMMA Written ==
    ASSUME CredentialsInv, NEW p \in Starters, stage[p].at \in Held, NEW v \in Secrets!Found, Secrets!InVault(p, v)
    PROVE  /\ secrets' \in AFile /\ secrets'.values = v /\ secrets'.format = "current"
           /\ secrets'.key = keychain /\ keychain # None
<1>1. stage[p] \in AProcess /\ Migrating(p)
  BY Typed
<1>2. secrets' = [format |-> "current", key |-> stage[p].key, values |-> v]
  BY DEF Secrets!InVault
<1>3. stage[p].key \in SKey
  BY <1>1 DEF AProcess
<1>4. stage[p].key = keychain /\ keychain # None
  BY <1>1 DEF Migrating, Held
<1> QED BY <1>2, <1>3, <1>4 DEF AFile

\* A vault that exists and blanked copies of what it has leave every value to be found.
LEMMA StillFound ==
    ASSUME CredentialsInv, UNCHANGED <<keychain, kept>>,
           Secrets!Encrypted' => secrets'.key = keychain /\ keychain # None,
           secrets'.format = "absent" => secrets'.values = Secrets!Nothing,
           Home(secrets'.values.entry), Home(prefs'.secrets.entry), Home(Secrets!LegacyFile'.entry),
           \A f \in Fields : Secrets!Loaded'.fields[f] = Secrets!Loaded.fields[f],
           Secrets!Loaded'.entry = Secrets!Loaded.entry
    PROVE  Findable'
<1>1. UNCHANGED Secrets!Nothing
  BY DEF Secrets!Nothing, Secrets!Blank
<1>2. Secrets!Loaded'.entry \in kept'.entries /\ \A f \in Fields : Secrets!Loaded'.fields[f] \in kept'.fields[f]
  BY DEF CredentialsInv, Findable
<1> QED BY <1>1, <1>2 DEF Findable

\* The new envelope holds what the old one held.
LEMMA RewriteHolds == ASSUME CredentialsInv, NEW p \in Starters, Secrets!Rewrite(p) PROVE CredentialsInv'
<1>0. /\ stage[p].at = "rewrite" /\ UNCHANGED <<keychain, env, prefs, legacy, kept>>
      /\ \/ Secrets!InVault(p, secrets.values) /\ Secrets!Go(p, "persist") /\ holder' = holder
         \/ (Secrets!InVault(p, secrets.values) \/ secrets' = secrets) /\ Secrets!Ends(p)
  BY DEF Secrets!Rewrite, Secrets!Step, Secrets!CanFail
<1>1. secrets.values \in Secrets!Found /\ secrets \in AFile /\ stage[p].at \in Held /\ Migrating(p)
  BY <1>0, Typed DEF AFile, Held
<1>2. CASE secrets' = secrets /\ Secrets!Ends(p)
  BY <1>0, <1>1, <1>2, FoundStays, Typed, EndHolds
<1>3. CASE Secrets!InVault(p, secrets.values)
  <2>1. /\ secrets' \in AFile /\ secrets'.values = secrets.values /\ secrets'.format = "current"
        /\ secrets'.key = keychain /\ keychain # None
    BY <1>1, <1>3, Written
  <2>2. UNCHANGED <<Secrets!Loaded, Secrets!LegacyFile>>
    BY <1>0, <2>1 DEF Secrets!Loaded, Secrets!LegacyFile, Secrets!Nothing, Secrets!Blank
  <2>3. Findable'
    BY <1>0, <2>1, <2>2, StillFound DEF CredentialsInv, Findable
  <2>4. CASE Secrets!Ends(p)
    BY <1>0, <1>1, <2>1, <2>3, <2>4, Typed, EndHolds
  <2>5. CASE Secrets!Go(p, "persist") /\ holder' = holder
    <3>1. /\ Moved(p, "persist") \in AProcess /\ stage' = [stage EXCEPT ![p] = Moved(p, "persist")]
          /\ stage'[p].at = "persist" /\ stage'[p].key = stage[p].key
          /\ stage'[p].value = stage[p].value /\ stage'[p].update = stage[p].update
      BY <2>5, Going DEF Held
    <3>2. Migrating(p)'
      BY <1>0, <1>1, <2>2, <2>5, <3>1 DEF Migrating, Held
    <3> QED BY <1>0, <1>1, <2>1, <2>3, <2>5, <3>1, <3>2, Typed, StepHolds
  <2> QED BY <1>0, <1>3, <2>4, <2>5
<1> QED BY <1>0, <1>2, <1>3

\* The vault gets the value that was loaded: every field that it leaves blank is blank everywhere.
LEMMA PersistHolds == ASSUME CredentialsInv, NEW p \in Starters, Secrets!Persist(p) PROVE CredentialsInv'
<1> DEFINE write == IF Secrets!Encrypted /\ secrets.values = stage[p].value THEN secrets' = secrets
                    ELSE Secrets!InVault(p, stage[p].value)
<1>0. /\ stage[p].at = "persist" /\ UNCHANGED <<keychain, env, prefs, legacy, kept>>
      /\ \/ write /\ Secrets!Go(p, "env") /\ holder' = holder
         \/ (write \/ secrets' = secrets) /\ Secrets!Ends(p)
  BY DEF Secrets!Persist, Secrets!Step, Secrets!CanFail
<1>1. /\ stage[p] \in AProcess /\ stage[p].value \in Secrets!Stored /\ secrets \in AFile
      /\ stage[p].at \in Held /\ Migrating(p) /\ stage[p].value = Secrets!Loaded
      /\ stage[p].value \in Secrets!Found
  BY <1>0, Typed, BlankIs DEF AProcess, Held, Migrating
<1>2. CASE secrets' = secrets /\ Secrets!Ends(p)
  BY <1>0, <1>1, <1>2, FoundStays, Typed, EndHolds
<1>3. CASE write
  <2>1. /\ secrets' \in AFile /\ secrets'.values = stage[p].value /\ secrets'.format # "absent"
        /\ secrets'.key = keychain /\ keychain # None
    <3>1. CASE Secrets!Encrypted /\ secrets.values = stage[p].value
      BY <1>1, <1>3, <3>1 DEF CredentialsInv, Findable, Secrets!Encrypted
    <3>2. CASE ~(Secrets!Encrypted /\ secrets.values = stage[p].value)
      <4>1. Secrets!InVault(p, stage[p].value)
        BY <1>3, <3>2
      <4> QED BY <1>1, <4>1, Written
    <3> QED BY <3>1, <3>2
  <2>2. \A f \in Fields : stage[p].value.fields[f] = "" =>
           env[f] = "" /\ prefs.secrets.fields[f] = "" /\ Secrets!LegacyFile.fields[f] = ""
    BY <1>1, LoadedIs
  <2>3. UNCHANGED Secrets!LegacyFile
    BY <1>0 DEF Secrets!LegacyFile, Secrets!Nothing, Secrets!Blank
  <2>4. \A f \in Fields : Secrets!Loaded'.fields[f] = Secrets!Loaded.fields[f]
    BY <1>0, <1>1, <2>1, <2>2, <2>3, LoadedIs, LoadedIsNext
  <2>8. Current(stage[p].value.entry) /\ stage[p].value.entry # None
    BY <1>1, EntriesAssumption DEF Migrating, Secrets!Stored
  <2>9. Secrets!Loaded'.entry = Secrets!Loaded.entry
    BY <1>1, <2>1, <2>8, EntryIs
  <2>5. Findable'
    BY <1>0, <1>1, <2>1, <2>3, <2>4, <2>8, <2>9, StillFound DEF Current, CredentialsInv, Findable
  <2>6. CASE Secrets!Ends(p)
    BY <1>0, <1>1, <2>1, <2>5, <2>6, Typed, EndHolds
  <2>7. CASE Secrets!Go(p, "env") /\ holder' = holder
    <3>1. /\ Moved(p, "env") \in AProcess /\ stage' = [stage EXCEPT ![p] = Moved(p, "env")]
          /\ stage'[p].at = "env" /\ stage'[p].key = stage[p].key
          /\ stage'[p].value = stage[p].value /\ stage'[p].update = stage[p].update
      BY <2>7, Going DEF Held
    <3>2. Migrating(p)'
      BY <1>0, <1>1, <2>1, <2>2, <2>3, <2>7, <3>1 DEF Migrating, Held
    <3> QED BY <1>0, <1>1, <2>1, <2>5, <2>7, <3>1, <3>2, Typed, StepHolds
  <2> QED BY <1>0, <1>3, <2>6, <2>7
<1> QED BY <1>0, <1>2, <1>3

\* Between the write of the vault and the last plaintext copy, what the vault leaves
\* blank is blank in every copy.
LEMMA CopiesAreBlank ==
    ASSUME CredentialsInv, NEW p \in Starters, stage[p].at \in {"env", "prefs", "legacy"}
    PROVE  /\ secrets.values = stage[p].value /\ secrets.values.entry # None
           /\ Secrets!Loaded.entry = secrets.values.entry
           /\ \A f \in Fields :
                /\ Secrets!Loaded.fields[f] = secrets.values.fields[f]
                /\ stage[p].value.fields[f] = "" =>
                     env[f] = "" /\ prefs.secrets.fields[f] = "" /\ Secrets!LegacyFile.fields[f] = ""
<1>1. Migrating(p) /\ stage[p].value \in Secrets!Stored
  BY Typed DEF AProcess
<1>2. stage[p].value.entry # None /\ Current(stage[p].value.entry)
  BY <1>1, EntriesAssumption DEF Migrating, Secrets!Stored
<1> QED BY <1>1, <1>2, LoadedIs, EntryIs DEF Migrating

\* The assignments that are blanked are all in the vault by now.
LEMMA ScrubEnvHolds == ASSUME CredentialsInv, NEW p \in Starters, Secrets!ScrubEnv(p) PROVE CredentialsInv'
<1> DEFINE names == {f \in Fields : stage[p].value.fields[f] # ""}
<1>0. /\ stage[p].at = "env" /\ UNCHANGED <<keychain, prefs, legacy, secrets, kept>>
      /\ \/ env' = Secrets!Blanked(names) /\ Secrets!Go(p, "prefs") /\ holder' = holder
         \/ (env' = Secrets!Blanked(names) \/ env' = env) /\ Secrets!Ends(p)
  BY DEF Secrets!ScrubEnv, Secrets!Step, Secrets!CanFail
<1>1. stage[p].at \in Held /\ Migrating(p) /\ env \in Secrets!Secrets /\ secrets \in AFile
  BY <1>0, Typed DEF Held
<1>2. CASE env' = env /\ Secrets!Ends(p)
  BY <1>0, <1>1, <1>2, FoundStays, Typed, EndHolds
<1>3. CASE env' = Secrets!Blanked(names)
  <2>1. env' = Secrets!Blank.fields
    <3>1. \A f \in Fields : Secrets!Blanked(names)[f] = ""
      BY <1>0, CopiesAreBlank DEF Secrets!Blanked
    <3>2. Secrets!Blanked(names) \in Secrets!Secrets
      BY <1>1 DEF Secrets!Blanked, Secrets!Secrets, Secrets!Values
    <3> QED BY <1>3, <3>1, <3>2, AllBlank
  <2>2. UNCHANGED <<Secrets!LegacyFile, Secrets!Blank, Secrets!Nothing>>
    BY <1>0 DEF Secrets!LegacyFile, Secrets!Nothing, Secrets!Blank
  <2>3. \A f \in Fields : env'[f] = ""
    BY <2>1, BlankIs
  <2>4. \A f \in Fields : Secrets!Loaded'.fields[f] = Secrets!Loaded.fields[f]
    BY <1>0, <2>2, <2>3, CopiesAreBlank, LoadedIsNext
  <2>9. Secrets!Loaded'.entry = Secrets!Loaded.entry
    BY <1>0, CopiesAreBlank, EntryIs
  <2>5. UNCHANGED Secrets!Encrypted
    BY <1>0 DEF Secrets!Encrypted
  <2>6. Findable'
    BY <1>0, <2>1, <2>2, <2>4, <2>5, <2>9, BlankIs, StillFound DEF CredentialsInv, Findable, Home
  <2>7. CASE Secrets!Ends(p)
    BY <1>0, <1>1, <2>1, <2>6, <2>7, BlankIs, Typed, EndHolds
  <2>8. CASE Secrets!Go(p, "prefs") /\ holder' = holder
    <3>1. /\ Moved(p, "prefs") \in AProcess /\ stage' = [stage EXCEPT ![p] = Moved(p, "prefs")]
          /\ stage'[p].at = "prefs" /\ stage'[p].key = stage[p].key
          /\ stage'[p].value = stage[p].value /\ stage'[p].update = stage[p].update
      BY <2>8, Going DEF Held
    <3>2. Migrating(p)'
      BY <1>0, <1>1, <2>1, <2>2, <2>3, <2>8, <3>1, CopiesAreBlank DEF Migrating, Held
    <3> QED BY <1>0, <1>1, <2>1, <2>6, <2>8, <3>1, <3>2, BlankIs, Typed, StepHolds
  <2> QED BY <1>0, <1>3, <2>7, <2>8
<1> QED BY <1>0, <1>2, <1>3

\* So are the credentials of old preferences.
LEMMA ScrubPrefsHolds == ASSUME CredentialsInv, NEW p \in Starters, Secrets!ScrubPrefs(p) PROVE CredentialsInv'
<1> DEFINE scrubbed == [prefs EXCEPT !.secrets = Secrets!Nothing]
<1>0. /\ stage[p].at = "prefs" /\ UNCHANGED <<keychain, env, legacy, secrets, kept>>
      /\ \/ prefs' = scrubbed /\ Secrets!Go(p, "legacy") /\ holder' = holder
         \/ (prefs' = scrubbed \/ prefs' = prefs) /\ Secrets!Ends(p)
  BY DEF Secrets!ScrubPrefs, Secrets!Step, Secrets!CanFail
<1>1. stage[p].at \in Held /\ Migrating(p) /\ prefs \in [secrets : Secrets!Found, saved : Nat] /\ secrets \in AFile
  BY <1>0, Typed DEF Held
<1>2. CASE prefs' = prefs /\ Secrets!Ends(p)
  BY <1>0, <1>1, <1>2, FoundStays, Typed, EndHolds
<1>3. CASE prefs' = scrubbed
  <2>1. prefs'.secrets = Secrets!Nothing /\ prefs' \in [secrets : Secrets!Found, saved : Nat]
    BY <1>1, <1>3, BlankIs
  <2>2. UNCHANGED <<Secrets!LegacyFile, Secrets!Blank, Secrets!Nothing>>
    BY <1>0 DEF Secrets!LegacyFile, Secrets!Nothing, Secrets!Blank
  <2>3. \A f \in Fields : prefs'.secrets.fields[f] = ""
    BY <2>1, BlankIs
  <2>4. \A f \in Fields : Secrets!Loaded'.fields[f] = Secrets!Loaded.fields[f]
    BY <1>0, <2>2, <2>3, CopiesAreBlank, LoadedIsNext
  <2>9. Secrets!Loaded'.entry = Secrets!Loaded.entry
    BY <1>0, CopiesAreBlank, EntryIs
  <2>5. UNCHANGED Secrets!Encrypted
    BY <1>0 DEF Secrets!Encrypted
  <2>6. Findable'
    BY <1>0, <2>1, <2>2, <2>4, <2>5, <2>9, BlankIs, StillFound DEF CredentialsInv, Findable, Home
  <2>7. CASE Secrets!Ends(p)
    BY <1>0, <1>1, <2>1, <2>6, <2>7, Typed, EndHolds
  <2>8. CASE Secrets!Go(p, "legacy") /\ holder' = holder
    <3>1. /\ Moved(p, "legacy") \in AProcess /\ stage' = [stage EXCEPT ![p] = Moved(p, "legacy")]
          /\ stage'[p].at = "legacy" /\ stage'[p].key = stage[p].key
          /\ stage'[p].value = stage[p].value /\ stage'[p].update = stage[p].update
      BY <2>8, Going DEF Held
    <3>2. /\ UNCHANGED <<keychain, env, legacy, secrets, kept>> /\ secrets.values = stage[p].value
          /\ \A f \in Fields : stage[p].value.fields[f] = "" => env[f] = "" /\ Secrets!LegacyFile.fields[f] = ""
      BY <1>0, CopiesAreBlank
    <3> HIDE DEF scrubbed
    <3>3. Migrating(p)'
      BY <1>0, <1>1, <2>1, <2>2, <2>3, <2>8, <3>1, <3>2 DEF Migrating, Held
    <3> QED BY <1>0, <1>1, <2>1, <2>6, <2>8, <3>1, <3>3, Typed, StepHolds
  <2> QED BY <1>0, <1>3, <2>7, <2>8
<1> QED BY <1>0, <1>2, <1>3

\* And those of the old file.
LEMMA RemoveLegacyHolds == ASSUME CredentialsInv, NEW p \in Starters, Secrets!RemoveLegacy(p) PROVE CredentialsInv'
<1>0. /\ stage[p].at = "legacy" /\ UNCHANGED <<keychain, env, prefs, secrets, kept>>
      /\ \/ legacy' = None /\ Secrets!Go(p, "up") /\ holder' = holder
         \/ (legacy' = None \/ legacy' = legacy) /\ Secrets!Ends(p)
  BY DEF Secrets!RemoveLegacy, Secrets!Step, Secrets!CanFail
<1>1. stage[p].at \in Held /\ Migrating(p) /\ legacy \in Secrets!Found \cup {None} /\ secrets \in AFile
  BY <1>0, Typed DEF Held
<1>2. CASE legacy' = legacy /\ Secrets!Ends(p)
  BY <1>0, <1>1, <1>2, FoundStays, Typed, EndHolds
<1>3. CASE legacy' = None
  <2>2. UNCHANGED <<Secrets!Blank, Secrets!Nothing>> /\ Secrets!LegacyFile' = Secrets!Nothing
    BY <1>3 DEF Secrets!LegacyFile, Secrets!Nothing, Secrets!Blank
  <2>3. \A f \in Fields : Secrets!LegacyFile'.fields[f] = ""
    BY <2>2, BlankIs
  <2>4. \A f \in Fields : Secrets!Loaded'.fields[f] = Secrets!Loaded.fields[f]
    BY <1>0, <2>3, CopiesAreBlank, LoadedIsNext
  <2>9. Secrets!Loaded'.entry = Secrets!Loaded.entry
    BY <1>0, CopiesAreBlank, EntryIs
  <2>5. UNCHANGED Secrets!Encrypted
    BY <1>0 DEF Secrets!Encrypted
  <2>6. Findable'
    BY <1>0, <2>2, <2>4, <2>5, <2>9, BlankIs, StillFound DEF CredentialsInv, Findable, Home
  <2>7. CASE Secrets!Ends(p)
    BY <1>0, <1>1, <1>3, <2>6, <2>7, Typed, EndHolds
  <2>8. CASE Secrets!Go(p, "up") /\ holder' = holder
    <3>1. /\ Moved(p, "up") \in AProcess /\ stage' = [stage EXCEPT ![p] = Moved(p, "up")]
          /\ stage'[p].at = "up" /\ stage'[p].key = stage[p].key
          /\ stage'[p].value = stage[p].value /\ stage'[p].update = stage[p].update
      BY <2>8, Going DEF Held
    <3>2. /\ stage[p].value.entry \in kept.entries
          /\ \A f \in Fields : stage[p].value.fields[f] \in kept.fields[f]
      BY <1>0, CopiesAreBlank DEF CredentialsInv, Findable
    <3>3. Migrating(p)'
      BY <1>0, <1>1, <1>3, <2>2, <2>8, <3>1, <3>2 DEF Migrating, Held
    <3> QED BY <1>0, <1>1, <1>3, <2>6, <2>8, <3>1, <3>3, Typed, StepHolds
  <2> QED BY <1>0, <1>3, <2>7, <2>8
<1> QED BY <1>0, <1>2, <1>3

-----------------------------------------------------------------------------
\* The updates of a process that is up.
LEMMA BeginHolds ==
    ASSUME CredentialsInv, NEW p \in Starters, NEW u \in Secrets!Stored, Current(u.entry), Secrets!Begin(p, u),
           kept' \in Keepable,
           Grown(kept, kept'), u.entry \in kept'.entries, \A f \in Fields : u.fields[f] \in kept'.fields[f]
    PROVE  CredentialsInv'
<1>1. stage[p].at = "up" /\ Migrating(p) /\ stage \in [Starters -> AProcess] /\ stage[p] \in AProcess
  BY Typed DEF Secrets!Begin
<1> DEFINE r == [stage[p] EXCEPT !.at = "saving", !.update = u]
<1>2. stage' = [stage EXCEPT ![p] = r] /\ UNCHANGED <<keychain, env, prefs, legacy, secrets, holder>>
  BY <1>1 DEF Secrets!Begin, Secrets!disk
<1>3. r \in AProcess /\ r.at = "saving" /\ r.key = stage[p].key /\ r.value = stage[p].value /\ r.update = u
  BY <1>1 DEF AProcess, Held
<1>4. stage'[p] = r
  BY <1>1, <1>2
<1>5. UNCHANGED <<Secrets!Blank, Secrets!Nothing>>
  BY DEF Secrets!Nothing, Secrets!Blank
<1> HIDE DEF r
<1>6. Migrating(p)'
  BY <1>1, <1>2, <1>3, <1>4, <1>5 DEF Migrating, Held, Grown
<1>7. Findable'
  BY <1>2, FoundStays
<1> QED BY <1>2, <1>3, <1>6, <1>7, Typed, StepHolds

\* An entered field is one that the next start may find.
LEMMA EnterHolds ==
    ASSUME CredentialsInv, NEW p \in Starters, NEW f \in Fields, NEW v \in Updates, Secrets!Enter(p, f, v)
    PROVE  CredentialsInv'
<1> DEFINE u == [stage[p].value EXCEPT !.fields[f] = v]
<1>1. /\ stage[p].at = "up" /\ Migrating(p) /\ stage[p].value \in Secrets!Stored /\ kept \in Keepable
      /\ Secrets!Begin(p, u) /\ kept' = [kept EXCEPT !.fields[f] = @ \cup {v}]
  BY Typed DEF Secrets!Enter, Secrets!Begin, AProcess
<1>2. v \in Secrets!Values
  BY DEF Secrets!Values
<1>3. u.entry = stage[p].value.entry /\ u.fields = [stage[p].value.fields EXCEPT ![f] = v]
  BY <1>1 DEF Secrets!Stored
<1>4. u \in Secrets!Stored
  <2>1. stage[p].value.fields \in Secrets!Secrets /\ stage[p].value.entry \in Secrets!Entries
    BY <1>1 DEF Secrets!Stored
  <2>2. [stage[p].value.fields EXCEPT ![f] = v] \in Secrets!Secrets
    BY <1>2, <2>1 DEF Secrets!Secrets
  <2>3. u = [stage[p].value EXCEPT !.fields = [stage[p].value.fields EXCEPT ![f] = v]]
    BY <1>1 DEF Secrets!Stored
  <2> QED BY <1>1, <2>2, <2>3 DEF Secrets!Stored
<1>5. /\ kept' \in Keepable /\ Grown(kept, kept') /\ kept'.entries = kept.entries
      /\ \A g \in Fields : kept'.fields[g] = IF g = f THEN kept.fields[g] \cup {v} ELSE kept.fields[g]
  <2> DEFINE new == [kept.fields EXCEPT ![f] = @ \cup {v}]
  <2>1. /\ kept.fields \in [Fields -> SUBSET Secrets!Values] /\ kept.entries \in SUBSET Secrets!Entries
        /\ kept' = [kept EXCEPT !.fields = new] /\ kept = [fields |-> kept.fields, entries |-> kept.entries]
    BY <1>1 DEF Keepable
  <2>2. new \in [Fields -> SUBSET Secrets!Values] /\ \A g \in Fields : new[g] = IF g = f THEN kept.fields[g] \cup {v} ELSE kept.fields[g]
    BY <1>2, <2>1
  <2> HIDE DEF new
  <2>3. kept' = [fields |-> new, entries |-> kept.entries]
    BY <2>1
  <2> QED BY <2>1, <2>2, <2>3 DEF Keepable, Grown
<1>6. ASSUME NEW g \in Fields PROVE u.fields[g] \in kept'.fields[g]
  <2>1. stage[p].value.fields[g] \in kept.fields[g] /\ stage[p].value.fields \in [Fields -> Secrets!Values]
    BY <1>1 DEF Migrating, Secrets!Stored, Secrets!Secrets
  <2> HIDE DEF u
  <2> QED BY <1>1, <1>3, <1>5, <2>1
<1>7. Current(u.entry) /\ u.entry \in kept'.entries
  BY <1>1, <1>3, <1>5 DEF Migrating
<1> HIDE DEF u
<1> QED BY <1>1, <1>4, <1>5, <1>6, <1>7, BeginHolds

\* A key that is kept stays with its endpoint.
LEMMA EnterProviderHolds ==
    ASSUME CredentialsInv, NEW p \in Starters, NEW e \in Endpoints, NEW k \in Endpoints \cup {None}, Secrets!EnterProvider(p, e, k)
    PROVE  CredentialsInv'
<1> DEFINE old == stage[p].value.entry
           list == {Secrets!Entered(old, e, k), Secrets!NoEntry}
<1>1. /\ stage[p].at = "up" /\ Migrating(p) /\ stage[p].value \in Secrets!Stored /\ kept \in Keepable /\ k \in {e, None}
      /\ \E new \in list : /\ Secrets!Begin(p, [stage[p].value EXCEPT !.entry = new])
                           /\ kept' = [kept EXCEPT !.entries = @ \cup {new}]
  BY Typed DEF Secrets!EnterProvider, Secrets!Begin, AProcess
<1>2. old \in Secrets!Entries /\ Current(old)
  BY <1>1 DEF Migrating, Secrets!Stored
<1>3. PICK new \in list : /\ Secrets!Begin(p, [stage[p].value EXCEPT !.entry = new])
                          /\ kept' = [kept EXCEPT !.entries = @ \cup {new}]
  BY <1>1
<1>4. new \in Secrets!Entries /\ Current(new)
  <2>1. Secrets!NoEntry \in Secrets!Entries /\ Current(Secrets!NoEntry)
    BY RetiredAssumption DEF Secrets!NoEntry, Secrets!Entries, Secrets!Known, Current, Home
  <2>2. Secrets!Entered(old, e, k) \in Secrets!Entries /\ Current(Secrets!Entered(old, e, k))
    BY <1>1, <1>2, RetiredAssumption, EntriesAssumption DEF Secrets!Entered, Secrets!Entries, Secrets!Known, Current, Home
  <2> QED BY <2>1, <2>2
<1> DEFINE u == [stage[p].value EXCEPT !.entry = new]
<1> HIDE DEF old, list
<1>5. u \in Secrets!Stored /\ u.entry = new /\ u.fields = stage[p].value.fields
  BY <1>1, <1>4 DEF Secrets!Stored
<1>6. kept' \in Keepable /\ Grown(kept, kept') /\ new \in kept'.entries /\ kept'.fields = kept.fields
  BY <1>1, <1>3, <1>4 DEF Keepable, Grown
<1>7. \A f \in Fields : u.fields[f] \in kept'.fields[f]
  BY <1>1, <1>5, <1>6 DEF Migrating
<1>8. Secrets!Begin(p, u)
  BY <1>3
<1> HIDE DEF u
<1> QED BY <1>4, <1>5, <1>6, <1>7, <1>8, BeginHolds

\* The vault of a process that is up is all that is left to find.
LEMMA OnlyTheVault ==
    ASSUME CredentialsInv, NEW p \in Starters, stage[p].at \in {"up", "saving"}, UNCHANGED <<env, prefs, legacy>>
    PROVE  /\ \A f \in Fields : Secrets!Loaded'.fields[f] = secrets'.values.fields[f]
           /\ prefs'.secrets.entry = None /\ Secrets!LegacyFile'.entry = None
<1>1. env = Secrets!Blank.fields /\ prefs.secrets = Secrets!Nothing /\ legacy = None
  BY Typed DEF Migrating
<1>2. Secrets!LegacyFile' = Secrets!Nothing
  BY <1>1 DEF Secrets!LegacyFile, Secrets!Nothing, Secrets!Blank
<1>3. \A f \in Fields : Secrets!LegacyFile'.fields[f] = "" /\ prefs'.secrets.fields[f] = "" /\ env'[f] = ""
  BY <1>1, <1>2, BlankIs
<1> QED BY <1>1, <1>2, <1>3, BlankIs, LoadedIsNext

\* What an entered value makes of what is found.
LEMMA SavedIsFound ==
    ASSUME CredentialsInv, NEW p \in Starters, stage[p].at = "saving", NEW u \in Secrets!Stored, Current(u.entry),
           UNCHANGED <<keychain, env, prefs, legacy>>, Secrets!InVault(p, u),
           u.entry \in kept'.entries, \A f \in Fields : u.fields[f] \in kept'.fields[f]
    PROVE  secrets' \in AFile /\ Findable'
<1>1. u \in Secrets!Found /\ u.entry # None /\ stage[p].at \in Held
  BY BlankIs, EntriesAssumption DEF Secrets!Stored, Held
<1>2. /\ secrets' \in AFile /\ secrets'.values = u /\ secrets'.format = "current"
      /\ secrets'.key = keychain /\ keychain # None
  BY <1>1, Written
<1>3. Secrets!Loaded'.entry = u.entry
  BY <1>1, <1>2, EntryIs
<1>4. /\ \A f \in Fields : Secrets!Loaded'.fields[f] = u.fields[f]
      /\ prefs'.secrets.entry = None /\ Secrets!LegacyFile'.entry = None
  BY <1>2, OnlyTheVault
<1> QED BY <1>2, <1>3, <1>4 DEF Findable, Current, Home

\* After an answered save the next start finds the entered value, and no other.
LEMMA SaveHolds == ASSUME CredentialsInv, NEW p \in Starters, Secrets!Save(p) PROVE CredentialsInv'
<1> DEFINE u == stage[p].update
           r == [stage[p] EXCEPT !.at = "up", !.value = u, !.update = Secrets!Blank]
<1>1. /\ stage[p].at = "saving" /\ Migrating(p) /\ stage \in [Starters -> AProcess] /\ stage[p] \in AProcess
      /\ Secrets!InVault(p, u) /\ stage' = [stage EXCEPT ![p] = r] /\ UNCHANGED <<keychain, env, prefs, legacy, holder>>
      /\ kept' = [fields |-> [f \in Fields |-> IF u.fields[f] # stage[p].value.fields[f] THEN {u.fields[f]}
                                               ELSE kept.fields[f]],
                  entries |-> IF u.entry # stage[p].value.entry THEN {u.entry} ELSE kept.entries]
      /\ kept \in Keepable
  BY Typed DEF Secrets!Save
<1>2. u \in Secrets!Stored /\ Current(u.entry) /\ stage[p].at \in Held
  BY <1>1 DEF AProcess, Migrating, Held
<1>3. r \in AProcess /\ r.at = "up" /\ r.key = stage[p].key /\ r.value = u /\ r.update = Secrets!Blank
  BY <1>1, <1>2, BlankIs DEF AProcess, Held
<1>4. stage'[p] = r
  BY <1>1, <1>3
<1>5. /\ u.entry \in kept.entries /\ u.entry \in Secrets!Entries
      /\ \A f \in Fields : u.fields[f] \in kept.fields[f] /\ u.fields[f] \in Secrets!Values
  BY <1>1, <1>2 DEF Migrating, Secrets!Stored, Secrets!Secrets
<1> HIDE DEF r, u
<1>6. kept' \in Keepable /\ u.entry \in kept'.entries /\ \A f \in Fields : u.fields[f] \in kept'.fields[f]
  <2> DEFINE a == [f \in Fields |-> IF u.fields[f] # stage[p].value.fields[f] THEN {u.fields[f]} ELSE kept.fields[f]]
             b == IF u.entry # stage[p].value.entry THEN {u.entry} ELSE kept.entries
  <2>1. a \in [Fields -> SUBSET Secrets!Values] /\ \A f \in Fields : u.fields[f] \in a[f]
    BY <1>1, <1>5 DEF Keepable
  <2>2. b \in SUBSET Secrets!Entries /\ u.entry \in b
    BY <1>1, <1>5 DEF Keepable
  <2>3. kept' = [fields |-> a, entries |-> b]
    BY <1>1
  <2> HIDE DEF a, b
  <2> QED BY <2>1, <2>2, <2>3 DEF Keepable
<1>7. secrets' \in AFile /\ Findable'
  BY <1>1, <1>2, <1>6, SavedIsFound
<1>8. UNCHANGED <<Secrets!Blank, Secrets!Nothing>>
  BY DEF Secrets!Nothing, Secrets!Blank
<1>9. Migrating(p)'
  BY <1>1, <1>2, <1>3, <1>4, <1>6, <1>8, BlankIs DEF Migrating, Held
<1> QED BY <1>1, <1>2, <1>3, <1>6, <1>7, <1>9, Typed, StepHolds

\* After a failed save it finds one of the two.
LEMMA SaveFailsHolds == ASSUME CredentialsInv, NEW p \in Starters, Secrets!SaveFails(p) PROVE CredentialsInv'
<1> DEFINE u == stage[p].update
           r == [stage[p] EXCEPT !.at = "up", !.update = Secrets!Blank]
<1>1. /\ stage[p].at = "saving" /\ Migrating(p) /\ stage \in [Starters -> AProcess] /\ stage[p] \in AProcess
      /\ Secrets!InVault(p, u) \/ secrets' = secrets
      /\ stage' = [stage EXCEPT ![p] = r] /\ UNCHANGED <<keychain, env, prefs, legacy, holder, kept>>
  BY Typed DEF Secrets!SaveFails
<1>2. u \in Secrets!Stored /\ Current(u.entry) /\ stage[p].at \in Held
  BY <1>1 DEF AProcess, Migrating, Held
<1>3. r \in AProcess /\ r.at = "up" /\ r.key = stage[p].key /\ r.value = stage[p].value /\ r.update = Secrets!Blank
  BY <1>1, BlankIs DEF AProcess, Held
<1>4. stage'[p] = r
  BY <1>1, <1>3
<1> HIDE DEF r
<1>5. UNCHANGED <<Secrets!Blank, Secrets!Nothing>>
  BY DEF Secrets!Nothing, Secrets!Blank
<1>6. Migrating(p)'
  BY <1>1, <1>3, <1>4, <1>5, BlankIs DEF Migrating, Held
<1>7. secrets' \in AFile /\ Findable'
  <2>1. CASE Secrets!InVault(p, u)
    BY <1>1, <1>2, <2>1, SavedIsFound DEF Migrating
  <2>2. CASE secrets' = secrets
    BY <1>1, <2>2, FoundStays, Typed
  <2> QED BY <1>1, <2>1, <2>2
<1> QED BY <1>1, <1>2, <1>3, <1>6, <1>7, Typed, StepHolds

\* The preferences have no credentials any more when they are written.
LEMMA SavePreferencesHolds == ASSUME CredentialsInv, NEW p \in Starters, Secrets!SavePreferences(p) PROVE CredentialsInv'
<1>1. /\ stage[p].at = "up" /\ Migrating(p) /\ stage \in [Starters -> AProcess] /\ stage[p] \in AProcess
      /\ prefs' = [secrets |-> Secrets!Nothing, saved |-> 1]
      /\ UNCHANGED <<keychain, env, legacy, secrets, holder, stage, kept>>
  BY Typed DEF Secrets!SavePreferences
<1>2. prefs' \in [secrets : Secrets!Found, saved : Nat] /\ prefs'.secrets = Secrets!Nothing
  BY <1>1, BlankIs
<1>3. prefs'.secrets = prefs.secrets /\ stage[p].at \in Held
  BY <1>1, <1>2 DEF Migrating, Held
<1>4. UNCHANGED <<Secrets!Loaded, Secrets!LegacyFile, Secrets!Blank, Secrets!Nothing, Secrets!Encrypted>>
  BY <1>1, <1>3 DEF Secrets!Loaded, Secrets!LegacyFile, Secrets!Nothing, Secrets!Blank, Secrets!Encrypted
<1>6. Findable'
  BY <1>1, <1>3, <1>4 DEF CredentialsInv, Findable
<1>7. Migrating(p)'
  BY <1>1, <1>2, <1>4 DEF Migrating, Held
<1>8. stage' = [stage EXCEPT ![p] = stage[p]]
  BY <1>1
<1> QED BY <1>1, <1>2, <1>3, <1>6, <1>7, <1>8, Typed, StepHolds

\* A process may die at any stage.
LEMMA CrashHolds == ASSUME CredentialsInv, NEW p \in Starters, Secrets!Crash(p) PROVE CredentialsInv'
<1>1. Secrets!Ends(p) /\ UNCHANGED <<keychain, env, prefs, legacy, secrets, kept>>
  BY DEF Secrets!Crash, Secrets!disk
<1> QED BY <1>1, FoundStays, Typed, EndHolds

\* Every step keeps the invariant of the credentials.
LEMMA CredentialsStep == ASSUME CredentialsInv, ~Replaces, Secrets!Next PROVE CredentialsInv'
<1>1. PICK p \in Starters : Secrets!Key(p) \/ Secrets!Migrate(p) \/ Secrets!Update(p) \/ Secrets!Crash(p)
  BY DEF Secrets!Next
<1>2. CASE Secrets!Key(p)
  BY <1>2, KeyHolds
<1>3. CASE Secrets!Migrate(p)
  BY <1>3, LoadHolds, RewriteHolds, PersistHolds, ScrubEnvHolds, ScrubPrefsHolds, RemoveLegacyHolds DEF Secrets!Migrate
<1>4. CASE Secrets!Update(p)
  BY <1>4, EnterHolds, EnterProviderHolds, SaveHolds, SaveFailsHolds, SavePreferencesHolds DEF Secrets!Update
<1>5. CASE Secrets!Crash(p)
  BY <1>5, CrashHolds
<1> QED BY <1>1, <1>2, <1>3, <1>4, <1>5

\* What the invariant says of the credentials.
LEMMA CredentialsMeans ==
    CredentialsInv => /\ Secrets!TypeOK /\ Secrets!CredentialsKept /\ Secrets!KeysStayHome
                      /\ Secrets!NoPlaintextLeft /\ Secrets!KeyOfTheVaultKept
<1> SUFFICES ASSUME CredentialsInv
             PROVE  /\ Secrets!TypeOK /\ Secrets!CredentialsKept /\ Secrets!KeysStayHome
                    /\ Secrets!NoPlaintextLeft /\ Secrets!KeyOfTheVaultKept
  OBVIOUS
<1>1. Secrets!TypeOK
  BY DEF CredentialsInv, CredentialsShape, Secrets!TypeOK, SKey, AFile, AProcess, Held
<1>2. Secrets!CredentialsKept /\ Secrets!KeyOfTheVaultKept
  BY DEF CredentialsInv, Findable, Secrets!CredentialsKept, Secrets!KeyOfTheVaultKept, Secrets!Readable, Secrets!Encrypted
<1>3. Secrets!KeysStayHome
  BY DEF CredentialsInv, Findable, Home, Secrets!KeysStayHome
<1>4. Secrets!NoPlaintextLeft
  BY BlankIs DEF CredentialsInv, Migrating, Secrets!NoPlaintextLeft
<1> QED BY <1>1, <1>2, <1>3, <1>4

-----------------------------------------------------------------------------
\* The invariant of the credentials in every reachable state.
LEMMA CredentialsHold == ASSUME ~Replaces PROVE FilesSpec => [](subject = "credentials" => CredentialsInv)
<1> DEFINE Inv == subject = "credentials" => CredentialsInv
<1>1. FilesInit => Inv
  BY CredentialsStart DEF FilesInit
<1>2. Inv /\ [FilesNext]_allVars => Inv'
  <2> SUFFICES ASSUME Inv, [FilesNext]_allVars, subject' = "credentials" PROVE CredentialsInv'
    OBVIOUS
  <2>1. subject = "credentials" /\ CredentialsInv
    BY DEF FilesNext, allVars
  <2>2. CASE UNCHANGED credentials
    <3>1. UNCHANGED <<keychain, env, prefs, legacy, secrets, holder, stage, kept>>
      BY <2>2 DEF credentials
    <3>2. UNCHANGED <<Secrets!Loaded, Secrets!LegacyFile, Secrets!Blank, Secrets!Nothing, Secrets!Encrypted>>
      BY <3>1 DEF Secrets!Loaded, Secrets!LegacyFile, Secrets!Nothing, Secrets!Blank, Secrets!Encrypted
    <3>3. CredentialsShape' /\ Findable'
      BY <2>1, <3>1, <3>2 DEF CredentialsInv, CredentialsShape, Findable
    <3>4. ASSUME NEW p \in Starters PROVE Migrating(p)'
      BY <2>1, <3>1, <3>2 DEF CredentialsInv, Migrating
    <3> QED BY <3>3, <3>4 DEF CredentialsInv
  <2>3. CASE Secrets!Next
    BY <2>1, <2>3, CredentialsStep
  <2> QED BY <2>1, <2>2, <2>3 DEF FilesNext, allVars
<1> QED BY <1>1, <1>2, PTL DEF FilesSpec

\* The invariant of the gateway with its log and its credentials.
LEMMA GatewayHolds ==
    ASSUME ~FreshLog, ~ReadFails
    PROVE  FilesSpec => [](subject = "gateway" => GatewayInv /\ LogKept /\ KeysMigrated)
<1> DEFINE Inv == subject = "gateway" => GatewayInv /\ LogKept /\ KeysMigrated
<1>1. FilesInit => Inv
  BY GatewayStart, MigrationStart DEF FilesInit
<1>2. Inv /\ [FilesNext]_allVars => Inv'
  <2> SUFFICES ASSUME Inv, [FilesNext]_allVars, subject' = "gateway" PROVE (GatewayInv /\ LogKept /\ KeysMigrated)'
    OBVIOUS
  <2>1. subject = "gateway" /\ GatewayInv /\ LogKept /\ KeysMigrated
    BY DEF FilesNext, allVars
  <2>2. CASE UNCHANGED gateway
    <3>1. GatewayInv'
      BY <2>1, <2>2 DEF gateway, GatewayInv, GatewayShape, Parsed, StartsAlone, Gateway!OwnIsStopped, Gateway!NothingLeft,
         Gateway!Alive
    <3>2. LogKept'
      BY <2>1, <2>2, LogStays DEF gateway
    <3>3. KeysMigrated'
      BY <2>1, <2>2, FilesStay DEF gateway
    <3> QED BY <3>1, <3>2, <3>3
  <2>3. CASE Gateway!Next
    <3>1. GatewayInv'
      BY <2>1, <2>3, GatewayLog, GatewayProcess, GatewayWork, GatewayLifecycle, GatewaySettings, GatewayMigration
      DEF Gateway!Next
    <3> QED BY <2>1, <2>3, <3>1, LogStep, MigrationStep
  <2> QED BY <2>1, <2>2, <2>3 DEF FilesNext, allVars
<1> QED BY <1>1, <1>2, PTL DEF FilesSpec

\* Whatever fails or dies between the files of a start, of an update or of the
\* gateway's migration, no credential is lost and no key is stored for another
\* endpoint; a process that is up has left no plaintext copy, and no key is in the
\* gateway's log.
THEOREM CredentialsStay ==
    ASSUME ~Replaces, ~FreshLog, ~ReadFails PROVE FilesSpec => []CredentialsAreSafe
<1>1. /\ subject = "credentials" => CredentialsInv
      /\ subject = "gateway" => GatewayInv /\ LogKept /\ KeysMigrated
      => CredentialsAreSafe
  BY CredentialsMeans DEF CredentialsAreSafe, LogKept, KeysMigrated, Gateway!LogIsRedacted
<1> QED BY <1>1, CredentialsHold, GatewayHolds, PTL

\* The vault's key is the stored one wherever storing a key does not replace another.
THEOREM KeyStays == ASSUME ~Replaces PROVE FilesSpec => []KeyOfTheVaultKept
<1>1. (subject = "credentials" => CredentialsInv) => KeyOfTheVaultKept
  BY CredentialsMeans DEF KeyOfTheVaultKept
<1> QED BY <1>1, CredentialsHold, PTL
=============================================================================
