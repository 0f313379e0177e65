-------------------------- MODULE TaskStoreUpgrade --------------------------
(***************************************************************************)
(* How the task database of task_store.py is made safe: the retirement of  *)
(* the private-chat bearers at the start, the encryption of remote reply   *)
(* routes, the redaction of credentials (by shape and by exact value)      *)
(* before every save and load, the markers that say what has been done and *)
(* the triggers that delete a marker when a row is written.                *)
(*                                                                         *)
(* Every action is one SQLite transaction or one physical rewrite, so that *)
(* the process may die between any two and another program (an older       *)
(* binary, raw SQL; external) may write between any two.  A payload is the *)
(* set of sensitive things it spells out; "sealed" is an encrypted route,  *)
(* "alien" one that another user's key sealed, "torn" a payload that is    *)
(* not JSON.  What a private-chat row keeps in its own columns and in its  *)
(* payload is one thing here: both are cleared in the same transaction.    *)
(***************************************************************************)
EXTENDS Naturals, FiniteSets

CONSTANTS
    Rows,      \* task ids
    Keys,      \* credential values the user may configure
    Readers,   \* another program may hold the WAL while this one compacts
    MaxWrites, \* writes of other programs (model checking only)
    MaxSaves   \* saves of this one (model checking only)

VARIABLES
    rows,       \* tasks: what each payload spells out
    residue,    \* what the database files spell out outside the live rows
    markers,    \* security_migrations
    store,      \* the TaskStore object and the step it is at
    configured, \* the values configured_secret_values returns
    prepared,   \* _PreparedTaskWrite: payloads waiting for their write
    writes, saves,
    foreign     \* history: another program wrote while this one was up

disk == <<rows, residue, markers>>
bounds == <<writes, saves>>
vars == <<disk, store, configured, prepared, bounds, foreign>>

Plain == {"bearer", "route", "shape"} \cup Keys
Sealed == {"sealed", "alien"}
Payloads == SUBSET (Plain \cup Sealed \cup {"torn"})
Off == [at |-> "down", call |-> "none", bearers |-> FALSE, values |-> {}, checked |-> FALSE]

TypeOK ==
    /\ rows \in [Rows -> Payloads] /\ residue \in SUBSET Plain
    /\ markers \in [retired : {"", "pending", "completed"}, route : BOOLEAN, generic : BOOLEAN,
                    exact : {"", "earlier", "now"}]
    /\ store.at \in {"down", "made", "up", "retired", "verify", "complete", "routes", "routes-vacuum",
                     "routes-mark", "generic", "generic-vacuum", "exact", "exact-vacuum", "write"}
    /\ store.call \in {"none", "initialize", "redactor", "save", "load"}
    /\ store.values \subseteq Keys /\ configured \subseteq Keys
    /\ prepared \in SUBSET (Rows \X Payloads)

\* A database of any older version.
Init ==
    /\ rows \in [Rows -> {{}, {"bearer", "shape"}, {"route", "shape"}, {"route", "bearer"} \cup Keys,
                          {"torn", "shape"}, {"torn", "route"}, {"sealed"}, {"alien"}}]
    /\ residue \in {{}, {"bearer", "route"}}
    /\ markers = [retired |-> "", route |-> FALSE, generic |-> FALSE, exact |-> ""]
    /\ store = Off /\ configured = {} /\ prepared = {}
    /\ writes = 0 /\ saves = 0 /\ foreign = FALSE

-----------------------------------------------------------------------------
(* Rows, triggers and markers.                                             *)

Json(p) == "torn" \notin p
FaultTouched(m) == [m EXCEPT !.generic = FALSE, !.exact = ""]
\* An INSERT, or an UPDATE of a payload: the triggers delete three markers.
Touched(m) == [m EXCEPT !.route = FALSE, !.generic = FALSE, !.exact = ""]

\* Replacing the rows of `changed`: what they no longer spell out stays in the files.
Rewrite(new, marks) ==
    /\ rows' = new
    /\ residue' = residue \cup ((UNION {rows[r] \ new[r] : r \in Rows}) \cap Plain)
    /\ markers' = marks

Restored(m) ==
    [m EXCEPT !.route = TRUE, !.generic = TRUE,
              !.exact = IF store.checked THEN "now" ELSE @]

\* wal_checkpoint and VACUUM; a reader keeps old frames of the WAL in place.
Compacted == /\ \/ residue' = {}
                \/ Readers /\ residue' = residue
             /\ UNCHANGED <<rows, markers>>

At(step) == store' = [store EXCEPT !.at = step]
\* An exception of a start ends it; one of a save or a load goes to its caller.
Raises == /\ store' = IF store.call \in {"initialize", "redactor"} THEN Off
                      ELSE [store EXCEPT !.at = "up", !.call = "none"]
          /\ prepared' = IF store.call = "load" THEN prepared ELSE {}
          /\ UNCHANGED disk
Same == UNCHANGED <<configured, bounds, foreign>>

-----------------------------------------------------------------------------
(* _initialize: the retirement of the bearers.                             *)

Retire(p) == IF Json(p) THEN p \ {"bearer"} ELSE p

Start ==
    /\ store.at = "down"
    /\ IF markers.retired = "completed"
       THEN /\ store' = [Off EXCEPT !.at = "routes", !.call = "initialize"]
            /\ UNCHANGED disk
       ELSE LET new == [r \in Rows |-> Retire(rows[r])]
                before == IF new = rows THEN markers ELSE Touched(markers)
            IN /\ Rewrite(new, [before EXCEPT !.retired = "pending"])
               /\ store' = [Off EXCEPT !.at = "retired", !.call = "initialize",
                                       !.bearers = new # rows]
    /\ UNCHANGED prepared /\ Same

RetiredVacuum == /\ store.at = "retired" /\ Compacted /\ At("verify")
                 /\ UNCHANGED prepared /\ Same

\* Rows, then the bytes of the bearers this start has read.
Verify ==
    /\ store.at = "verify"
    /\ IF \/ \E r \in Rows : Json(rows[r]) /\ "bearer" \in rows[r]
          \/ store.bearers /\ "bearer" \in residue
       THEN Raises
       ELSE At("complete") /\ UNCHANGED <<prepared, disk>>
    /\ Same

FaultCompletion == "completed"
\* Only a marker that is still pending: a trigger may have deleted it.
Completion == IF markers.retired = "pending" THEN "completed" ELSE markers.retired

Complete ==
    /\ store.at = "complete"
    /\ markers' = [markers EXCEPT !.retired = Completion]
    /\ At("routes")
    /\ UNCHANGED <<rows, residue, prepared>> /\ Same

-----------------------------------------------------------------------------
(* _ensure_remote_routes_encrypted.                                        *)

AfterRoutes == IF store.call = "initialize" THEN "made" ELSE "generic"

\* A row whose route cannot be read, or not be authenticated.
Unsafe(p) == "alien" \in p \/ (~Json(p) /\ "route" \in p)
\* The user's credential store is asked for each route; it may be out of reach.
Protected(p) == Json(p) /\ p \cap {"route", "sealed"} # {}
Exact == IF store.call = "initialize" THEN {} ELSE configured
Encrypted(p) == IF "route" \in p THEN (p \ ({"route", "shape"} \cup Exact)) \cup {"sealed"} ELSE p

Routes ==
    /\ store.at = "routes"
    /\ \/ markers.route /\ At(AfterRoutes) /\ UNCHANGED <<prepared, disk>>
       \/ ~markers.route /\ (\E r \in Rows : Unsafe(rows[r]) \/ Protected(rows[r])) /\ Raises
       \/ /\ ~markers.route /\ \A r \in Rows : ~Unsafe(rows[r])
          /\ LET new == [r \in Rows |-> Encrypted(rows[r])]
             IN IF new = rows THEN At("routes-mark") /\ UNCHANGED disk
                ELSE At("routes-vacuum") /\ Rewrite(new, Touched(markers))
          /\ UNCHANGED prepared
    /\ Same

\* The files are searched for the recipients this pass has migrated.
RoutesVacuum ==
    /\ store.at = "routes-vacuum" /\ Compacted
    /\ IF "route" \in residue'
       THEN /\ store' = IF store.call \in {"initialize", "redactor"} THEN Off
                        ELSE [store EXCEPT !.at = "up", !.call = "none"]
            /\ prepared' = IF store.call = "load" THEN prepared ELSE {}
       ELSE At("routes-mark") /\ UNCHANGED prepared
    /\ Same

RoutesMark ==
    /\ store.at = "routes-mark"
    /\ markers' = [markers EXCEPT !.route = TRUE]
    /\ At(AfterRoutes)
    /\ UNCHANGED <<rows, residue, prepared>> /\ Same

-----------------------------------------------------------------------------
(* _ensure_generic_sanitized and _ensure_exact_sanitized.                  *)

AfterExact == IF store.call \in {"save", "load"} THEN "write" ELSE "up"

\* _rewrite_rows: a payload that is not JSON is left as it is.
Redacted(p, gone) == IF Json(p) THEN p \ gone ELSE p

Generic ==
    /\ store.at = "generic"
    /\ IF markers.generic THEN At("exact") /\ UNCHANGED disk
       ELSE LET new == [r \in Rows |-> Redacted(rows[r], {"shape"})]
            IN /\ Rewrite(new, [markers EXCEPT !.generic = TRUE, !.route = TRUE,
                                               !.exact = IF new = rows THEN @ ELSE ""])
               /\ At(IF new = rows THEN "exact" ELSE "generic-vacuum")
    /\ UNCHANGED prepared /\ Same

GenericVacuum == /\ store.at = "generic-vacuum" /\ Compacted /\ At("exact")
                 /\ UNCHANGED prepared /\ Same

\* _candidate_rows: only rows that spell out a configured value are read.
ExactPass ==
    /\ store.at = "exact"
    /\ IF markers.exact = "now" /\ store.checked /\ store.values = configured
       THEN At(AfterExact) /\ UNCHANGED disk
       ELSE LET new == [r \in Rows |-> IF rows[r] \cap configured = {} THEN rows[r]
                                       ELSE Redacted(rows[r], configured \cup {"shape"})]
            IN /\ Rewrite(new, [markers EXCEPT !.exact = "now", !.route = TRUE,
                                               !.generic = @ /\ new = rows])
               /\ store' = [store EXCEPT !.values = configured, !.checked = TRUE,
                                         !.at = IF new = rows THEN AfterExact ELSE "exact-vacuum"]
    /\ UNCHANGED prepared /\ Same

ExactVacuum == /\ store.at = "exact-vacuum" /\ Compacted /\ At(AfterExact)
               /\ UNCHANGED prepared /\ Same

-----------------------------------------------------------------------------
(* The calls of the program.                                               *)

\* set_persistence_redactor, when the manager has its settings.
SetRedactor == /\ store.at = "made"
               /\ store' = [store EXCEPT !.at = "routes", !.call = "redactor",
                                         !.values = {}, !.checked = FALSE]
               /\ UNCHANGED <<disk, prepared>> /\ Same

\* A payload as _serialize_task leaves it.
Safe(p) == (p \ ({"route", "shape", "bearer"} \cup configured))
           \cup (IF "route" \in p THEN {"sealed"} ELSE {})

\* prepare_save runs on the event loop, the write later in a thread.
Prepare(r, p) ==
    /\ store.at \notin {"down", "made"} /\ store.call \notin {"initialize", "redactor"}
    /\ prepared = {} /\ saves < MaxSaves
    /\ prepared' = {<<r, Safe(p)>>} /\ saves' = saves + 1
    /\ UNCHANGED <<disk, store, configured, writes, foreign>>

Call(what) ==
    /\ store.at = "up" /\ (what = "save" => prepared # {})
    /\ store' = [store EXCEPT !.at = "routes", !.call = what]
    /\ UNCHANGED <<disk, prepared>> /\ Same

\* _write_prepared, and the markers are put back.
Write ==
    /\ store.at = "write" /\ store.call = "save"
    /\ \E w \in prepared : Rewrite([rows EXCEPT ![w[1]] = w[2]], Restored(markers))
    /\ store' = [store EXCEPT !.at = "up", !.call = "none"] /\ prepared' = {}
    /\ Same

\* load_recent: the tasks `active` of an earlier process are marked as interrupted.
Load(active) ==
    /\ store.at = "write" /\ store.call = "load"
    /\ LET Readable(p) == Json(p) /\ p \cap {"route", "alien"} = {}
           new == [r \in Rows |-> IF r \in active /\ Readable(rows[r]) THEN Safe(rows[r]) \cup (rows[r] \cap Sealed)
                                  ELSE rows[r]]
       IN Rewrite(new, Restored(markers))
    /\ store' = [store EXCEPT !.at = "up", !.call = "none"]
    /\ UNCHANGED prepared /\ Same

\* A settings save: the next save or load looks for the new value.
Configure(k) ==
    /\ store.at # "down" /\ k \notin configured
    /\ configured' = configured \cup {k}
    /\ UNCHANGED <<disk, store, prepared, bounds, foreign>>

-----------------------------------------------------------------------------
(* The environment.                                                        *)

Crash == /\ store.at # "down" /\ store' = Off /\ prepared' = {}
         /\ markers' = [markers EXCEPT !.exact = IF @ = "now" THEN "earlier" ELSE @]
         /\ UNCHANGED <<rows, residue>> /\ Same

\* Another program writes a row; the triggers are in the database.
OtherWrites(r, p) ==
    /\ writes < MaxWrites /\ p # rows[r]
    /\ Rewrite([rows EXCEPT ![r] = p],
               [Touched(markers) EXCEPT !.retired = IF "bearer" \in p THEN "" ELSE @])
    /\ writes' = writes + 1 /\ foreign' = (foreign \/ store.at # "down")
    /\ UNCHANGED <<store, configured, prepared, saves>>

-----------------------------------------------------------------------------
Next ==
    \/ Start \/ RetiredVacuum \/ Verify \/ Complete
    \/ Routes \/ RoutesVacuum \/ RoutesMark
    \/ Generic \/ GenericVacuum \/ ExactPass \/ ExactVacuum
    \/ SetRedactor \/ Write \/ Crash
    \/ \E what \in {"save", "load"} : Call(what)
    \/ \E active \in SUBSET Rows : Load(active)
    \/ \E k \in Keys : Configure(k)
    \/ \E r \in Rows, p \in {{"route"}, {"shape"} \cup Keys} : Prepare(r, p)
    \/ \E r \in Rows, p \in {{}, {"bearer"}, {"route", "shape"}} : OtherWrites(r, p)

Spec == Init /\ [][Next]_vars

-----------------------------------------------------------------------------
(* Once the retirement is marked as completed no row that can be read and  *)
(* no other byte of the files spells out a bearer, whenever the process    *)
(* died and whatever other programs wrote before, during and after it.     *)
RetiredIsGone ==
    markers.retired = "completed" =>
        /\ "bearer" \notin residue
        /\ \A r \in Rows : Json(rows[r]) => "bearer" \notin rows[r]

(* A marker that a later start relies on is true: no row has a readable    *)
(* route, no row that can be read has a credential of a known shape, as    *)
(* long as other programs write only while this one is down.               *)
MarkersAreTrue ==
    ~foreign =>
        /\ markers.route => \A r \in Rows : "route" \notin rows[r]
        /\ markers.generic => \A r \in Rows : Json(rows[r]) => "shape" \notin rows[r]

(* Refuted: the same while another program writes.                         *)
MarkersAlwaysTrue ==
    markers.route => \A r \in Rows : "route" \notin rows[r]

(* Refuted: a route is sealed in the rows and gone from the files.         *)
SealedIsGone == markers.route => "route" \notin residue

(* Refuted: a value looked for is in no row that can be read.              *)
ExactIsClean ==
    (~foreign /\ markers.exact = "now" /\ store.checked) =>
        \A r \in Rows : Json(rows[r]) => rows[r] \cap store.values = {}
=============================================================================
