-------------------------- MODULE MediaGeneration ---------------------------
(***************************************************************************)
(* FreeMediaGenerator (media_generation.py): a call tries the free         *)
(* providers one after the other, first those it knows, then those of a    *)
(* live catalog.  Calls share the catalog, what was seen of each Space and *)
(* the cooldown of each provider pool.  The tool calls come one at a time, *)
(* through the lock of ControlFileGuard.call_plugin; what runs beside a    *)
(* call are the settings saves of the user and the provider jobs of calls  *)
(* that were cancelled: a job runs in a worker thread that nobody can      *)
(* cancel.  A call whose egress is in mainland China asks the ModelScope   *)
(* Studios and nobody else.  One kind of media (video or music) is         *)
(* modelled; the image gateway is a Listed model that needs no key.        *)
(***************************************************************************)
EXTENDS Naturals, Sequences, SequencesExt, FiniteSets

CONSTANTS
    Calls,
    Official,   \* the built-in Spaces and Studios, in order
    Listed,     \* models of the live catalog
    Pool,       \* _provider_pool of each model
    Workers,    \* threads of the default executor
    Named,      \* models that a call asks for by name (model checking only)
    MaxChanges, \* settings saves, cancellations, crashes (model checking only)
    None

VARIABLES
    calls,    \* asked and prices in it are history: who was asked or is cooling, the
              \* prices its list was made from; home: egress_country is "CN"
    jobs,     \* provider jobs in worker threads: [call, model, token]
    cooling,  \* _provider_cooldowns: the token whose failure set it, or None
    catalog,  \* _catalog_cache: the price of each listed model, or None
    seen,     \* _space_status_cache and _studio_endpoint_cache
    settings, \* the key and the token now in use
    files,    \* finished and temporary files in the output directory; left: there
              \* is a temporary file that the system refused to remove
    sent,     \* history: listed models a request was sent to, with the price then known
    changes

vars == <<calls, jobs, cooling, catalog, seen, settings, files, sent, changes>>

Known == {Official[i] : i \in 1..Len(Official)}
Models == Known \cup Listed
Studios == {m \in Known : Pool[m] = "modelscope-studio"}
Pools == {Pool[m] : m \in Models}
Catalogs == [Listed -> {"free", "paid", "absent"}]
NoCatalog == [m \in Listed |-> "absent"]
Idle == [at |-> "idle", home |-> FALSE, model |-> None, todo |-> <<>>, tried |-> {}, live |-> FALSE, now |-> None, tmp |-> FALSE,
         prices |-> NoCatalog, asked |-> {}]

TypeOK ==
    /\ \A c \in Calls :
        /\ calls[c].at \in {"idle", "lookup", "next", "check", "job", "stream", "catalog", "failed", "done"}
        /\ calls[c].tried \subseteq Models /\ calls[c].now \in Models \cup {None}
    /\ Cardinality(jobs) <= Workers
    /\ cooling \in [Pools -> Nat \cup {None}] /\ catalog \in Catalogs \cup {None}
    /\ seen \in [Known -> {"unknown", "up", "down"}] /\ settings \in [key : BOOLEAN, token : Nat]
    /\ files \in [finished : SUBSET Calls, temporary : SUBSET Calls, left : BOOLEAN]

Init ==
    /\ calls = [c \in Calls |-> Idle] /\ jobs = {} /\ cooling = [p \in Pools |-> None]
    /\ catalog = None /\ seen = [m \in Known |-> "unknown"]
    /\ settings \in [key : BOOLEAN, token : {0}]
    /\ files = [finished |-> {}, temporary |-> {}, left |-> FALSE] /\ sent = {} /\ changes = 0

Change == changes < MaxChanges /\ changes' = changes + 1
At(c, at) == calls[c].at = at
Go(c, at) == calls' = [calls EXCEPT ![c].at = at]
\* The lock of the control-file guard.
Alone == \A c \in Calls : At(c, "idle")

-----------------------------------------------------------------------------
(* models().                                                               *)

FaultFree(prices) == {m \in Listed : prices[m] # "absent"}
\* _is_free_tier_model: only a model with an explicit price of zero.
Free(prices) == {m \in Listed : prices[m] = "free"}
Offered(prices) == Official \o SetToSeq(Free(prices))

\* With refresh a new catalog is fetched; without one only Official is offered,
\* and the cache keeps what it had.
Fetch(c, prices) ==
    /\ calls[c].at \in {"lookup", "catalog"}
    /\ \/ catalog' = prices
       \/ prices = NoCatalog /\ UNCHANGED catalog
    /\ LET offered == Offered(prices)
           found == {i \in 1..Len(offered) : offered[i] = calls[c].model}
       IN calls' = [calls EXCEPT ![c] =
            IF @.at = "catalog" THEN [@ EXCEPT !.at = "next", !.todo = offered, !.prices = prices]
            ELSE IF found = {} THEN [@ EXCEPT !.at = "failed"]
            ELSE [@ EXCEPT !.at = "next", !.todo = <<calls[c].model>>, !.prices = prices]]
    /\ UNCHANGED <<jobs, cooling, seen, settings, files, sent, changes>>

-----------------------------------------------------------------------------
(* generate() and try_candidates.                                          *)

\* The models whose names are known without the catalog; there is one Studio of a kind.
Candidates(home) == IF home THEN SetToSeq(Studios) ELSE Official

\* In mainland China a name that is not a Studio's is not looked up.
Generate(c, model, home) ==
    /\ Alone
    /\ LET known == {i \in 1..Len(Candidates(home)) : Candidates(home)[i] = model} IN
       calls' = [calls EXCEPT ![c] = [Idle EXCEPT !.model = model, !.home = home,
            !.at = IF model = None \/ known # {} THEN "next" ELSE IF home THEN "failed" ELSE "lookup",
            !.todo = IF model = None THEN Candidates(home) ELSE IF known # {} THEN <<model>> ELSE <<>>]]
    /\ UNCHANGED <<jobs, cooling, catalog, seen, settings, files, sent, changes>>

FaultTried(call, m) == {x \in Models : Pool[x] = Pool[m]} \cup call.tried
Tried(call, m) == call.tried \cup {m}

\* A pool that cools down is skipped, but not for a model asked for by name.
Candidate(c) ==
    /\ At(c, "next") /\ calls[c].todo # <<>>
    /\ LET m == Head(calls[c].todo)
           call == [calls[c] EXCEPT !.todo = Tail(@), !.tried = Tried(calls[c], m),
                                    !.asked = IF m \in calls[c].tried THEN @ ELSE @ \cup {m}]
           skip == m \in calls[c].tried \/ (call.model = None /\ cooling[Pool[m]] # None)
       IN IF skip
          THEN calls' = [calls EXCEPT ![c] = call] /\ UNCHANGED <<files, sent>>
          ELSE IF m \in Known
          THEN calls' = [calls EXCEPT ![c] = [call EXCEPT !.now = m, !.at = "check"]] /\ UNCHANGED <<files, sent>>
          ELSE IF ~settings.key
          THEN /\ calls' = [calls EXCEPT ![c] = IF call.model = None THEN call ELSE [call EXCEPT !.at = "failed"]]
               /\ UNCHANGED <<files, sent>>
          ELSE /\ calls' = [calls EXCEPT ![c] = [call EXCEPT !.now = m, !.at = "stream", !.tmp = TRUE]]
               /\ files' = [files EXCEPT !.temporary = @ \cup {c}]
               /\ sent' = sent \cup {[model |-> m, price |-> call.prices[m]]}
    /\ UNCHANGED <<jobs, cooling, catalog, seen, settings, changes>>

\* The live catalog is asked once, and never for a named model or in mainland China.
FaultMayList(call) == call.model = None /\ ~call.live
MayList(call) == call.model = None /\ ~call.live /\ ~call.home
ListEnds(c) ==
    /\ At(c, "next") /\ calls[c].todo = <<>>
    /\ calls' = [calls EXCEPT ![c] = IF MayList(@) THEN [@ EXCEPT !.at = "catalog", !.live = TRUE]
                                     ELSE [@ EXCEPT !.at = "failed"]]
    /\ UNCHANGED <<jobs, cooling, catalog, seen, settings, files, sent, changes>>

\* _remember_provider_failure: a shared quota or queue cools the whole pool.
Failure(c, capacity, token) ==
    /\ calls' = [calls EXCEPT ![c] = [@ EXCEPT !.now = None, !.tmp = FALSE,
                                          !.at = IF calls[c].model = None THEN "next" ELSE "failed"]]
    /\ cooling' = IF capacity THEN [cooling EXCEPT ![Pool[calls[c].now]] = token] ELSE cooling

Success(c) == /\ calls' = [calls EXCEPT ![c] = [@ EXCEPT !.at = "done", !.tmp = FALSE, !.now = None]]
              /\ UNCHANGED cooling

\* _space_status with refresh, _modelscope_studio_status, which keeps nothing; a job waits
\* for a thread.
Check(c) ==
    /\ At(c, "check")
    /\ LET m == calls[c].now
           Saw(state) == seen' = IF m \in Studios THEN seen ELSE [seen EXCEPT ![m] = state]
       IN
       \/ /\ Saw("up") /\ Cardinality(jobs) < Workers
          /\ jobs' = jobs \cup {[call |-> c, model |-> m, token |-> settings.token, owned |-> TRUE]}
          /\ Go(c, "job") /\ UNCHANGED cooling
       \/ /\ Saw("down") /\ UNCHANGED jobs
          /\ \E capacity \in BOOLEAN : Failure(c, capacity, settings.token)
    /\ UNCHANGED <<catalog, settings, files, sent, changes>>

JobOf(c) == {j \in jobs : j.call = c /\ j.owned}
\* _run_space_generation, _run_modelscope_generation; the file is copied and checked.
JobEnds(c) ==
    /\ At(c, "job") /\ jobs' = jobs \ JobOf(c)
    /\ \/ Success(c) /\ files' = [files EXCEPT !.finished = @ \cup {c}]
       \/ (\E capacity \in BOOLEAN, j \in JobOf(c) : Failure(c, capacity, j.token)) /\ UNCHANGED files
    /\ UNCHANGED <<catalog, seen, settings, sent, changes>>

\* A job whose call was cancelled: nobody takes its result.
LostJobEnds ==
    /\ \E j \in jobs : ~j.owned /\ jobs' = jobs \ {j}
    /\ UNCHANGED <<calls, cooling, catalog, seen, settings, files, sent, changes>>

FaultRemoved(c) == {files}
\* The finally of _generate_with_pollinations; an unlink that fails is not reported.
Removed(c) == {[files EXCEPT !.temporary = @ \ {c}, !.left = @ \/ refused] : refused \in BOOLEAN}
StreamEnds(c) ==
    /\ At(c, "stream")
    /\ \/ Success(c) /\ files' = [files EXCEPT !.finished = @ \cup {c}, !.temporary = @ \ {c}]
       \/ (\E capacity \in BOOLEAN : Failure(c, capacity, settings.token)) /\ files' \in Removed(c)
    /\ UNCHANGED <<jobs, catalog, seen, settings, sent, changes>>

Answer(c) ==
    /\ calls[c].at \in {"failed", "done"}
    /\ calls' = [calls EXCEPT ![c] = Idle]
    /\ files' = [files EXCEPT !.finished = @ \ {c}]
    /\ UNCHANGED <<jobs, cooling, catalog, seen, settings, sent, changes>>

\* The coroutine ends at its await, the thread goes on.
Cancel(c) ==
    /\ calls[c].at \notin {"idle", "next", "failed", "done"} /\ Change
    /\ calls' = [calls EXCEPT ![c] = Idle]
    /\ jobs' = {[j EXCEPT !.owned = @ /\ j.call # c] : j \in jobs}
    /\ files' \in IF calls[c].at = "stream" THEN Removed(c) ELSE {files}
    /\ UNCHANGED <<cooling, catalog, seen, settings, sent>>

Call(c) ==
    \/ \E m \in Named \cup {None}, home \in BOOLEAN : Generate(c, m, home)
    \/ \E prices \in Catalogs : Fetch(c, prices)
    \/ Candidate(c) \/ ListEnds(c) \/ Check(c) \/ JobEnds(c) \/ StreamEnds(c) \/ Answer(c) \/ Cancel(c)

-----------------------------------------------------------------------------
(* The status call, the settings and the caches.                           *)

\* status(): what is not in a cache is asked for, the catalog too; in mainland China the
\* Studios only.  A Studio that says it is offline is not remembered.
Status(home, state) ==
    /\ Alone
    /\ \A m \in Known :
        IF seen[m] # "unknown" \/ (home /\ m \notin Studios) THEN state[m] = seen[m]
        ELSE state[m] # "unknown" \/ m \in Studios
    /\ seen' = state
    /\ UNCHANGED catalog \/ (~home /\ catalog' \in Catalogs)
    /\ UNCHANGED <<calls, jobs, cooling, settings, files, sent, changes>>

SeenExpires(m) ==
    /\ seen[m] # "unknown" /\ seen' = [seen EXCEPT ![m] = "unknown"]
    /\ UNCHANGED <<calls, jobs, cooling, catalog, settings, files, sent, changes>>
CooldownExpires(p) ==
    /\ cooling[p] # None /\ cooling' = [cooling EXCEPT ![p] = None]
    /\ UNCHANGED <<calls, jobs, catalog, seen, settings, files, sent, changes>>

SetKey ==
    /\ Change /\ settings' = [settings EXCEPT !.key = ~@]
    /\ catalog' = None
    /\ UNCHANGED <<calls, jobs, cooling, seen, files, sent>>
SetToken ==
    /\ Change /\ settings' = [settings EXCEPT !.token = @ + 1]
    /\ seen' = [m \in Known |-> IF m \in Studios THEN seen[m] ELSE "unknown"]
    /\ cooling' = [cooling EXCEPT !["huggingface-zerogpu"] = None]
    /\ UNCHANGED <<calls, jobs, catalog, files, sent>>

Shared ==
    \/ \E home \in BOOLEAN, state \in [Known -> {"up", "down", "unknown"}] : Status(home, state)
    \/ (\E m \in Known : SeenExpires(m)) \/ (\E p \in Pools : CooldownExpires(p))
    \/ SetKey \/ SetToken \/ LostJobEnds

Next == (\E c \in Calls : Call(c)) \/ Shared
Spec == Init /\ [][Next]_vars
-----------------------------------------------------------------------------
\* "Only a proven zero-price endpoint/model was used": no request goes to a listed
\* model that the catalog its call had fetched did not give a price of zero.
FreeOnly == \A r \in sent : r.price = "free"

\* An automatic call gives up only after every provider that it could use for free
\* was asked, or skipped because its pool cools down: the known ones and those of a live
\* catalog, or in mainland China the Studios, and there nobody else is ever asked.
EveryoneAsked ==
    \A c \in Calls : LET call == calls[c] IN
        /\ call.home => call.asked \subseteq Studios
        /\ At(c, "failed") /\ call.model = None =>
             (IF call.home THEN Studios ELSE Known \cup Free(call.prices)) \subseteq call.asked

\* However a download ends, its temporary file is gone when it has ended, unless the system
\* refuses to remove it (files.left).
NoTemporaryLeft == \A c \in files.temporary : calls[c].tmp

\* A cooldown belongs to the credentials in use: SetToken forgets the old ones.
CooldownOfTheToken == cooling["huggingface-zerogpu"] \in {None, settings.token}

\* A provider job runs for a call that waits for it.
JobEndsWithCall == \A j \in jobs : j.owned
=============================================================================
