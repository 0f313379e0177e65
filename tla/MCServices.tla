----------------------------- MODULE MCServices -----------------------------
(***************************************************************************)
(* What serves the tasks from outside: the events of Feishu and the worker *)
(* that receives them, the phone, the media jobs and the background        *)
(* browser.  They share no state; a behaviour moves one, its subject.  The *)
(* properties are those of the models, with their type invariants.         *)
(***************************************************************************)
EXTENDS FeishuIngress, TLC

CONSTANTS
    Text, Attachments,
    Threshold, MaxSaves, MaxSpawns, MaxCrashes,
    Sockets, Commands, MaxKeys,
    MediaCalls, Official, Listed, Pool, Workers, Named, MaxChanges,
    Tasks, Downloads, MaxRecords, MaxLaunches, Other

VARIABLES
    subject,
    service, creds, address, token, lock, op, listener, accepts, workers, report, checks, spawned, crashes,
    offers, paired, key, disk, sockets, registered, commands, faults, answered,
    calls, jobs, cooling, catalog, statuses, settings, files, sent, changes,
    playwright, drivers, browsers, started, sessions, managers, guard, task, downloads

\* A text and two attachments; every request may wait, and be delivered again.
MCEvents == {Text} \cup Attachments
MCContents == [e \in MCEvents |-> IF e = Text THEN {"text"} ELSE {"files"}]
Symmetry == Permutations(Attachments) \cup Permutations(MediaCalls)

\* Two spaces that share their quota, a studio, and a model with a price list.
MCOfficial == <<"space", "space2", "studio">>
MCPool == [m \in {"space", "space2"} |-> "huggingface-zerogpu"] @@
          ("studio" :> "modelscope-studio" @@ "p" :> "pollinations")

Listener == INSTANCE FeishuListener
Phone == INSTANCE MobileBridge
Media == INSTANCE MediaGeneration WITH Calls <- MediaCalls, seen <- statuses
Browser == INSTANCE BackgroundBrowser WITH Files <- Downloads, files <- downloads

worker == <<service, creds, address, token, lock, op, listener, accepts, workers, report, checks, spawned, crashes>>
phone == <<offers, paired, key, disk, sockets, registered, commands, faults, answered>>
media == <<calls, jobs, cooling, catalog, statuses, settings, files, sent, changes>>
browser == <<playwright, drivers, browsers, started, sessions, managers, guard, task, downloads>>
allVars == <<subject, vars, worker, phone, media, browser>>

NoWorker ==
    /\ service = None /\ creds = None /\ address = None /\ token = None /\ lock = None /\ op = None /\ listener = None
    /\ accepts = None /\ workers = None /\ report = None /\ checks = None /\ spawned = None /\ crashes = None
NoPhone ==
    /\ offers = None /\ paired = None /\ key = None /\ disk = None /\ sockets = None
    /\ registered = None /\ commands = None /\ faults = None /\ answered = None
NoMedia ==
    /\ calls = None /\ jobs = None /\ cooling = None /\ catalog = None /\ statuses = None
    /\ settings = None /\ files = None /\ sent = None /\ changes = None
NoBrowser ==
    /\ playwright = None /\ drivers = None /\ browsers = None /\ started = None
    /\ sessions = None /\ managers = None /\ guard = None /\ task = None /\ downloads = None

(* What the proofs about the parts need of their constants.  None is no    *)
(* value of the code.                                                      *)
ASSUME ListenerAssumption ==
    /\ MaxSaves \in Nat \ {0} /\ MaxSpawns \in Nat /\ Threshold \in Nat \ {0}
    /\ None \notin Nat /\ None \notin Listener!Callers
ASSUME PhoneAssumption == MaxKeys \in Nat /\ None \notin Sockets /\ None \notin Nat
\* Every model has a pool, and a catalog is finite.
ASSUME MediaAssumption ==
    /\ Official \in Seq(DOMAIN Pool) /\ Listed \subseteq DOMAIN Pool /\ IsFiniteSet(Listed)
    /\ None \notin DOMAIN Pool /\ Workers \in Nat
\* A manager keeps at least one record; another plugin is no task.
ASSUME BrowserAssumption ==
    /\ MaxLaunches \in Nat /\ MaxRecords \in Nat \ {0}
    /\ None \notin Nat \cup Tasks \cup Downloads \cup [pending : Seq(Downloads), records : Nat]
    /\ Other \notin Tasks \cup {None}

ServicesInit ==
    /\ Init
    /\ \/ subject = "ingress" /\ NoWorker /\ NoPhone /\ NoMedia /\ NoBrowser
       \/ subject = "worker" /\ Listener!Init /\ NoPhone /\ NoMedia /\ NoBrowser
       \/ subject = "phone" /\ Phone!Init /\ NoWorker /\ NoMedia /\ NoBrowser
       \/ subject = "media" /\ Media!Init /\ NoWorker /\ NoPhone /\ NoBrowser
       \/ subject = "browser" /\ Browser!Init /\ NoWorker /\ NoPhone /\ NoMedia
ServicesNext ==
    /\ UNCHANGED subject
    /\ \/ subject = "ingress" /\ Next /\ UNCHANGED <<worker, phone, media, browser>>
       \/ subject = "worker" /\ Listener!Next /\ UNCHANGED <<vars, phone, media, browser>>
       \/ subject = "phone" /\ Phone!Next /\ UNCHANGED <<vars, worker, media, browser>>
       \/ subject = "media" /\ Media!Next /\ UNCHANGED <<vars, worker, phone, browser>>
       \/ subject = "browser" /\ Browser!Next /\ UNCHANGED <<vars, worker, phone, media>>
ServicesSpec == ServicesInit /\ [][ServicesNext]_allVars

\* One worker consumes the events of the workspace, with the credentials of the last save.
ListenerIsOurs == subject = "worker" => Listener!TypeOK /\ Listener!OneWorker /\ Listener!WorkerIsCurrent
\* A call that waits for the phone can be woken, and the files say what the last
\* pairing or revocation was told.
PhoneIsTold == subject = "phone" => Phone!TypeOK /\ Phone!CommandCanBeWoken /\ Phone!AnswerIsDurable
\* A media call uses free services only, and all that its region has before it gives up.
MediaIsFree == subject = "media" => Media!TypeOK /\ Media!FreeOnly /\ Media!EveryoneAsked
\* Ended work leaves nothing behind, no temporary file (unless the system refuses to remove
\* it) and no download, and takes nothing away from the work of the others.
EndedIsClean ==
    /\ subject = "media" => Media!NoTemporaryLeft
    /\ subject = "browser" => Browser!TypeOK /\ Browser!EndedIsClean /\ Browser!SessionRuns
=============================================================================
