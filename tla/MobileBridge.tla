---------------------------- MODULE MobileBridge ----------------------------
(***************************************************************************)
(* The Android bridge (mobile_bridge.py) for one phone: pairing and        *)
(* revoking write two files, the vault of keys and the device records; the *)
(* phone's sockets replace one another; commands wait for results.  The    *)
(* phone and the network are external.  Between two awaits the event loop  *)
(* runs nothing else, so the two writes of a request are one step, with an *)
(* outcome for each way they can fail; a crash between them leaves the     *)
(* files of one of these outcomes to the next start.                       *)
(***************************************************************************)
EXTENDS Naturals, FiniteSets

CONSTANTS
    Sockets,   \* connections the phone opens (model checking only)
    Commands,  \* commands the agent sends (model checking only)
    MaxKeys,   \* pairings offered (model checking only)
    MaxFaults, \* failing writes and restarts (model checking only)
    None

VARIABLES
    offers,     \* pairings: ids offered so far, and those that may still be used
    paired,     \* the phone is in _records
    key,        \* its entry of _secret_values: the pairing it comes from
    disk,       \* mobile-device-secrets.vault and mobile-devices.json
    sockets,    \* what each connection handler awaits
    registered, \* connections[device_id]
    commands,   \* the calls of command
    faults,
    answered    \* history: the last pairing or revocation, as its caller was told

memory == <<offers, paired, key>>
live == <<sockets, registered, commands>>
vars == <<memory, live, disk, faults, answered>>

Keys == 1 .. MaxKeys
NoCommand == [place |-> "new", socket |-> None, future |-> "pending"]

TypeOK ==
    /\ offers \subseteq Keys /\ paired \in BOOLEAN /\ key \in Keys \cup {None}
    /\ disk \in [vault : Keys \cup {None}, meta : BOOLEAN]
    /\ sockets \in [Sockets -> {"new", "accept", "closing", "open", "gone"}]
    /\ registered # None => sockets[registered] = "open"
    /\ commands \in [Commands -> [place : {"new", "sending", "waiting", "over"},
           socket : Sockets \cup {None}, future : {"pending", "result", "lost"}]]
    /\ answered \in {"none", "paired", "revoked"}

Init ==
    /\ offers = Keys /\ paired = FALSE /\ key = None
    /\ disk = [vault |-> None, meta |-> FALSE]
    /\ sockets = [s \in Sockets |-> "new"] /\ registered = None
    /\ commands = [c \in Commands |-> NoCommand]
    /\ faults = 0 /\ answered = "none"
----------------------------------------------------------------------------
\* Pairing and revoking ---------------------------------------------------

\* atomic_write_secure and write_verified replace a file, or fail before or after that.
Outcome(at, v, m) == [at |-> at, vault |-> v, meta |-> m]
SaveBoth(v, m) ==
    {Outcome("done", v, m), Outcome("vault", disk.vault, disk.meta), Outcome("vault", v, disk.meta),
     Outcome("meta", v, disk.meta), Outcome("meta", v, m)}
SaveMeta(m) == {Outcome("done", disk.vault, m), Outcome("meta", disk.vault, disk.meta),
                Outcome("meta", disk.vault, m)}
Write(o) ==
    /\ o.at # "done" => faults < MaxFaults
    /\ faults' = faults + (IF o.at = "done" THEN 0 ELSE 1)
    /\ disk' = [vault |-> o.vault, meta |-> o.meta]

\* A failed pairing keeps its offer; the key leaves memory, a record that the
\* second write should have saved stays.
Pair(k) == \E o \in SaveBoth(k, TRUE) :
    /\ k \in offers
    /\ Write(o)
    /\ key' = IF o.at = "done" THEN k ELSE None
    /\ paired' = (paired \/ o.at # "vault")
    /\ offers' = IF o.at = "done" THEN offers \ {k} ELSE offers
    /\ answered' = IF o.at = "done" THEN "paired" ELSE "none"
    /\ UNCHANGED live
OfferExpires(k) == /\ k \in offers /\ offers' = offers \ {k}
                   /\ UNCHANGED <<paired, key, live, disk, faults, answered>>

\* _fail_pending_for_device
Lost == [c \in Commands |->
    IF commands[c].place \in {"sending", "waiting"} /\ commands[c].future = "pending"
    THEN [commands[c] EXCEPT !.future = "lost"] ELSE commands[c]]

\* By the user, or by the phone through its route or its socket.  The vault is
\* written only if memory holds a key.
Revoke ==
    /\ paired
    /\ \E o \in IF key = None THEN SaveMeta(FALSE) ELSE SaveBoth(None, FALSE) :
        /\ Write(o)
        /\ IF o.at = "done"
           THEN /\ paired' = FALSE /\ key' = None /\ answered' = "revoked"
                /\ commands' = Lost /\ registered' = None
           ELSE answered' = "none" /\ UNCHANGED <<paired, key, commands, registered>>
    /\ UNCHANGED <<offers, sockets>>
----------------------------------------------------------------------------
\* Sockets ------------------------------------------------------------------

Place(s, p) == sockets' = [sockets EXCEPT ![s] = p]
Quiet == UNCHANGED <<memory, disk, faults, answered>>

\* The signed request is checked with the stored key, then accepted.
Connect(s) == /\ sockets[s] = "new" /\ paired /\ key # None
              /\ Place(s, "accept") /\ UNCHANGED <<registered, commands>> /\ Quiet
\* The previous connection is taken out and closed before this one is entered.
Accepted(s) ==
    /\ sockets[s] = "accept" /\ Quiet
    /\ IF registered = None
       THEN Place(s, "open") /\ registered' = s /\ UNCHANGED commands
       ELSE Place(s, "closing") /\ registered' = None /\ commands' = Lost
Register(s) == /\ sockets[s] = "closing" /\ Place(s, "open") /\ registered' = s
               /\ UNCHANGED commands /\ Quiet

\* Fault: a handler that comes back without a record writes it again.
FaultHello(s) == \E o \in SaveMeta(TRUE) :
    /\ sockets[s] = "open" /\ Write(o)
    /\ UNCHANGED <<memory, live, answered>>
\* The phone's capabilities are saved; a failing write ends the handler.
Hello(s) == \E o \in SaveMeta(TRUE) :
    /\ sockets[s] = "open" /\ paired /\ Write(o)
    /\ IF o.at = "done" THEN UNCHANGED live
       ELSE /\ Place(s, "gone")
            /\ IF registered = s THEN registered' = None /\ commands' = Lost
               ELSE UNCHANGED <<registered, commands>>
    /\ UNCHANGED <<memory, answered>>
\* A result is taken for any call of this phone that still waits for it.
Result(s, c) ==
    /\ sockets[s] = "open" /\ commands[c].place \in {"sending", "waiting"}
    /\ commands[c].future = "pending"
    /\ commands' = [commands EXCEPT ![c].future = "result"]
    /\ UNCHANGED <<sockets, registered>> /\ Quiet
\* Fault: the handler takes out whatever connection is entered.
FaultDrop(s) ==
    /\ sockets[s] \in {"accept", "open"} /\ Place(s, "gone") /\ Quiet
    /\ registered' = None
    /\ commands' = IF registered = s THEN Lost ELSE commands
\* The socket ends; only the registered one wakes the calls.
Drop(s) ==
    /\ sockets[s] \in {"accept", "open"} /\ Place(s, "gone") /\ Quiet
    /\ IF registered = s THEN registered' = None /\ commands' = Lost
       ELSE UNCHANGED <<registered, commands>>
----------------------------------------------------------------------------
\* Commands -----------------------------------------------------------------

Moves(c, p) == /\ commands' = [commands EXCEPT ![c].place = p]
               /\ UNCHANGED <<sockets, registered>> /\ Quiet

Send(c) ==
    /\ commands[c].place = "new" /\ registered # None
    /\ commands' = [commands EXCEPT ![c] = [place |-> "sending", socket |-> registered,
                                            future |-> "pending"]]
    /\ UNCHANGED <<sockets, registered>> /\ Quiet
Sent(c) == commands[c].place = "sending" /\ Moves(c, "waiting")
SendFails(c) == /\ commands[c].place = "sending" /\ sockets[commands[c].socket] = "gone"
                /\ Moves(c, "over")
\* wait_for returns: a result, the connection's error, or the timeout.
Return(c) == commands[c].place = "waiting" /\ Moves(c, "over")

\* The process dies, or is stopped, and starts again from its files.
Restart ==
    /\ faults < MaxFaults /\ faults' = faults + 1
    /\ offers' = {} /\ paired' = disk.meta /\ key' = disk.vault
    /\ sockets' = [s \in Sockets |-> IF sockets[s] = "new" THEN "new" ELSE "gone"]
    /\ registered' = None
    /\ commands' = [c \in Commands |-> IF commands[c].place = "new" THEN NoCommand
                                       ELSE [commands[c] EXCEPT !.place = "over"]]
    /\ UNCHANGED <<disk, answered>>

Next ==
    \/ \E k \in Keys : Pair(k) \/ OfferExpires(k)
    \/ Revoke \/ Restart
    \/ \E s \in Sockets : \/ Connect(s) \/ Accepted(s) \/ Register(s) \/ Hello(s) \/ Drop(s)
                          \/ \E c \in Commands : Result(s, c)
    \/ \E c \in Commands : Send(c) \/ Sent(c) \/ SendFails(c) \/ Return(c)

Spec == Init /\ [][Next]_vars
----------------------------------------------------------------------------
\* While a call waits for its phone, a connection of the phone is entered whose
\* end will wake it: no revocation, reconnection or disconnection leaves a call to
\* its timeout alone (_fail_pending_for_device, 614-618, at each of its callers).
CommandCanBeWoken ==
    \A c \in Commands :
        (commands[c].place \in {"sending", "waiting"} /\ commands[c].future = "pending")
            => registered # None

\* What the last pairing or revocation was told, the files say too: a restart
\* neither loses the phone nor brings it back, whatever handlers wrote meanwhile.
AnswerIsDurable ==
    /\ answered = "paired" => disk.meta /\ disk.vault = key /\ key # None
    /\ answered = "revoked" => ~disk.meta

\* What the docstring of _fail_pending_for_device says of each connection: refuted
\* by two reconnections that overlap.
WokenAtOnce ==
    \A c \in Commands :
        (commands[c].place = "waiting" /\ commands[c].future = "pending")
            => sockets[commands[c].socket] # "gone"
=============================================================================
