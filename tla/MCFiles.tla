------------------------------- MODULE MCFiles -------------------------------
(***************************************************************************)
(* The stores on disk that a start recovers, migrates or repairs: the      *)
(* control files, the credentials, the task database and the files of the  *)
(* gateway.  Each model has the other programs that touch its files among  *)
(* its own steps, so a behaviour moves one of the four, its subject.  The  *)
(* properties are those of the models, with their type invariants.         *)
(***************************************************************************)
EXTENDS ControlFiles, TLC

CONSTANTS
    Starters, Fields, Endpoints, Retired, Replaces, Updates, MaxFaults,
    Rows, Tokens, Readers, MaxWrites,
    GatewayCalls, GatewayKeys, TokenFiles, Root, FreshLog, ReadFails, MaxPolls, MaxTokens

\* An installation has at least one process, and no process or key is the missing one.
ASSUME StartersAssumption == Starters # {} /\ None \notin Starters
\* What is retired is no endpoint of today.
ASSUME RetiredAssumption == Endpoints \cap Retired = {} /\ None \notin Retired
\* The managed files are a fixed list.
ASSUME FilesAssumption == IsFiniteSet(TokenFiles) /\ None \notin GatewayKeys
ASSUME GatewayAssumption == MaxPolls \in Nat
\* A route token is none of the marks that stand for the rest of a payload.
ASSUME DatabaseAssumption == Tokens \cap {"bearer", "route", "shape", "sealed", "alien", "torn"} = {}

VARIABLES
    subject,
    keychain, env, prefs, legacy, secrets, holder, stage, faults, kept,
    rows, residue, markers, store, configured, prepared, writes, saves, foreign,
    bridge, own, other, log, pump, token, tokens, files, loop, requests, changes, found

Symmetry == Permutations(Processes)
NewRelease == [p \in Processes |-> "v2"]

Secrets == INSTANCE SecretStores WITH Processes <- Starters, vault <- secrets, lease <- holder, proc <- stage
\* Nothing that a file lists is the missing list.
ASSUME EntriesAssumption == None \notin Secrets!Entries
Database == INSTANCE TaskStoreUpgrade WITH Keys <- Tokens
Gateway == INSTANCE OpenClawBridge WITH
    Calls <- GatewayCalls, Keys <- GatewayKeys, Files <- TokenFiles, MaxChanges <- MaxTokens,
    vault <- tokens, calls <- requests, kept <- found

credentials == <<keychain, env, prefs, legacy, secrets, holder, stage, faults, kept>>
database == <<rows, residue, markers, store, configured, prepared, writes, saves, foreign>>
gateway == <<bridge, own, other, log, pump, token, tokens, files, loop, requests, changes, found>>
allVars == <<subject, vars, credentials, database, gateway>>

NoCredentials ==
    /\ keychain = None /\ env = None /\ prefs = None /\ legacy = None /\ secrets = None
    /\ holder = None /\ stage = None /\ faults = None /\ kept = None
NoDatabase ==
    /\ rows = None /\ residue = None /\ markers = None /\ store = None /\ configured = None
    /\ prepared = None /\ writes = None /\ saves = None /\ foreign = None
NoGateway ==
    /\ bridge = None /\ own = None /\ other = None /\ log = None /\ pump = None /\ token = None
    /\ tokens = None /\ files = None /\ loop = None /\ requests = None /\ changes = None /\ found = None

\* The guard of another subject is at rest.
FilesInit ==
    /\ Init
    /\ \/ subject = "control" /\ NoCredentials /\ NoDatabase /\ NoGateway
       \/ subject = "credentials" /\ Secrets!Init /\ NoDatabase /\ NoGateway
       \/ subject = "database" /\ Database!Init /\ NoCredentials /\ NoGateway
       \/ subject = "gateway" /\ Gateway!Init /\ NoCredentials /\ NoDatabase
FilesNext ==
    /\ UNCHANGED subject
    /\ \/ subject = "control" /\ Next /\ UNCHANGED <<credentials, database, gateway>>
       \/ subject = "credentials" /\ Secrets!Next /\ UNCHANGED <<vars, database, gateway>>
       \/ subject = "database" /\ Database!Next /\ UNCHANGED <<vars, credentials, gateway>>
       \/ subject = "gateway" /\ Gateway!Next /\ UNCHANGED <<vars, credentials, database>>
FilesSpec == FilesInit /\ [][FilesNext]_allVars

\* No start, crash or failing write between the files loses a credential, the gateway's
\* own included; a key is never stored for an endpoint it was not entered for, a process
\* that is up has left no plaintext copy behind, and no key gets into the gateway's log.
CredentialsAreSafe ==
    /\ subject = "credentials" => Secrets!TypeOK /\ Secrets!CredentialsKept
                                    /\ Secrets!KeysStayHome /\ Secrets!NoPlaintextLeft
    /\ subject = "gateway" => Gateway!LogIsRedacted /\ Gateway!CredentialsMigrated
\* What a marker promises of the database is so, after any crash between the passes.
MarkersHold == subject = "database" => Database!TypeOK /\ Database!RetiredIsGone /\ Database!MarkersAreTrue
\* A stop leaves no gateway process behind.
GatewayIsStopped == subject = "gateway" => Gateway!TypeOK /\ Gateway!OwnIsStopped /\ Gateway!NothingLeft
\* The stored key is the one the vault was written with (refuted where storing a key
\* replaces the one stored before).
KeyOfTheVaultKept == subject = "credentials" => Secrets!KeyOfTheVaultKept
=============================================================================
