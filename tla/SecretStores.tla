---------------------------- MODULE SecretStores ----------------------------
(***************************************************************************)
(* The credentials and preferences on disk: the master key in the keychain *)
(* and the vault format (secret_storage.py), the migration of plaintext    *)
(* credentials into the vault at every start and their later updates       *)
(* (provider_secrets.py), the preferences file (runtime_settings.py).      *)
(*                                                                         *)
(* Processes start on one data directory; each takes its master key before *)
(* it asks for the lease of ControlFiles, everything later under it.  A    *)
(* process may die between any two steps.  The keychain, the .env file and *)
(* older versions of the program are external: what they left on disk is   *)
(* any of the initial states.                                              *)
(***************************************************************************)
EXTENDS Naturals, FiniteSets

CONSTANTS
    Processes,  \* Elren processes started on this data directory
    Fields,     \* credential fields of ProviderSecrets
    Endpoints,  \* provider, model and address of a model provider entry
    Retired,    \* the entries of old files that are not taken over: an unknown
                \* provider, no model, a duplicate, one beyond the 25th
    Replaces,   \* storing a master key replaces the one stored before (Linux)
    Updates,    \* values the user enters (model checking only)
    MaxFaults,  \* failing writes and crashes (model checking only)
    None

VARIABLES
    keychain, \* the stored master key: the process that made it, or None
    env,      \* the assignments of the .env file
    prefs,    \* runtime-settings.json: credentials of old versions, preference
    legacy,   \* provider-keys.json
    vault,    \* provider-secrets.vault
    lease,
    proc,     \* what each process does, its key, ProviderSecretsStore.value
    faults,
    kept      \* history: what a start may find in each field

disk == <<env, prefs, legacy, vault>>
vars == <<keychain, disk, lease, proc, faults, kept>>

\* A value names where it was first written; "" is a blank.
Values == {"", "env", "prefs", "legacy", "vault"} \cup Updates
Secrets == [Fields -> Values]
NoEntry == [endpoint |-> None, key |-> None]
\* A key of an entry is named by the endpoint it was entered for.
Known == Endpoints \cup Retired \cup {None}
Entries == [endpoint : Known, key : Known]
Stored == [fields : Secrets, entry : Entries]
Blank == [fields |-> [f \in Fields |-> ""], entry |-> NoEntry]
\* A file lists one entry, or none (an empty list), or has no list at all.
Found == [fields : Secrets, entry : Entries \cup {None}]
Nothing == [fields |-> Blank.fields, entry |-> None]
NoFile == [format |-> "absent", key |-> None, values |-> Nothing]
Offline == [at |-> "down", key |-> None, value |-> Blank, update |-> Blank]

TypeOK ==
    /\ keychain \in Processes \cup {None} /\ lease \in Processes \cup {None}
    /\ env \in Secrets /\ prefs \in [secrets : Found, saved : Nat] /\ legacy \in Found \cup {None}
    /\ vault.format \in {"absent", "plain", "old", "current"} /\ vault.values \in Found
    /\ \A p \in Processes :
        /\ proc[p].at \in {"down", "key", "verify", "ready", "load", "rewrite", "persist", "env",
                           "prefs", "legacy", "up", "saving"}
        /\ proc[p].key \in Processes \cup {None} /\ proc[p].value \in Stored

-----------------------------------------------------------------------------
(* What a start makes of the files.                                        *)

\* _overlay: a value that is not blank goes over what was there.
Over(low, high) == [f \in Fields |-> IF high[f] # "" THEN high[f] ELSE low[f]]
LegacyFile == IF legacy = None THEN Nothing ELSE legacy
\* A list goes over what was there even if it is empty.
Listed(low, high) == IF high # None THEN high ELSE low
\* _normalize_model_providers leaves out what it does not know.
Normal(entry) == IF entry.endpoint \in Retired THEN NoEntry ELSE entry

\* The environment is weakest (it has no entries), then old preferences, the old file,
\* the vault.
Loaded ==
    [fields |-> Over(Over(Over(env, prefs.secrets.fields), LegacyFile.fields), vault.values.fields),
     entry |-> Normal(Listed(Listed(Listed(NoEntry, prefs.secrets.entry), LegacyFile.entry),
                             vault.values.entry))]
Readable == vault.format \in {"old", "current"} => vault.key = keychain
Encrypted == vault.format \in {"old", "current"}

Persistable == vault.format # "absent" \/ legacy # None \/ prefs.secrets # Nothing \/ Loaded # Blank

\* What older versions left: each key at its own address.
Old(value) == [fields : [Fields -> {"", value}],
               entry : {None, NoEntry} \cup {[endpoint |-> e, key |-> e] : e \in Endpoints \cup Retired}]

Init ==
    /\ lease = None /\ faults = 0
    /\ proc = [p \in Processes |-> Offline]
    /\ env \in [Fields -> {"", "env"}]
    /\ prefs \in [secrets : Old("prefs"), saved : {0}]
    /\ legacy \in Old("legacy") \cup {None}
    /\ \/ vault = NoFile /\ keychain = None
       \/ \E values \in Old("vault"), format \in {"plain", "old", "current"} :
            \E p \in {CHOOSE q \in Processes : TRUE} :
              /\ vault = [format |-> format, key |-> p, values |-> values]
              /\ keychain = IF format = "plain" THEN None ELSE p
    /\ kept = [fields |-> [f \in Fields |-> {Loaded.fields[f]}], entries |-> {Loaded.entry}]

-----------------------------------------------------------------------------
(* Failing writes and crashes.                                             *)

Go(p, at) == proc' = [proc EXCEPT ![p].at = at]
CanFail == faults < MaxFaults /\ faults' = faults + 1
\* The constructor raises: the process ends and gives its lease back.
Ends(p) == /\ proc' = [proc EXCEPT ![p] = Offline]
           /\ lease' = IF lease = p THEN None ELSE lease

Crash(p) ==
    /\ proc[p].at # "down" /\ CanFail /\ Ends(p)
    /\ UNCHANGED <<keychain, disk, kept>>

\* A step that ends the start when its write fails, before or after the file is replaced.
Step(p, from, to, write, same) ==
    /\ proc[p].at = from
    /\ \/ write /\ Go(p, to) /\ UNCHANGED <<lease, faults>>
       \/ (write \/ same) /\ CanFail /\ Ends(p)

-----------------------------------------------------------------------------
(* The master key.                                                         *)

Start(p) == /\ proc[p].at = "down"
            /\ IF keychain # None
               THEN proc' = [proc EXCEPT ![p].at = "ready", ![p].key = keychain]
               ELSE proc' = [proc EXCEPT ![p].at = "key"]
            /\ UNCHANGED <<keychain, disk, lease, faults, kept>>

\* secret-tool ends with an error: the code cannot tell that from an absent key.
LookupFails(p) ==
    /\ Replaces /\ proc[p].at = "down" /\ keychain # None /\ CanFail
    /\ Go(p, "key")
    /\ UNCHANGED <<keychain, disk, lease, kept>>

CreateKey(p) ==
    /\ proc[p].at = "key"
    /\ IF keychain = None \/ Replaces
       THEN keychain' = p /\ Go(p, "verify") /\ UNCHANGED lease
       ELSE Ends(p) /\ UNCHANGED keychain
    /\ UNCHANGED <<disk, faults, kept>>

\* The stored copy is read again.
VerifyKey(p) ==
    /\ proc[p].at = "verify"
    /\ IF keychain = p THEN proc' = [proc EXCEPT ![p].at = "ready", ![p].key = p] /\ UNCHANGED lease
       ELSE Ends(p)
    /\ UNCHANGED <<keychain, disk, faults, kept>>

TakeLease(p) ==
    /\ proc[p].at = "ready"
    /\ IF lease = None THEN lease' = p /\ Go(p, "load") ELSE Ends(p)
    /\ UNCHANGED <<keychain, disk, faults, kept>>

Key(p) == Start(p) \/ LookupFails(p) \/ CreateKey(p) \/ VerifyKey(p) \/ TakeLease(p)

-----------------------------------------------------------------------------
(* The migration at a start.                                               *)

InVault(p, v) == vault' = [format |-> "current", key |-> proc[p].key, values |-> v]

\* A vault that this key does not open ends the start, and so does one in the old
\* envelope that cannot be rewritten.
Load(p) ==
    /\ proc[p].at = "load"
    /\ IF Encrypted /\ vault.key # proc[p].key
       THEN Ends(p)
       ELSE /\ proc' = [proc EXCEPT ![p].value = Loaded, ![p].at =
                   IF vault.format = "old" THEN "rewrite" ELSE IF Persistable THEN "persist" ELSE "up"]
            /\ UNCHANGED lease
    /\ UNCHANGED <<keychain, disk, faults, kept>>

Rewrite(p) ==
    /\ Step(p, "rewrite", "persist", InVault(p, vault.values), UNCHANGED vault)
    /\ UNCHANGED <<keychain, env, prefs, legacy, kept>>

\* Written only if it differs; the write is verified by reading it again.
Persist(p) ==
    /\ Step(p, "persist", "env",
            IF Encrypted /\ vault.values = proc[p].value THEN UNCHANGED vault
            ELSE InVault(p, proc[p].value), UNCHANGED vault)
    /\ UNCHANGED <<keychain, env, prefs, legacy, kept>>

\* scrub_env_file: the assignments of the fields that have a value are blanked.
Blanked(names) == [f \in Fields |-> IF f \in names THEN "" ELSE env[f]]
ScrubEnv(p) ==
    /\ LET names == {f \in Fields : proc[p].value.fields[f] # ""}
       IN Step(p, "env", "prefs", env' = Blanked(names), UNCHANGED env)
    /\ UNCHANGED <<keychain, prefs, legacy, vault, kept>>

ScrubPrefs(p) ==
    /\ Step(p, "prefs", "legacy", prefs' = [prefs EXCEPT !.secrets = Nothing], UNCHANGED prefs)
    /\ UNCHANGED <<keychain, env, legacy, vault, kept>>

RemoveLegacy(p) ==
    /\ Step(p, "legacy", "up", legacy' = None, UNCHANGED legacy)
    /\ UNCHANGED <<keychain, env, prefs, vault, kept>>

\* Fault: the plaintext goes first, and the vault is written last.
FaultMigrate(p) ==
    \/ Load(p) \/ Rewrite(p)
    \/ /\ Step(p, "persist", "env", legacy' = None, UNCHANGED legacy)
       /\ UNCHANGED <<keychain, env, prefs, vault, kept>>
    \/ ScrubEnv(p) \/ ScrubPrefs(p)
    \/ /\ Step(p, "legacy", "up", InVault(p, proc[p].value), UNCHANGED vault)
       /\ UNCHANGED <<keychain, env, prefs, legacy, kept>>
Migrate(p) == Load(p) \/ Rewrite(p) \/ Persist(p) \/ ScrubEnv(p) \/ ScrubPrefs(p) \/ RemoveLegacy(p)

-----------------------------------------------------------------------------
(* Updates: write-only, serialized by _update_lock.                        *)

Begin(p, update) ==
    /\ proc[p].at = "up"
    /\ proc' = [proc EXCEPT ![p].at = "saving", ![p].update = update]
    /\ UNCHANGED <<keychain, disk, lease, faults>>

\* A blank leaves a field alone.
Enter(p, f, v) ==
    /\ Begin(p, [proc[p].value EXCEPT !.fields[f] = v])
    /\ kept' = [kept EXCEPT !.fields[f] = @ \cup {v}]

FaultEntered(old, endpoint, key) ==
    [endpoint |-> endpoint, key |-> IF key # None THEN key ELSE old.key]
\* _normalize_model_providers: a blank key keeps the old one for the same endpoint.
Entered(old, endpoint, key) ==
    [endpoint |-> endpoint,
     key |-> IF key # None THEN key ELSE IF old.endpoint = endpoint THEN old.key ELSE None]

\* The list the user enters has the entry, or none.
EnterProvider(p, endpoint, key) ==
    /\ key \in {endpoint, None}
    /\ \E entry \in {Entered(proc[p].value.entry, endpoint, key), NoEntry} :
        /\ Begin(p, [proc[p].value EXCEPT !.entry = entry])
        /\ kept' = [kept EXCEPT !.entries = @ \cup {entry}]

\* Published after the verified write; on an error the old value stays in memory.
Save(p) ==
    /\ proc[p].at = "saving" /\ InVault(p, proc[p].update)
    /\ proc' = [proc EXCEPT ![p].at = "up", ![p].value = proc[p].update, ![p].update = Blank]
    /\ LET new == proc[p].update  old == proc[p].value IN
       kept' = [fields |-> [f \in Fields |-> IF new.fields[f] # old.fields[f] THEN {new.fields[f]}
                                            ELSE kept.fields[f]],
                entries |-> IF new.entry # old.entry THEN {new.entry} ELSE kept.entries]
    /\ UNCHANGED <<keychain, env, prefs, legacy, lease, faults>>

SaveFails(p) ==
    /\ proc[p].at = "saving" /\ CanFail
    /\ InVault(p, proc[p].update) \/ UNCHANGED vault
    /\ proc' = [proc EXCEPT ![p].at = "up", ![p].update = Blank]
    /\ UNCHANGED <<keychain, env, prefs, legacy, lease, kept>>

\* RuntimeSettingsStore.update writes the whole file, with the fields it knows.
SavePreferences(p) ==
    /\ proc[p].at = "up" /\ prefs.saved = 0
    /\ prefs' = [secrets |-> Nothing, saved |-> 1]
    /\ UNCHANGED <<keychain, env, legacy, vault, lease, proc, faults, kept>>

Update(p) ==
    \/ \E f \in Fields, v \in Updates : Enter(p, f, v)
    \/ \E e \in Endpoints, k \in Endpoints \cup {None} : EnterProvider(p, e, k)
    \/ Save(p) \/ SaveFails(p) \/ SavePreferences(p)

Next == \E p \in Processes : Key(p) \/ Migrate(p) \/ Update(p) \/ Crash(p)
Spec == Init /\ [][Next]_vars

-----------------------------------------------------------------------------
\* Whatever fails or dies during a migration or an update, the next start finds
\* each credential and the list of model providers with its keys: what it would have
\* found before, or what was entered since.  An answered update is found by every later
\* start until the next one.  (Which of several lists is found is the order of Loaded;
\* what that leaves out is OnlyCopiesAreKept below.)
CredentialsKept ==
    /\ Readable
    /\ \A f \in Fields : Loaded.fields[f] \in kept.fields[f]
    /\ Loaded.entry \in kept.entries

\* A process that is up has left no plaintext copy of a credential behind, and
\* holds what the vault holds or what a failed save may have left there instead.
NoPlaintextLeft ==
    \A p \in Processes : proc[p].at \in {"up", "saving"} =>
        /\ legacy = None /\ prefs.secrets = Nothing
        /\ \A f \in Fields : env[f] = "" \/ vault.values.fields[f] = ""

\* A key entered for one address is never stored for another one.
KeysStayHome == LET entry == vault.values.entry IN
    entry # None => entry.key \in {None, entry.endpoint}

\* "Any failure leaves every plaintext only-copy intact" (provider_secrets.py:194-195), and so
\* does success, unless the user enters another list (refuted: a list in the vault wins
\* even when it is empty, entries that are not known are left out, and the old copies are
\* then removed).
EntryKeys == {entry.key : entry \in {prefs.secrets.entry, LegacyFile.entry, vault.values.entry} \ {None}} \ {None}
OnlyCopiesAreKept == [][EntryKeys \subseteq EntryKeys' \/ \E p \in Processes : proc[p].at = "saving"]_vars

\* What "Verify the persistent copy before encrypting any only copy of a secret"
\* (secret_storage.py) is for: the key a vault needs is in the keychain.
KeyOfTheVaultKept == Encrypted => vault.key = keychain
=============================================================================
