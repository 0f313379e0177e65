----------------------------- MODULE ModelClient -----------------------------
(***************************************************************************)
(* The multi-provider model client (deepseek.py): a call tries the keys of *)
(* its route, each a bounded number of times, and then other routes.       *)
(*                                                                         *)
(* Routes, circuits and key memory are shared by all tasks; the route a    *)
(* task is bound to, its identity note and its conversation are its own.   *)
(* Every wait for a provider is a place where other steps happen: settings *)
(* replace keys, the local catalog is probed again, other tasks call.      *)
(*                                                                         *)
(* A conversation is the set of provider states it carries: signed         *)
(* thinking, native parts, encrypted reasoning, each from one route.       *)
(***************************************************************************)
EXTENDS Naturals, Sequences, FiniteSets

CONSTANTS
    Tasks,       \* tasks, each with one call at a time
    Routes,      \* selectors
    Provider,    \* [Routes -> company]; "local" for a local runtime
    Protocol,    \* [Routes -> {"chat", "messages", "gemini", "responses"}]
    Relays,      \* routes of AI Code Mirror
    Custom,      \* routes of custom providers, which are no DeepSeek model when
                 \* they vanish; a retired selector is one that has vanished
    Backup,      \* routes with a second key
    Score,       \* [Routes -> Nat]: _automatic_route_score, no two alike
    Team,        \* do members with routes of their own share a conversation?
    Tries,       \* attempts with one key: 3 in the code
    MaxChanges,  \* new settings, probes and cooldowns (model checking only)
    MaxCalls,    \* calls (model checking only)
    None

ASSUME ClientAssumption ==
    /\ IsFiniteSet(Routes) /\ Relays \subseteq Routes /\ Custom \subseteq Routes /\ Backup \subseteq Routes
    /\ Score \in [Routes -> Nat] /\ Tries \in Nat \ {0} /\ MaxChanges \in Nat
    /\ \A r, s \in Routes : Score[r] = Score[s] => r = s

VARIABLES
    catalog,  \* per route, the generation of its keys; 0: not configured
    active,   \* _active_indices: the key that answered last
    tripped,  \* _temporarily_unavailable_models: the keys that tripped it, or 0
    bound,    \* _task_model, as set by the engine or a failover
    told,     \* _task_identity_override: the route it names, or None
    history,  \* the provider states in the conversation of the task
    call,     \* the call in progress
    used      \* changes and calls so far

shared == <<catalog, active, tripped>>
vars == <<shared, bound, told, history, call, used>>

Locals == {r \in Routes : Provider[r] = "local"}
DeepSeek == {r \in Routes : Provider[r] = "deepseek"}
Kinds == {"thinking", "parts", "items", "signature", "reasoning"}
States == [kind : Kinds, from : Routes]
Idle == [place |-> "idle"]

TypeOK ==
    /\ catalog \in [Routes -> 0 .. MaxChanges + 1]
    /\ active \in [Routes -> 0 .. 1] /\ tripped \in [Routes -> 0 .. MaxChanges + 1]
    /\ bound \in [Tasks -> Routes] /\ told \in [Tasks -> Routes \cup {None}]
    /\ \A t \in Tasks :
          /\ history[t] \subseteq States
          /\ call[t] # Idle =>
                /\ call[t].place \in {"request", "exhausted", "announce", "failed", "unconfigured"}
                /\ call[t].keys \in Seq(0 .. 1) /\ call[t].tries \in 0 .. Tries - 1
                /\ call[t].failed \subseteq Routes /\ call[t].skipped \subseteq Routes

Init ==
    /\ catalog = [r \in Routes |-> 1]
    /\ active = [r \in Routes |-> 0] /\ tripped = [r \in Routes |-> 0]
    /\ bound \in [Tasks -> Routes] /\ told = [t \in Tasks |-> None]
    /\ history = [t \in Tasks |-> {}]
    /\ call = [t \in Tasks |-> Idle]
    /\ used = [changes |-> 0, calls |-> 0]

-----------------------------------------------------------------------------
(* What a request carries, and what a reply leaves in the conversation.    *)

\* _chat_payload, _strip_provider_private_state: reasoning goes to DeepSeek
\* only, a Google signature only to the route that made it.
CarriedByChat(r, h) ==
    {s \in h : \/ s.kind = "reasoning" /\ Provider[r] = "deepseek"
               \/ s.kind = "signature" /\ s.from = r}

\* The native adapters replay every state of their own kind.
CarriedByMessages(h) == {s \in h : s.kind = "thinking"}
CarriedByGemini(h) == {s \in h : s.kind = "parts"}
CarriedByResponses(h) == {s \in h : s.kind = "items"}

Carried(r, h) ==
    CASE Protocol[r] = "messages" -> CarriedByMessages(h)
      [] Protocol[r] = "gemini" -> CarriedByGemini(h)
      [] Protocol[r] = "responses" -> CarriedByResponses(h)
      [] OTHER -> CarriedByChat(r, h)

\* The state of a reply with tool calls; a Claude reply also has a readable
\* copy of its thinking.
ProducedByMessages == {"thinking", "reasoning"}
ProducedByGemini == {"parts"}
ProducedByResponses == {"items"}
ProducedByChat(r) == IF Provider[r] = "deepseek" THEN {"reasoning"}
                     ELSE IF Provider[r] = "google" THEN {"signature"} ELSE {}

Produced(r) ==
    LET kinds == CASE Protocol[r] = "messages" -> ProducedByMessages
                   [] Protocol[r] = "gemini" -> ProducedByGemini
                   [] Protocol[r] = "responses" -> ProducedByResponses
                   [] OTHER -> ProducedByChat(r)
    IN {[kind |-> k, from |-> r] : k \in kinds}

-----------------------------------------------------------------------------
(* A call.                                                                 *)

\* Fault: the keys before the one that answered last are not tried.
FaultKeyOrder(r) == IF r \in Backup /\ active[r] = 0 THEN <<0, 1>> ELSE <<active[r]>>

\* The key that answered last, then the ones behind it, then those before it.
KeyOrder(r) == IF r \in Backup THEN (IF active[r] = 0 THEN <<0, 1>> ELSE <<1, 0>>)
               ELSE <<0>>

\* _endpoint_for: the endpoint is read once.  A local route that vanished is
\* still asked.  A custom one (or a retired selector) is an error, and any
\* other that vanished is taken for a DeepSeek model, if DeepSeek has keys.
Endpoint(r) == [route |-> r, generation |-> catalog[r], active |-> active[r]]
Vanished(t) == call[t].endpoint.generation = 0
NoKeys(r) == /\ catalog[r] = 0 /\ r \notin Locals
             /\ r \in Custom \/ \A d \in DeepSeek : catalog[d] = 0

\* _chat starts on a route: without keys it raises, which ends the call at once
\* whatever other routes there are; an open circuit leaves no key to try.
Starts(t, r, failed, steady, sent) ==
    call' = [call EXCEPT ![t] =
        [place |-> IF NoKeys(r) THEN "unconfigured" ELSE IF tripped[r] # 0 THEN "exhausted" ELSE "request",
         endpoint |-> Endpoint(r), keys |-> IF tripped[r] # 0 THEN <<>> ELSE KeyOrder(r),
         tries |-> 0, failed |-> failed, steady |-> steady, sent |-> sent,
         asked |-> IF failed = {} THEN {} ELSE call[t].asked,
         skipped |-> (IF failed = {} THEN {} ELSE call[t].skipped) \cup (IF tripped[r] # 0 THEN {r} ELSE {}),
         home |-> IF failed = {} THEN r ELSE call[t].home]]

\* Local models without tools are no alternatives; all of these have them.
Configured == {r \in Routes : catalog[r] # 0}

\* chat: the engine's own route, or that of the team member who speaks, whose
\* conversation is a copy of the shared one.
Chat(t) ==
    /\ call[t] = Idle /\ used.calls < MaxCalls
    /\ used' = [used EXCEPT !.calls = @ + 1]
    /\ \E r \in (IF Team THEN Routes ELSE {bound[t]}) :
          /\ bound' = [bound EXCEPT ![t] = r]
          /\ told' = IF Team THEN [told EXCEPT ![t] = None] ELSE told
          /\ Starts(t, r, {}, Configured, history[t])
    /\ UNCHANGED <<shared, history>>

Asking(t) == call[t] # Idle /\ call[t].place = "request"
Asked(t) == call[t].endpoint.route
Ends(t) == call' = [call EXCEPT ![t] = Idle]

\* What the reply adds to the conversation; the engine appends it to its list.
Gained(t) == \E gained \in {{}, Produced(Asked(t))} : history' = [history EXCEPT ![t] = @ \cup gained]

\* A reply with content or calls.  Another key than at the start is remembered
\* and the circuit is closed.
Reply(t) ==
    /\ Asking(t) /\ (~Vanished(t) \/ Asked(t) \in Locals)
    /\ active' = IF Head(call[t].keys) = call[t].endpoint.active THEN active
                 ELSE [active EXCEPT ![Asked(t)] = Head(call[t].keys)]
    /\ tripped' = [tripped EXCEPT ![Asked(t)] = 0]
    /\ Gained(t) /\ Ends(t)
    /\ UNCHANGED <<catalog, bound, told, used>>

\* The Responses protocol of a relay recovers an HTTP 524; it touches neither
\* the key memory nor the circuit.
RecoveredByResponses(t) ==
    /\ Asking(t) /\ Asked(t) \in Relays /\ Provider[Asked(t)] = "openai" /\ ~Vanished(t)
    /\ Gained(t) /\ Ends(t)
    /\ UNCHANGED <<shared, bound, told, used>>

\* The next key, or none is left.
NextKey(t) ==
    call' = [call EXCEPT ![t].keys = Tail(@), ![t].tries = 0, ![t].asked = @ \cup {<<Asked(t), Head(call[t].keys)>>},
                         ![t].place = IF Len(call[t].keys) = 1 THEN "exhausted" ELSE "request"]

Again(t) == call[t].tries + 1 < Tries

\* An empty or malformed reply, a status that may pass, a broken connection.
TransientError(t) ==
    /\ Asking(t)
    /\ IF Again(t) THEN call' = [call EXCEPT ![t].tries = @ + 1] ELSE NextKey(t)
    /\ UNCHANGED <<shared, bound, told, history, used>>

\* A key that is refused, or a request that will not get better.
FinalError(t) ==
    /\ Asking(t) /\ NextKey(t)
    /\ UNCHANGED <<shared, bound, told, history, used>>

\* The relay does not serve the model: its circuit opens and no other key is
\* tried.
RelayRefuses(t) ==
    /\ Asking(t) /\ Asked(t) \in Relays
    /\ tripped' = [tripped EXCEPT ![Asked(t)] = call[t].endpoint.generation]
    /\ call' = [call EXCEPT ![t].keys = <<>>, ![t].place = "exhausted", ![t].skipped = @ \cup {Asked(t)}]
    /\ UNCHANGED <<catalog, active, bound, told, history, used>>

\* ContextWindowError ends the call; the engine compacts and calls again.
Overflows(t) ==
    /\ Asking(t) /\ Ends(t)
    /\ UNCHANGED <<shared, bound, told, history, used>>

\* Fault: only the route that just failed is left out.
FaultCandidates(t) == Configured \ {Asked(t)}

\* _model_failover_candidates: another company first, then the score.
Candidates(t) == Configured \ (call[t].failed \cup {Asked(t)})

Preferred(t) ==
    LET other(r) == Provider[r] # Provider[Asked(t)]
    IN CHOOSE r \in Candidates(t) : \A s \in Candidates(t) \ {r} :
          (other(r) /\ ~other(s)) \/ (other(r) = other(s) /\ Score[r] > Score[s])

\* Fault: only the list that is sent is cleaned, not the conversation.
FaultStripped(t) == history[t]

\* messages[:] = ...: the states of other routes leave the list the caller
\* passed; for a member of a team that is a copy of the conversation.
Stripped(t) == IF Team THEN history[t] ELSE {}

\* Fault: the identity note of the first failover stays.
FaultNote(t, r) == IF told[t] = None THEN r ELSE told[t]

Note(t, r) == r

\* The route failed: the task moves to the best alternative, with a note
\* about its identity, and stays there.
Failover(t) ==
    /\ call[t] # Idle /\ call[t].place = "exhausted" /\ Candidates(t) # {}
    /\ bound' = [bound EXCEPT ![t] = Preferred(t)]
    /\ told' = [told EXCEPT ![t] = Note(t, Preferred(t))]
    /\ call' = [call EXCEPT ![t].place = "announce", ![t].failed = @ \cup {Asked(t)}]
    /\ UNCHANGED <<shared, history, used>>

\* The failover was reported (an await): the call goes on.
Announced(t) ==
    /\ call[t] # Idle /\ call[t].place = "announce"
    /\ history' = [history EXCEPT ![t] = Stripped(t)]
    /\ Starts(t, bound[t], call[t].failed, call[t].steady, {})
    /\ UNCHANGED <<shared, bound, told, used>>

\* No alternative is left: the error lists the routes.
GiveUp(t) ==
    /\ call[t] # Idle /\ call[t].place = "exhausted" /\ Candidates(t) = {}
    /\ call' = [call EXCEPT ![t].place = "failed", ![t].failed = @ \cup {Asked(t)}]
    /\ UNCHANGED <<shared, bound, told, history, used>>

Failed(t) ==
    /\ call[t] # Idle /\ call[t].place \in {"failed", "unconfigured"} /\ Ends(t)
    /\ UNCHANGED <<shared, bound, told, history, used>>

-----------------------------------------------------------------------------
(* Settings, the local catalog and time.                                   *)

Changes == used.changes < MaxChanges /\ used' = [used EXCEPT !.changes = @ + 1]

\* A steady route was configured when the call began and did not change.
Unsteady(r) == [t \in Tasks |-> IF call[t] = Idle THEN Idle ELSE [call[t] EXCEPT !.steady = @ \ {r}]]

\* Both catalogs forget the key memory and the circuits of routes that are in neither; the
\* built-in DeepSeek routes are never in them.
Pruned(memory, configured) == [r \in Routes |-> IF r \in configured \ DeepSeek THEN memory[r] ELSE 0]

\* set_keys, set_provider_models: a route gets new keys or loses them.  A
\* circuit outlives the change only while the keys are the same.
ChangeKeys(r) ==
    /\ r \notin Locals /\ Changes
    /\ \E generation \in {0, used.changes + 2} :
          /\ generation # catalog[r]
          /\ catalog' = [catalog EXCEPT ![r] = generation]
          /\ active' = Pruned(active, {s \in Routes : catalog'[s] # 0})
          /\ tripped' = Pruned(tripped, {s \in Routes \ {r} : catalog'[s] # 0})
    /\ call' = Unsteady(r)
    /\ UNCHANGED <<bound, told, history>>

\* refresh_local_models: a runtime was started or stopped.
ProbeLocals ==
    /\ Locals # {} /\ Changes
    /\ \E found \in SUBSET Locals :
          /\ catalog' = [r \in Routes |-> IF r \in Locals THEN (IF r \in found THEN 1 ELSE 0) ELSE catalog[r]]
          /\ active' = Pruned(active, {s \in Routes : catalog'[s] # 0})
          /\ tripped' = Pruned(tripped, {s \in Routes : catalog'[s] # 0})
          /\ call' = [t \in Tasks |-> IF call[t] = Idle THEN Idle
                                      ELSE [call[t] EXCEPT !.steady = @ \ (Locals \ found)]]
    /\ UNCHANGED <<bound, told, history>>

\* Half an hour passed.
CoolsDown(r) ==
    /\ tripped[r] # 0 /\ Changes
    /\ tripped' = [tripped EXCEPT ![r] = 0]
    /\ UNCHANGED <<catalog, active, bound, told, history, call>>

Answered(t) == \/ Reply(t) \/ RecoveredByResponses(t) \/ TransientError(t)
               \/ FinalError(t) \/ RelayRefuses(t) \/ Overflows(t)
Client(t) == Answered(t) \/ Failover(t) \/ Announced(t) \/ GiveUp(t) \/ Failed(t)

Next ==
    \/ \E t \in Tasks : Chat(t) \/ Client(t)
    \/ \E r \in Routes : ChangeKeys(r) \/ CoolsDown(r)
    \/ ProbeLocals

\* Requests have a timeout, so each of them ends in some way.
Spec == Init /\ [][Next]_vars /\ \A t \in Tasks : WF_vars(Client(t))

-----------------------------------------------------------------------------
(* What the client promises.                                               *)

\* A call that gives up (all configured routes are unavailable) was failed by
\* every route that stayed configured during the call, with each of its keys:
\* no remembered key and no change of the settings or of the local catalog
\* makes it skip one, and a circuit only those of a relay.  It ends without
\* having tried the others only where the very route it is on lost its keys
\* (it is unconfigured).
FailsOnlyWhenExhausted ==
    \A t \in Tasks : call[t] # Idle =>
        /\ call[t].place = "unconfigured" => Asked(t) \notin call[t].steady
        /\ call[t].skipped \subseteq Relays
        /\ call[t].place = "failed" => \A r \in call[t].steady :
              /\ r \in call[t].failed
              /\ r \notin call[t].skipped => \A k \in (IF r \in Backup THEN {0, 1} ELSE {0}) : <<r, k>> \in call[t].asked

\* deepseek.py:1774: "Preserve the complete bounded route history", which an
\* error that shows "only the last provider's error" would hide.  A call that
\* failed over ends with the error that lists its routes.
HistoryIsReported ==
    \A t \in Tasks : (call[t] # Idle /\ call[t].place = "unconfigured") => call[t].failed = {}

\* While a task runs on a route that a failover chose, each of its requests
\* carries a note that names this route (_model_failover_identity).
IdentityMatches ==
    \A t \in Tasks : Asking(t) => told[t] \in {None, Asked(t)} /\ (Asked(t) # call[t].home => told[t] = Asked(t))

\* deepseek.py:1760: the cleanup is persisted, since otherwise "the old model's
\* opaque state [would] reappear on the very next Agent step".  A request
\* carries only provider states of the route it goes to.
StatesStayHome ==
    \A t \in Tasks : (Asking(t) /\ ~Vanished(t)) => \A s \in Carried(Asked(t), call[t].sent) : s.from = Asked(t)

\* tests/test_model_providers.py:112: a changed key clears the stale cooldown
\* of its route.  A circuit is open for the keys that opened it.
CircuitIsCurrent == \A r \in Routes : tripped[r] # 0 => tripped[r] = catalog[r]

\* A call ends: the number of routes bounds the failovers.
CallEnds == \A t \in Tasks : []<>(call[t] = Idle)
=============================================================================
