----------------------------- MODULE RemoteProofs -----------------------------
(***************************************************************************)
(* Theorems about the clients of remote services (MCRemote).               *)
(*                                                                         *)
(* The model client.  That a call fails only when everything was tried     *)
(* follows from what is left to try: the keys still in the list of the     *)
(* call and those already asked make up all keys of its route (Keyed).     *)
(* That its note names the right route follows from who is bound to what   *)
(* while a failover is announced (Named).  Provider states stay with their *)
(* route between a failover and its cleanup (Clean), outside a team.       *)
(*                                                                         *)
(* The poll loop of Telegram.  What was admitted is passed by the offset   *)
(* of its bot or by what the server keeps, so it does not come again       *)
(* (Once), and it waits in one place or has one task (Places).  What is    *)
(* passed was handled first, because the updates of an answer come in the  *)
(* order of their ids (Kept).                                              *)
(*                                                                         *)
(* The streamed reply.  Each call that has begun owns one place of the     *)
(* accumulator, which holds what was received of it (Owned, InBlocks);     *)
(* where chunks bear no index, the order of the calls says which place     *)
(* (InTurn).  So the next chunk finds its own place or opens a new one.    *)
(***************************************************************************)
EXTENDS MCRemote, FiniteSetTheorems, FunctionTheorems, TLAPS

-----------------------------------------------------------------------------
(* The inductive invariant.                                                *)

\* The lists of keys a route may have left, and its keys: a second one if it
\* has a backup.
KeyLists == {<<>>, <<0>>, <<1>>, <<0, 1>>, <<1, 0>>}
KeysOf(r) == IF r \in Backup THEN {0, 1} ELSE {0}

\* The type of a call, with the route, catalog and key it was built for.
CallType == [place : {"request", "exhausted", "announce", "failed", "unconfigured"},
             endpoint : [route : Routes, generation : 0 .. MaxChanges + 1, active : 0 .. 1],
             keys : KeyLists, tries : 0 .. Tries - 1, failed : SUBSET Routes,
             steady : SUBSET Routes, sent : SUBSET States, asked : SUBSET (Routes \X (0 .. 1)),
             skipped : SUBSET Routes, home : Routes]

\* The types of the variables.
Typed ==
    /\ catalog \in [Routes -> 0 .. MaxChanges + 1]
    /\ active \in [Routes -> 0 .. 1] /\ tripped \in [Routes -> 0 .. MaxChanges + 1]
    /\ bound \in [Tasks -> Routes] /\ told \in [Tasks -> Routes \cup {None}]
    /\ history \in [Tasks -> SUBSET States]
    /\ call \in [Tasks -> CallType \cup {Idle}]
    /\ used \in [changes : 0 .. MaxChanges, calls : Nat]

\* Only a relay opens a circuit.
Circuits == \A r \in Routes : tripped[r] # 0 => r \in Relays

\* The keys of the route asked: those to come and those that were asked.
KeysLeft(c) ==
    /\ c.place = "request" => c.keys # <<>>
    /\ c.place = "exhausted" => c.keys = <<>>
    /\ c.place \in {"request", "exhausted"} /\ c.endpoint.route \notin c.skipped =>
          \A k \in KeysOf(c.endpoint.route) :
              (\E i \in DOMAIN c.keys : c.keys[i] = k) \/ <<c.endpoint.route, k>> \in c.asked

\* A route that failed was asked with each of its keys, or is a relay that its
\* circuit passed over.
Tried(c) == /\ \A r \in c.failed \ c.skipped : \A k \in KeysOf(r) : <<r, k>> \in c.asked
            /\ c.skipped \subseteq Relays

\* What a call that failed left untried was not configured all the time.
Steady(c) ==
    /\ c.steady \subseteq Configured
    /\ c.place = "failed" => c.steady \subseteq c.failed
    /\ c.place = "announce" => c.failed # {}
    /\ c.place = "unconfigured" => c.endpoint.route \notin c.steady

\* What the keys of every call say.
Keyed == Circuits /\ \A t \in Tasks : call[t] # Idle => KeysLeft(call[t]) /\ Tried(call[t]) /\ Steady(call[t])

\* The note of a task, its route and the route of its call.
Named ==
    \A t \in Tasks :
        /\ told[t] \in {None, bound[t]}
        /\ call[t] # Idle =>
              /\ call[t].place # "announce" => Asked(t) = bound[t] /\ (Asked(t) # call[t].home => told[t] = bound[t])
              /\ call[t].place = "announce" => told[t] = bound[t]

\* The states of a conversation are from the route of its task, except
\* between a failover and the cleanup.
Clean ==
    \A t \in Tasks :
        /\ call[t] = Idle \/ call[t].place # "announce" => \A s \in history[t] : s.from = bound[t]
        /\ Asking(t) => \A s \in call[t].sent : s.from = Asked(t)

IInv == Typed /\ Keyed /\ Named

-----------------------------------------------------------------------------
(* Scores and routes.                                                      *)

\* Every nonempty set of naturals has a least element: the induction the
\* proofs about scores need, stated of a set.
LEMMA Minimum ==
    ASSUME NEW T \in SUBSET Nat, T # {}
    PROVE  \E n \in T : \A m \in T : ~(m < n)
<1> DEFINE R == {ss \in Nat \X Nat : ss[1] < ss[2]}
<1>1. IsWellFoundedOn(R, Nat)
  BY NatLessThanWellFounded DEF OpToRel
<1> HIDE DEF R
<1>2. PICK n \in T : \A m \in T : ~(<<m, n>> \in R)
  BY <1>1, WFMin
<1>3. QED
  BY <1>2 DEF R

\* Of finitely many routes one has the highest score.
LEMMA HighestScore ==
    ASSUME NEW S \in SUBSET Routes, S # {}
    PROVE  \E r \in S : \A s \in S \ {r} : Score[r] > Score[s]
<1> DEFINE Has(A) == \E r \in A : \A s \in A \ {r} : Score[r] > Score[s]
           Bad == {n \in Nat : \E A \in SUBSET Routes :
                      A # {} /\ Cardinality(A) = n /\ ~Has(A)}
<1>1. ASSUME Bad # {} PROVE FALSE
  <2>2. PICK n \in Bad : \A m \in Bad : ~(m < n)
    <3> HIDE DEF Bad
    <3> QED BY <1>1, Minimum DEF Bad
  <2>3. PICK A \in SUBSET Routes : A # {} /\ Cardinality(A) = n /\ ~Has(A)
    BY <2>2
  <2>4. PICK x \in A : TRUE
    BY <2>3
  <2> DEFINE B == A \ {x}
  <2>5. IsFiniteSet(A)
    BY FS_Subset, ClientAssumption
  <2>6. Cardinality(B) \in Nat /\ Cardinality(B) = n - 1
    BY <2>3, <2>4, <2>5, FS_RemoveElement, FS_CardinalityType
  <2>7. CASE B = {}
    BY <2>3, <2>4, <2>7
  <2>8. CASE B # {}
    <3>1. Cardinality(B) \notin Bad
      <4>1. n \in Nat
        OBVIOUS
      <4> HIDE DEF Bad, B
      <4> QED BY <2>2, <2>6, <4>1
    <3>2. Has(B)
      BY <2>6, <2>8, <3>1
    <3>3. PICK r \in B : \A s \in B \ {r} : Score[r] > Score[s]
      BY <3>2
    <3>4. Score \in [Routes -> Nat] /\ Score[r] # Score[x]
      BY <3>3, <2>4, ClientAssumption
    <3>5. (\A s \in A \ {r} : Score[r] > Score[s]) \/ (\A s \in A \ {x} : Score[x] > Score[s])
      BY <2>4, <3>3, <3>4
    <3>6. QED
      BY <2>3, <2>4, <3>5
  <2>9. QED
    BY <2>7, <2>8
<1>2. IsFiniteSet(S) /\ Cardinality(S) \in Nat
  BY FS_Subset, FS_CardinalityType, ClientAssumption
<1>3. QED
  BY <1>1, <1>2

-----------------------------------------------------------------------------
\* The route that is preferred is one of those offered.
LEMMA PreferredIsCandidate ==
    ASSUME NEW t \in Tasks, Candidates(t) # {}
    PROVE  Preferred(t) \in Candidates(t)
<1> DEFINE other(r) == Provider[r] # Provider[Asked(t)]
           Best(r) == \A s \in Candidates(t) \ {r} :
                        (other(r) /\ ~other(s)) \/ (other(r) = other(s) /\ Score[r] > Score[s])
           Others == {r \in Candidates(t) : other(r)}
<1>1. Candidates(t) \subseteq Routes
  BY DEF Candidates, Configured
<1>2. \E r \in Candidates(t) : Best(r)
  <2>1. CASE Others # {}
    <3>1. PICK r \in Others : \A s \in Others \ {r} : Score[r] > Score[s]
      BY <1>1, <2>1, HighestScore
    <3>2. QED
      BY <3>1
  <2>2. CASE Others = {}
    <3>1. PICK r \in Candidates(t) : \A s \in Candidates(t) \ {r} : Score[r] > Score[s]
      BY <1>1, HighestScore
    <3>2. QED
      BY <2>2, <3>1
  <2>3. QED
    BY <2>1, <2>2
<1>3. QED
  BY <1>2 DEF Preferred

\* A new start has every key of the route ahead of it.
LEMMA KeyOrderComplete ==
    ASSUME NEW r \in Routes
    PROVE  /\ KeyOrder(r) # <<>>
           /\ \A k \in KeysOf(r) : \E i \in DOMAIN KeyOrder(r) : KeyOrder(r)[i] = k
<1>1. CASE r \notin Backup
  BY <1>1 DEF KeyOrder, KeysOf
<1>2. CASE r \in Backup /\ active[r] = 0
  BY <1>2 DEF KeyOrder, KeysOf
<1>3. CASE r \in Backup /\ active[r] # 0
  BY <1>3 DEF KeyOrder, KeysOf
<1>4. QED
  BY <1>1, <1>2, <1>3

\* A step of one task keeps the calls of the others.
LEMMA OneCall ==
    ASSUME Typed, NEW t \in Tasks, NEW n \in CallType \cup {Idle}, call' = [call EXCEPT ![t] = n]
    PROVE  /\ call' \in [Tasks -> CallType \cup {Idle}] /\ call'[t] = n
           /\ \A u \in Tasks \ {t} : call'[u] = call[u]
  BY DEF Typed

\* What a call in progress is.
LEMMA InCall ==
    ASSUME Typed, NEW t \in Tasks, call[t] # Idle
    PROVE  call[t] \in CallType /\ Asked(t) \in Routes
  BY DEF Typed, CallType, Asked

\* A step of a call that changes some of its fields.
CallStep(t, place, keys, tries, failed, asked, skipped) ==
    /\ call' \in [Tasks -> CallType \cup {Idle}]
    /\ call'[t] \in CallType
    /\ call'[t].place = place /\ call'[t].keys = keys /\ call'[t].tries = tries
    /\ call'[t].failed = failed /\ call'[t].asked = asked /\ call'[t].skipped = skipped
    /\ call'[t].endpoint = call[t].endpoint /\ call'[t].steady = call[t].steady
    /\ call'[t].sent = call[t].sent /\ call'[t].home = call[t].home
    /\ \A u \in Tasks \ {t} : call'[u] = call[u]

\* A call that starts on a route, or goes on there after a failover.
Started(t, r, failed, steady, carried) ==
    /\ call' \in [Tasks -> CallType \cup {Idle}]
    /\ call'[t] \in CallType
    /\ call'[t].endpoint.route = r /\ call'[t].failed = failed
    /\ call'[t].steady = steady /\ call'[t].sent = carried
    /\ call'[t].home = IF failed = {} THEN r ELSE call[t].home
    /\ call'[t].asked = IF failed = {} THEN {} ELSE call[t].asked
    /\ call'[t].skipped = (IF failed = {} THEN {} ELSE call[t].skipped) \cup (IF tripped[r] # 0 THEN {r} ELSE {})
    /\ \/ call'[t].place = "unconfigured" /\ catalog[r] = 0
       \/ call'[t].place = "exhausted" /\ tripped[r] # 0 /\ call'[t].keys = <<>>
       \/ call'[t].place = "request" /\ tripped[r] = 0 /\ call'[t].keys = KeyOrder(r)
    /\ \A u \in Tasks \ {t} : call'[u] = call[u]

\* A call starts with the routes of its settings and nothing refused.
LEMMA StartsStep ==
    ASSUME Typed, NEW t \in Tasks, NEW r \in Routes, NEW failed \in SUBSET Routes,
           NEW steady \in SUBSET Routes, NEW carried \in SUBSET States,
           failed # {} => call[t] \in CallType, Starts(t, r, failed, steady, carried)
    PROVE  Started(t, r, failed, steady, carried)
<1> DEFINE place == IF NoKeys(r) THEN "unconfigured" ELSE IF tripped[r] # 0 THEN "exhausted" ELSE "request"
           keys == IF tripped[r] # 0 THEN <<>> ELSE KeyOrder(r)
           asked == IF failed = {} THEN {} ELSE call[t].asked
           home == IF failed = {} THEN r ELSE call[t].home
           skipped == (IF failed = {} THEN {} ELSE call[t].skipped) \cup (IF tripped[r] # 0 THEN {r} ELSE {})
           n == [place |-> place, endpoint |-> Endpoint(r), keys |-> keys, tries |-> 0,
                 failed |-> failed, steady |-> steady, sent |-> carried, asked |-> asked,
                 skipped |-> skipped, home |-> home]
<1>1. call' = [call EXCEPT ![t] = n]
  BY DEF Starts
<1>2. KeyOrder(r) \in KeyLists
  BY DEF KeyOrder, KeyLists
<1>3. keys \in KeyLists
  BY <1>2 DEF KeyLists
<1>4. Endpoint(r) \in [route : Routes, generation : 0 .. MaxChanges + 1, active : 0 .. 1] /\ Endpoint(r).route = r
  BY DEF Endpoint, Typed
<1>5. asked \in SUBSET (Routes \X (0 .. 1)) /\ home \in Routes /\ skipped \in SUBSET Routes
  BY DEF CallType
<1>6. place \in {"unconfigured", "exhausted", "request"} /\ 0 \in 0 .. Tries - 1
  BY ClientAssumption
<1>7. \/ place = "unconfigured" /\ catalog[r] = 0
      \/ place = "exhausted" /\ tripped[r] # 0 /\ keys = <<>>
      \/ place = "request" /\ tripped[r] = 0 /\ keys = KeyOrder(r)
  BY DEF NoKeys
<1> HIDE DEF place, keys, asked, home, skipped
<1>8. n \in CallType
  BY <1>3, <1>4, <1>5, <1>6 DEF CallType
<1>9. /\ n.place = place /\ n.endpoint = Endpoint(r) /\ n.keys = keys /\ n.failed = failed
      /\ n.steady = steady /\ n.sent = carried /\ n.asked = asked /\ n.home = home
      /\ n.skipped = skipped
  OBVIOUS
<1> HIDE DEF n
<1>10. QED
  BY <1>1, <1>4, <1>7, <1>8, <1>9, OneCall DEF asked, home, skipped, Started

\* What is left of a list of keys.
LEMMA KeyTails ==
    ASSUME NEW keys \in KeyLists, keys # <<>>
    PROVE  /\ Head(keys) \in 0 .. 1 /\ Tail(keys) \in KeyLists
           /\ (Len(keys) = 1) <=> (Tail(keys) = <<>>)
           /\ \A i \in DOMAIN keys : keys[i] = Head(keys) \/ \E j \in DOMAIN Tail(keys) : Tail(keys)[j] = keys[i]
<1>1. keys \in {<<0>>, <<1>>, <<0, 1>>, <<1, 0>>}
  BY DEF KeyLists
<1>2. CASE keys = <<0>>
  BY <1>2 DEF KeyLists
<1>3. CASE keys = <<1>>
  BY <1>3 DEF KeyLists
<1>4. CASE keys = <<0, 1>>
  BY <1>4 DEF KeyLists
<1>5. CASE keys = <<1, 0>>
  BY <1>5 DEF KeyLists
<1>6. QED
  BY <1>1, <1>2, <1>3, <1>4, <1>5

\* The next key of a route, or the end of its keys.
LEMMA NextKeyStep ==
    ASSUME Typed, NEW t \in Tasks, Asking(t), call[t].keys # <<>>, NextKey(t)
    PROVE  CallStep(t, IF Len(call[t].keys) = 1 THEN "exhausted" ELSE "request", Tail(call[t].keys), 0,
                    call[t].failed, call[t].asked \cup {<<Asked(t), Head(call[t].keys)>>}, call[t].skipped)
<1> DEFINE c == call[t]
           asked == c.asked \cup {<<Asked(t), Head(c.keys)>>}
           place == IF Len(c.keys) = 1 THEN "exhausted" ELSE "request"
           n == [c EXCEPT !.keys = Tail(c.keys), !.tries = 0, !.asked = asked, !.place = place]
<1>1. c \in CallType
  BY InCall DEF Asking
<1>2. call' = [call EXCEPT ![t] = n]
  BY <1>1 DEF NextKey, Typed
<1>3. Tail(c.keys) \in KeyLists /\ Head(c.keys) \in 0 .. 1
  BY <1>1, KeyTails DEF CallType
<1>4. asked \in SUBSET (Routes \X (0 .. 1))
  BY <1>1, <1>3 DEF CallType, Asked
<1>5. 0 \in 0 .. Tries - 1 /\ place \in {"request", "exhausted"}
  BY ClientAssumption
<1> HIDE DEF asked, place, c
<1>6. n \in CallType
  BY <1>1, <1>3, <1>4, <1>5 DEF CallType
<1>7. /\ n.place = place /\ n.keys = Tail(c.keys) /\ n.tries = 0 /\ n.failed = c.failed /\ n.asked = asked
      /\ n.endpoint = c.endpoint /\ n.steady = c.steady /\ n.sent = c.sent /\ n.home = c.home /\ n.skipped = c.skipped
  BY <1>1 DEF CallType
<1> HIDE DEF n
<1>8. QED
  BY <1>2, <1>6, <1>7, OneCall DEF CallStep, c, asked, place

\* Another attempt with the same key.
LEMMA AgainStep ==
    ASSUME Typed, NEW t \in Tasks, Asking(t), Again(t), call' = [call EXCEPT ![t].tries = @ + 1]
    PROVE  CallStep(t, "request", call[t].keys, call[t].tries + 1, call[t].failed, call[t].asked, call[t].skipped)
<1> DEFINE c == call[t]
           n == [c EXCEPT !.tries = c.tries + 1]
<1>1. c \in CallType /\ c.place = "request"
  BY InCall DEF Asking
<1>2. call' = [call EXCEPT ![t] = n]
  BY <1>1 DEF Typed
<1>3. c.tries + 1 \in 0 .. Tries - 1
  BY <1>1, ClientAssumption DEF Again, CallType
<1> HIDE DEF c
<1>4. n \in CallType
  BY <1>1, <1>3 DEF CallType
<1>5. /\ n.place = c.place /\ n.keys = c.keys /\ n.tries = c.tries + 1 /\ n.failed = c.failed /\ n.asked = c.asked
      /\ n.endpoint = c.endpoint /\ n.steady = c.steady /\ n.sent = c.sent /\ n.home = c.home /\ n.skipped = c.skipped
  BY <1>1 DEF CallType
<1>6. QED
  BY <1>1, <1>2, <1>4, <1>5, OneCall DEF CallStep, c

\* The route failed, or it is not to be asked any more.
LEMMA PlaceStep ==
    ASSUME Typed, NEW t \in Tasks, call[t] # Idle,
           NEW place \in {"exhausted", "announce", "failed"}, NEW keys \in {<<>>, call[t].keys},
           NEW failed \in {call[t].failed, call[t].failed \cup {Asked(t)}},
           NEW skipped \in {call[t].skipped, call[t].skipped \cup {Asked(t)}},
           call' = [call EXCEPT ![t].keys = keys, ![t].place = place, ![t].failed = failed, ![t].skipped = skipped]
    PROVE  CallStep(t, place, keys, call[t].tries, failed, call[t].asked, skipped)
<1> DEFINE c == call[t]
           n == [c EXCEPT !.keys = keys, !.place = place, !.failed = failed, !.skipped = skipped]
<1>1. c \in CallType /\ Asked(t) \in Routes
  BY InCall
<1>2. call' = [call EXCEPT ![t] = n]
  BY <1>1 DEF Typed
<1>3. keys \in KeyLists /\ failed \in SUBSET Routes /\ skipped \in SUBSET Routes
  BY <1>1 DEF CallType, KeyLists
<1> HIDE DEF c
<1>4. n \in CallType
  BY <1>1, <1>3 DEF CallType
<1>5. /\ n.place = place /\ n.keys = keys /\ n.tries = c.tries /\ n.failed = failed /\ n.asked = c.asked
      /\ n.endpoint = c.endpoint /\ n.steady = c.steady /\ n.sent = c.sent /\ n.home = c.home /\ n.skipped = skipped
  BY <1>1 DEF CallType
<1>6. QED
  BY <1>1, <1>2, <1>4, <1>5, OneCall DEF CallStep, c

\* A refusal by a relay ends with its route.
LEMMA RelayStep ==
    ASSUME Typed, NEW t \in Tasks, RelayRefuses(t)
    PROVE  CallStep(t, "exhausted", <<>>, call[t].tries, call[t].failed, call[t].asked,
                    call[t].skipped \cup {Asked(t)})
<1>1. call[t] \in CallType /\ call[t] # Idle
  BY InCall DEF RelayRefuses, Asking
<1>2. call' = [call EXCEPT ![t].keys = <<>>, ![t].place = "exhausted", ![t].failed = call[t].failed,
                            ![t].skipped = call[t].skipped \cup {Asked(t)}]
  BY <1>1 DEF RelayRefuses, Typed, CallType, Asking
<1>3. QED
  BY <1>1, <1>2, PlaceStep

\* A failed call goes on to another route.
LEMMA FailoverStep ==
    ASSUME Typed, NEW t \in Tasks, Failover(t)
    PROVE  CallStep(t, "announce", call[t].keys, call[t].tries, call[t].failed \cup {Asked(t)}, call[t].asked, call[t].skipped)
<1>1. call[t] \in CallType /\ call[t] # Idle
  BY InCall DEF Failover
<1>2. call' = [call EXCEPT ![t].keys = call[t].keys, ![t].place = "announce", ![t].failed = call[t].failed \cup {Asked(t)},
                            ![t].skipped = call[t].skipped]
  BY <1>1 DEF Failover, Typed, CallType
<1>3. QED
  BY <1>1, <1>2, PlaceStep

\* A call gives up when no route is left.
LEMMA GiveUpStep ==
    ASSUME Typed, NEW t \in Tasks, GiveUp(t)
    PROVE  CallStep(t, "failed", call[t].keys, call[t].tries, call[t].failed \cup {Asked(t)}, call[t].asked, call[t].skipped)
<1>1. call[t] \in CallType /\ call[t] # Idle
  BY InCall DEF GiveUp
<1>2. call' = [call EXCEPT ![t].keys = call[t].keys, ![t].place = "failed", ![t].failed = call[t].failed \cup {Asked(t)},
                            ![t].skipped = call[t].skipped]
  BY <1>1 DEF GiveUp, Typed, CallType
<1>3. QED
  BY <1>1, <1>2, PlaceStep

\* The settings only narrow what a call counts as steady.
LEMMA SettingsStep ==
    ASSUME Typed, NEW S \in SUBSET Routes,
           call' = [t \in Tasks |-> IF call[t] = Idle THEN Idle ELSE [call[t] EXCEPT !.steady = @ \ S]]
    PROVE  /\ call' \in [Tasks -> CallType \cup {Idle}]
           /\ \A t \in Tasks : (call'[t] = Idle) <=> (call[t] = Idle)
           /\ \A t \in Tasks : call[t] # Idle =>
                /\ call'[t] \in CallType
                /\ call'[t].place = call[t].place /\ call'[t].keys = call[t].keys /\ call'[t].failed = call[t].failed
                /\ call'[t].asked = call[t].asked /\ call'[t].endpoint = call[t].endpoint
                /\ call'[t].sent = call[t].sent /\ call'[t].home = call[t].home /\ call'[t].skipped = call[t].skipped
                /\ call'[t].steady = call[t].steady \ S
<1>1. ASSUME NEW t \in Tasks, call[t] # Idle
      PROVE  /\ call'[t] # Idle /\ call'[t] \in CallType
             /\ call'[t].place = call[t].place /\ call'[t].keys = call[t].keys /\ call'[t].failed = call[t].failed
             /\ call'[t].asked = call[t].asked /\ call'[t].endpoint = call[t].endpoint
             /\ call'[t].sent = call[t].sent /\ call'[t].home = call[t].home /\ call'[t].skipped = call[t].skipped
             /\ call'[t].steady = call[t].steady \ S
  <2> DEFINE c == call[t]
  <2>1. c \in CallType /\ call'[t] = [c EXCEPT !.steady = c.steady \ S]
    BY <1>1, InCall
  <2> HIDE DEF c
  <2>2. [c EXCEPT !.steady = c.steady \ S] \in CallType
    BY <2>1 DEF CallType
  <2>3. \A n \in CallType : n # Idle
    BY DEF CallType, Idle
  <2>4. QED
    BY <2>1, <2>2, <2>3 DEF CallType, c
<1>2. QED
  BY <1>1

\* What an answer adds to the conversation are states of the route asked.
LEMMA GainedStates ==
    ASSUME Typed, NEW t \in Tasks, call[t] # Idle, Gained(t)
    PROVE  /\ history' \in [Tasks -> SUBSET States]
           /\ \A s \in history'[t] : s \in history[t] \/ s.from = Asked(t)
           /\ \A u \in Tasks \ {t} : history'[u] = history[u]
<1>1. PICK gained \in {{}, Produced(Asked(t))} : history' = [history EXCEPT ![t] = @ \cup gained]
  BY DEF Gained
<1>2. Asked(t) \in Routes
  BY InCall
<1>3. \A s \in gained : s \in States /\ s.from = Asked(t)
  BY <1>2 DEF Produced, ProducedByMessages, ProducedByGemini, ProducedByResponses, ProducedByChat, States, Kinds
<1>4. QED
  BY <1>1, <1>3 DEF Typed

\* Once a failover is announced the call starts again, at the route it chose.
LEMMA AnnouncedStep ==
    ASSUME Typed, NEW t \in Tasks, Announced(t)
    PROVE  Started(t, bound[t], call[t].failed, call[t].steady, {})
<1>1. call[t] \in CallType
  BY InCall DEF Announced
<1>2. bound[t] \in Routes /\ call[t].failed \in SUBSET Routes /\ call[t].steady \in SUBSET Routes
  BY <1>1 DEF Typed, CallType
<1>3. {} \in SUBSET States
  OBVIOUS
<1>4. Starts(t, bound[t], call[t].failed, call[t].steady, {})
  BY DEF Announced
<1>5. QED
  BY <1>1, <1>2, <1>3, <1>4, StartsStep, Zenon

\* Every step keeps the types.
LEMMA NextTyped == ASSUME Typed, Keyed, [Next]_vars PROVE Typed'
<1> USE ClientAssumption
<1>1. ASSUME NEW t \in Tasks, Chat(t) PROVE Typed'
  <2>1. PICK r \in Routes : /\ bound' = [bound EXCEPT ![t] = r]
                            /\ told' = IF Team THEN [told EXCEPT ![t] = None] ELSE told
                            /\ Starts(t, r, {}, Configured, history[t])
    BY <1>1 DEF Chat, Typed
  <2>2. Configured \in SUBSET Routes /\ history[t] \in SUBSET States
    BY DEF Typed, Configured
  <2>3. call' \in [Tasks -> CallType \cup {Idle}]
    BY <2>1, <2>2, StartsStep DEF Started
  <2>4. told' \in [Tasks -> Routes \cup {None}] /\ bound' \in [Tasks -> Routes]
    BY <2>1 DEF Typed
  <2>5. used' \in [changes : 0 .. MaxChanges, calls : Nat]
    BY <1>1 DEF Chat, Typed
  <2>6. QED
    BY <1>1, <2>3, <2>4, <2>5 DEF Chat, Typed, shared
<1>2. ASSUME NEW t \in Tasks, Asking(t) PROVE call[t] \in CallType /\ call[t].keys # <<>> /\ Asked(t) \in Routes /\ call[t] # Idle
  BY <1>2, InCall DEF Asking, Keyed, KeysLeft
<1>3. ASSUME NEW t \in Tasks, Reply(t) PROVE Typed'
  <2>1. Asking(t) /\ Head(call[t].keys) \in 0 .. 1
    BY <1>2, <1>3, KeyTails DEF Reply, CallType
  <2>2. history' \in [Tasks -> SUBSET States] /\ Asked(t) \in Routes
    BY <1>2, <1>3, <2>1, GainedStates DEF Reply
  <2>3. active' \in [Routes -> 0 .. 1]
    BY <1>3, <2>1, <2>2 DEF Reply, Typed
  <2>4. tripped' \in [Routes -> 0 .. MaxChanges + 1] /\ call' \in [Tasks -> CallType \cup {Idle}]
    BY <1>3, <2>2 DEF Reply, Ends, Typed
  <2>5. QED
    BY <1>3, <2>2, <2>3, <2>4 DEF Reply, Typed
<1>4. ASSUME NEW t \in Tasks, RecoveredByResponses(t) PROVE Typed'
  <2>1. history' \in [Tasks -> SUBSET States]
    BY <1>2, <1>4, GainedStates DEF RecoveredByResponses
  <2>2. QED
    BY <1>4, <2>1 DEF RecoveredByResponses, Ends, Typed, shared
<1>5. ASSUME NEW t \in Tasks, TransientError(t) PROVE Typed'
  BY <1>2, <1>5, AgainStep, NextKeyStep DEF TransientError, CallStep, Typed, shared
<1>6. ASSUME NEW t \in Tasks, FinalError(t) PROVE Typed'
  BY <1>2, <1>6, NextKeyStep DEF FinalError, CallStep, Typed, shared
<1>7. ASSUME NEW t \in Tasks, RelayRefuses(t) PROVE Typed'
  BY <1>2, <1>7, RelayStep DEF RelayRefuses, CallStep, Typed, CallType
<1>8. ASSUME NEW t \in Tasks, Overflows(t) PROVE Typed'
  BY <1>8 DEF Overflows, Ends, Typed, shared
<1>9. ASSUME NEW t \in Tasks, Failover(t) PROVE Typed'
  <2>1. Preferred(t) \in Routes
    BY <1>9, PreferredIsCandidate DEF Failover, Candidates, Configured
  <2>2. QED
    BY <1>9, <2>1, FailoverStep DEF Failover, Note, CallStep, Typed, shared
<1>10. ASSUME NEW t \in Tasks, Announced(t) PROVE Typed'
  <2>1. call[t] \in CallType
    BY <1>10, InCall DEF Announced
  <2>2. call' \in [Tasks -> CallType \cup {Idle}]
    BY <1>10, AnnouncedStep DEF Started
  <2>3. QED
    BY <1>10, <2>2 DEF Announced, Stripped, Typed, shared
<1>11. ASSUME NEW t \in Tasks, GiveUp(t) PROVE Typed'
  BY <1>11, GiveUpStep DEF GiveUp, CallStep, Typed, shared
<1>12. ASSUME NEW t \in Tasks, Failed(t) PROVE Typed'
  BY <1>12 DEF Failed, Ends, Typed, shared
<1>13. ASSUME NEW r \in Routes, ChangeKeys(r) PROVE Typed'
  <2>1. call' \in [Tasks -> CallType \cup {Idle}]
    <3>1. {r} \in SUBSET Routes
      OBVIOUS
    <3>2. call' = [t \in Tasks |-> IF call[t] = Idle THEN Idle ELSE [call[t] EXCEPT !.steady = @ \ {r}]]
      BY <1>13 DEF ChangeKeys, Unsteady
    <3>3. QED
      BY <3>1, <3>2, SettingsStep
  <2>2. QED
    BY <1>13, <2>1 DEF ChangeKeys, Changes, Pruned, Typed
<1>14. ASSUME NEW r \in Routes, CoolsDown(r) PROVE Typed'
  BY <1>14 DEF CoolsDown, Changes, Typed
<1>15. ASSUME ProbeLocals PROVE Typed'
  <2>1. PICK found \in SUBSET Locals :
          /\ catalog' = [r \in Routes |-> IF r \in Locals THEN (IF r \in found THEN 1 ELSE 0) ELSE catalog[r]]
          /\ active' = Pruned(active, {s \in Routes : catalog'[s] # 0})
          /\ tripped' = Pruned(tripped, {s \in Routes : catalog'[s] # 0})
          /\ call' = [t \in Tasks |-> IF call[t] = Idle THEN Idle
                                      ELSE [call[t] EXCEPT !.steady = @ \ (Locals \ found)]]
    BY <1>15 DEF ProbeLocals
  <2>2. call' \in [Tasks -> CallType \cup {Idle}]
    <3>1. (Locals \ found) \in SUBSET Routes
      BY DEF Locals
    <3>2. QED
      BY <2>1, <3>1, SettingsStep
  <2>3. QED
    BY <1>15, <2>1, <2>2 DEF ProbeLocals, Changes, Pruned, Typed
<1>16. CASE UNCHANGED vars
  BY <1>16 DEF vars, shared, Typed
<1>17. QED
  BY <1>1, <1>3, <1>4, <1>5, <1>6, <1>7, <1>8, <1>9, <1>10, <1>11, <1>12, <1>13, <1>14, <1>15, <1>16
     DEF Next, Client, Answered

\* What a step of one call owes the keys.
LEMMA KeyedStep ==
    ASSUME Keyed, Circuits', catalog' = catalog, NEW t \in Tasks,
           \A u \in Tasks \ {t} : call'[u] = call[u],
           call'[t] # Idle => KeysLeft(call'[t]) /\ Tried(call'[t]) /\ (Steady(call[t]))'
    PROVE  Keyed'
<1>1. ASSUME NEW u \in Tasks, u # t, call'[u] # Idle
      PROVE  KeysLeft(call'[u]) /\ Tried(call'[u]) /\ Steady(call[u])'
  BY <1>1 DEF Keyed, Steady, Configured, KeysLeft, Tried
<1>2. QED
  BY <1>1 DEF Keyed, KeysLeft, Tried

\* Every step keeps what the keys of a call say.
LEMMA NextKeyed == ASSUME Typed, Keyed, Named, [Next]_vars PROVE Keyed'
<1> USE ClientAssumption
<1>1. ASSUME NEW t \in Tasks, Asking(t)
      PROVE  /\ call[t] \in CallType /\ call[t].keys # <<>> /\ Asked(t) \in Routes /\ call[t] # Idle
             /\ KeysLeft(call[t]) /\ Tried(call[t]) /\ Steady(call[t])
  BY <1>1, InCall DEF Asking, Keyed, KeysLeft
<1>2. ASSUME NEW t \in Tasks, NEW r \in Routes, NEW failed \in SUBSET Routes, NEW steady \in SUBSET Routes,
             NEW carried \in SUBSET States, Started(t, r, failed, steady, carried), steady \subseteq Configured,
             catalog' = catalog, tripped' = tripped,
             failed # {} => call[t] # Idle /\ call[t].failed = failed
      PROVE  Keyed'
  <2> DEFINE c == call'[t]
  <2>1. KeysLeft(c)
    <3>1. CASE c.place = "request"
      BY <1>2, <3>1, KeyOrderComplete DEF Started, KeysLeft
    <3>2. CASE c.place = "exhausted"
      BY <1>2, <3>2 DEF Started, KeysLeft, Keyed, Circuits
    <3>3. QED
      BY <1>2, <3>1, <3>2 DEF Started, KeysLeft
  <2>2. Tried(c)
    <3>1. /\ c.failed = failed /\ c.asked = (IF failed = {} THEN {} ELSE call[t].asked)
          /\ c.skipped = (IF failed = {} THEN {} ELSE call[t].skipped) \cup (IF tripped[r] # 0 THEN {r} ELSE {})
          /\ tripped[r] # 0 => r \in Relays
      BY <1>2 DEF Started, Keyed, Circuits
    <3>2. failed # {} => Tried(call[t]) /\ call[t].failed = failed
      BY <1>2 DEF Keyed
    <3> HIDE DEF c
    <3>3. QED
      BY <3>1, <3>2 DEF Tried
  <2>3. Steady(call[t])'
    BY <1>2 DEF Started, Steady, Configured
  <2>4. Circuits' /\ \A u \in Tasks \ {t} : call'[u] = call[u]
    BY <1>2 DEF Started, Keyed, Circuits
  <2>5. QED
    BY <1>2, <2>1, <2>2, <2>3, <2>4, KeyedStep
<1>3. ASSUME NEW t \in Tasks, Ends(t), catalog' = catalog, \A r \in Routes : tripped'[r] \in {tripped[r], 0} PROVE Keyed'
  <2>1. Circuits'
    BY <1>3 DEF Circuits, Keyed
  <2>2. call'[t] = Idle /\ \A u \in Tasks \ {t} : call'[u] = call[u]
    BY <1>3 DEF Ends, Typed
  <2>3. QED
    BY <1>3, <2>1, <2>2, KeyedStep
<1>4. ASSUME NEW t \in Tasks, Chat(t) PROVE Keyed'
  <2>1. PICK r \in Routes : Starts(t, r, {}, Configured, history[t])
    BY <1>4 DEF Chat, Typed
  <2>2. Configured \in SUBSET Routes /\ history[t] \in SUBSET States /\ {} \in SUBSET Routes
    BY DEF Typed, Configured
  <2>3. Started(t, r, {}, Configured, history[t])
    BY <2>1, <2>2, StartsStep
  <2>4. catalog' = catalog /\ tripped' = tripped
    BY <1>4 DEF Chat, shared
  <2>5. QED
    BY <1>2, <2>2, <2>3, <2>4
<1>5. ASSUME NEW t \in Tasks, Announced(t) PROVE Keyed'
  <2>1. call[t] \in CallType /\ call[t] # Idle
    BY <1>5, InCall DEF Announced
  <2>2. call[t].failed \in SUBSET Routes /\ call[t].steady \in SUBSET Routes /\ {} \in SUBSET States /\ bound[t] \in Routes
    BY <2>1 DEF CallType, Typed
  <2>3. Started(t, bound[t], call[t].failed, call[t].steady, {})
    BY <1>5, AnnouncedStep
  <2>4. catalog' = catalog /\ tripped' = tripped /\ call[t].steady \subseteq Configured
    BY <1>5, <2>1 DEF Announced, shared, Keyed, Steady
  <2>5. QED
    BY <1>2, <2>1, <2>2, <2>3, <2>4
<1>6. ASSUME NEW t \in Tasks, Reply(t) PROVE Keyed'
  BY <1>3, <1>6 DEF Reply, Typed
<1>7. ASSUME NEW t \in Tasks, RecoveredByResponses(t) \/ Overflows(t) \/ Failed(t) PROVE Keyed'
  BY <1>3, <1>7 DEF RecoveredByResponses, Overflows, Failed, shared, Typed
<1>8. ASSUME NEW t \in Tasks, Asking(t), NextKey(t), UNCHANGED shared PROVE Keyed'
  <2> DEFINE c == call[t]  n == call'[t]
  <2>1. CallStep(t, IF Len(call[t].keys) = 1 THEN "exhausted" ELSE "request", Tail(call[t].keys), 0,
                    call[t].failed, call[t].asked \cup {<<Asked(t), Head(call[t].keys)>>}, call[t].skipped)
    BY <1>1, <1>8, NextKeyStep
  <2>2. c \in CallType /\ c.keys # <<>> /\ KeysLeft(c) /\ Tried(c) /\ Steady(c) /\ c.place = "request"
    BY <1>1, <1>8 DEF Asking
  <2>3. c.keys \in KeyLists
    BY <2>2 DEF CallType
  <2>4. KeysLeft(n)
    <3>1. /\ n.keys = Tail(c.keys) /\ n.endpoint = c.endpoint /\ n.skipped = c.skipped
          /\ n.asked = c.asked \cup {<<Asked(t), Head(c.keys)>>}
          /\ n.place = IF Len(c.keys) = 1 THEN "exhausted" ELSE "request"
      BY <2>1 DEF CallStep
    <3>2. /\ n.place = "exhausted" => n.keys = <<>>
          /\ n.place = "request" => n.keys # <<>>
          /\ n.place \in {"exhausted", "request"}
      BY <2>2, <2>3, <3>1, KeyTails
    <3>3. ASSUME Asked(t) \notin c.skipped, NEW k \in KeysOf(Asked(t))
          PROVE  (\E i \in DOMAIN n.keys : n.keys[i] = k) \/ <<Asked(t), k>> \in n.asked
      <4>1. (\E i \in DOMAIN c.keys : c.keys[i] = k) \/ <<Asked(t), k>> \in c.asked
        BY <2>2, <3>3 DEF KeysLeft, Asked
      <4>2. CASE \E i \in DOMAIN c.keys : c.keys[i] = k
        <5>1. \A keys \in KeyLists : keys # <<>> => \A i \in DOMAIN keys :
                 keys[i] = Head(keys) \/ \E j \in DOMAIN Tail(keys) : Tail(keys)[j] = keys[i]
          BY KeyTails
        <5> HIDE DEF c, n
        <5>2. QED
          BY <2>2, <2>3, <3>1, <4>2, <5>1
      <4>3. QED
        BY <3>1, <4>1, <4>2
    <3>4. QED
      BY <3>1, <3>2, <3>3 DEF KeysLeft, Asked
  <2>5. Tried(n) /\ Steady(call[t])'
    BY <1>8, <2>1, <2>2 DEF CallStep, Tried, Steady, Configured, shared
  <2>6. Circuits' /\ \A u \in Tasks \ {t} : call'[u] = call[u]
    BY <1>8, <2>1 DEF CallStep, Keyed, Circuits, shared
  <2>7. QED
    BY <1>8, <2>4, <2>5, <2>6, KeyedStep DEF shared
<1>9. ASSUME NEW t \in Tasks, TransientError(t) PROVE Keyed'
  <2>1. CASE Again(t)
    <3> DEFINE c == call[t]  n == call'[t]
    <3>1. CallStep(t, "request", call[t].keys, call[t].tries + 1, call[t].failed, call[t].asked, call[t].skipped)
      BY <1>9, <2>1, AgainStep DEF TransientError
    <3>2. KeysLeft(c) /\ Tried(c) /\ Steady(c) /\ c.place = "request"
      BY <1>1, <1>9 DEF TransientError, Asking
    <3>3. KeysLeft(n) /\ Tried(n) /\ Steady(call[t])'
      BY <1>9, <3>1, <3>2 DEF CallStep, KeysLeft, Tried, Steady, Configured, TransientError, shared
    <3>4. Circuits' /\ \A u \in Tasks \ {t} : call'[u] = call[u]
      BY <1>9, <3>1 DEF CallStep, Keyed, Circuits, TransientError, shared
    <3>5. QED
      BY <1>9, <3>3, <3>4, KeyedStep DEF TransientError, shared
  <2>2. CASE ~Again(t)
    BY <1>8, <1>9, <2>2 DEF TransientError
  <2>3. QED
    BY <2>1, <2>2
<1>10. ASSUME NEW t \in Tasks, FinalError(t) PROVE Keyed'
  BY <1>8, <1>10 DEF FinalError
<1>11. ASSUME NEW t \in Tasks, RelayRefuses(t) PROVE Keyed'
  <2>1. CallStep(t, "exhausted", <<>>, call[t].tries, call[t].failed, call[t].asked, call[t].skipped \cup {Asked(t)})
    BY <1>11, RelayStep
  <2>2. Tried(call[t]) /\ Steady(call[t]) /\ Asked(t) \in Relays
    BY <1>1, <1>11 DEF RelayRefuses
  <2>3. KeysLeft(call'[t]) /\ Tried(call'[t]) /\ Steady(call[t])'
    BY <1>11, <2>1, <2>2 DEF CallStep, KeysLeft, Tried, Steady, Configured, RelayRefuses, Asked
  <2>4. Circuits' /\ \A u \in Tasks \ {t} : call'[u] = call[u]
    BY <1>11, <2>1, <2>2 DEF CallStep, Keyed, Circuits, RelayRefuses, Typed
  <2>5. QED
    BY <1>11, <2>3, <2>4, KeyedStep DEF RelayRefuses
<1>12. ASSUME NEW t \in Tasks, NEW place \in {"announce", "failed"}, call[t] # Idle, call[t].place = "exhausted",
              CallStep(t, place, call[t].keys, call[t].tries, call[t].failed \cup {Asked(t)}, call[t].asked, call[t].skipped),
              place = "failed" => Candidates(t) = {}, UNCHANGED shared
       PROVE  Keyed'
  <2>1. KeysLeft(call[t]) /\ Tried(call[t]) /\ Steady(call[t])
    BY <1>12 DEF Keyed
  <2>2. \A k \in KeysOf(Asked(t)) : Asked(t) \notin call[t].skipped => <<Asked(t), k>> \in call[t].asked
    BY <1>12, <2>1 DEF KeysLeft, Asked
  <2>3. KeysLeft(call'[t]) /\ Tried(call'[t])
    BY <1>12, <2>1, <2>2 DEF CallStep, KeysLeft, Tried
  <2>4. Steady(call[t])'
    BY <1>12, <2>1 DEF CallStep, Steady, Configured, shared, Candidates
  <2>5. Circuits' /\ \A u \in Tasks \ {t} : call'[u] = call[u]
    BY <1>12 DEF CallStep, Keyed, Circuits, shared
  <2>6. QED
    BY <1>12, <2>3, <2>4, <2>5, KeyedStep DEF shared
<1>13. ASSUME NEW t \in Tasks, Failover(t) PROVE Keyed'
  BY <1>12, <1>13, FailoverStep DEF Failover
<1>14. ASSUME NEW t \in Tasks, GiveUp(t) PROVE Keyed'
  BY <1>12, <1>14, GiveUpStep DEF GiveUp
<1>15. ASSUME NEW S \in SUBSET Routes,
              call' = [t \in Tasks |-> IF call[t] = Idle THEN Idle ELSE [call[t] EXCEPT !.steady = @ \ S]],
              \A r \in Routes \ S : catalog[r] # 0 => catalog'[r] # 0,
              \A r \in Routes : tripped'[r] \in {tripped[r], 0}
       PROVE  Keyed'
  <2>1. Circuits'
    BY <1>15 DEF Keyed, Circuits
  <2>2. ASSUME NEW t \in Tasks, call'[t] # Idle PROVE KeysLeft(call'[t]) /\ Tried(call'[t]) /\ Steady(call[t])'
    <3>1. call[t] # Idle /\ KeysLeft(call[t]) /\ Tried(call[t]) /\ Steady(call[t])
      BY <1>15, <2>2, SettingsStep DEF Keyed
    <3>2. /\ call'[t].place = call[t].place /\ call'[t].keys = call[t].keys /\ call'[t].failed = call[t].failed
          /\ call'[t].asked = call[t].asked /\ call'[t].endpoint = call[t].endpoint
          /\ call'[t].steady = call[t].steady \ S /\ call'[t].skipped = call[t].skipped
      BY <1>15, <3>1, SettingsStep
    <3>3. KeysLeft(call'[t]) /\ Tried(call'[t])
      BY <3>1, <3>2 DEF KeysLeft, Tried
    <3>4. Steady(call[t])'
      BY <1>15, <3>1, <3>2 DEF Steady, Configured
    <3>5. QED
      BY <3>3, <3>4
  <2>3. QED
    BY <2>1, <2>2 DEF Keyed, KeysLeft, Tried
<1>16. ASSUME NEW r \in Routes, ChangeKeys(r) PROVE Keyed'
  <2>1. {r} \in SUBSET Routes
    OBVIOUS
  <2>2. call' = [t \in Tasks |-> IF call[t] = Idle THEN Idle ELSE [call[t] EXCEPT !.steady = @ \ {r}]]
    BY <1>16 DEF ChangeKeys, Unsteady
  <2>3. /\ \A s \in Routes \ {r} : catalog'[s] = catalog[s]
        /\ \A s \in Routes : tripped'[s] \in {tripped[s], 0}
    BY <1>16 DEF ChangeKeys, Pruned, Typed
  <2>4. QED
    BY <1>15, <2>1, <2>2, <2>3
<1>17. ASSUME NEW r \in Routes, CoolsDown(r) PROVE Keyed'
  <2>1. Circuits'
    BY <1>17 DEF CoolsDown, Keyed, Circuits, Typed
  <2>2. QED
    BY <1>17, <2>1 DEF CoolsDown, Keyed, KeysLeft, Tried, Steady, Configured
<1>18. ASSUME ProbeLocals PROVE Keyed'
  <2>1. PICK found \in SUBSET Locals :
          /\ catalog' = [r \in Routes |-> IF r \in Locals THEN (IF r \in found THEN 1 ELSE 0) ELSE catalog[r]]
          /\ tripped' = Pruned(tripped, {s \in Routes : catalog'[s] # 0})
          /\ call' = [t \in Tasks |-> IF call[t] = Idle THEN Idle
                                      ELSE [call[t] EXCEPT !.steady = @ \ (Locals \ found)]]
    BY <1>18 DEF ProbeLocals
  <2>2. (Locals \ found) \in SUBSET Routes
    BY DEF Locals
  <2>3. /\ \A r \in Routes \ (Locals \ found) : catalog[r] # 0 => catalog'[r] # 0
        /\ \A r \in Routes : tripped'[r] \in {tripped[r], 0}
    BY <2>1 DEF Pruned, Typed
  <2>4. QED
    BY <1>15, <2>1, <2>2, <2>3
<1>19. CASE UNCHANGED vars
  BY <1>19 DEF vars, shared, Keyed, Circuits, KeysLeft, Tried, Steady, Configured
<1>20. QED
  BY <1>4, <1>5, <1>6, <1>7, <1>9, <1>10, <1>11, <1>13, <1>14, <1>16, <1>17, <1>18, <1>19
     DEF Next, Client, Answered

\* Every step keeps the identity announced for a call.
LEMMA NextNamed == ASSUME Typed, Keyed, Named, [Next]_vars PROVE Named'
<1>1. ASSUME NEW t \in Tasks, \A u \in Tasks \ {t} : call'[u] = call[u] /\ bound'[u] = bound[u] /\ told'[u] = told[u],
             told'[t] \in {None, bound'[t]},
             call'[t] # Idle =>
                /\ call'[t].place # "announce" =>
                      /\ call'[t].endpoint.route = bound'[t]
                      /\ call'[t].endpoint.route # call'[t].home => told'[t] = bound'[t]
                /\ call'[t].place = "announce" => told'[t] = bound'[t]
      PROVE  Named'
  BY <1>1 DEF Named, Asked
<1>2. ASSUME NEW t \in Tasks, Chat(t) PROVE Named'
  <2>1. PICK r \in (IF Team THEN Routes ELSE {bound[t]}) :
          /\ bound' = [bound EXCEPT ![t] = r]
          /\ told' = IF Team THEN [told EXCEPT ![t] = None] ELSE told
          /\ Starts(t, r, {}, Configured, history[t])
    BY <1>2 DEF Chat
  <2>2. r \in Routes /\ Configured \in SUBSET Routes /\ history[t] \in SUBSET States /\ {} \in SUBSET Routes
    BY <2>1 DEF Typed, Configured
  <2>3. Started(t, r, {}, Configured, history[t])
    BY <2>1, <2>2, StartsStep
  <2>4. \A u \in Tasks \ {t} : bound'[u] = bound[u] /\ told'[u] = told[u]
    BY <2>1 DEF Typed
  <2>5. told'[t] \in {None, bound'[t]} /\ bound'[t] = r
    BY <2>1, <2>2 DEF Typed, Named
  <2>6. QED
    BY <1>1, <2>3, <2>4, <2>5 DEF Started
<1>3. ASSUME NEW t \in Tasks, Ends(t), UNCHANGED <<bound, told>> PROVE Named'
  BY <1>3 DEF Ends, Typed, Named, Asked
<1>4. ASSUME NEW t \in Tasks, UNCHANGED <<bound, told>>, call[t] # Idle, call[t].place # "announce",
             NEW place \in {"request", "exhausted", "failed"}, NEW keys, NEW tries, NEW failed, NEW asked, NEW skipped,
             CallStep(t, place, keys, tries, failed, asked, skipped)
      PROVE  Named'
  BY <1>4 DEF CallStep, Named, Asked
<1>5. ASSUME NEW t \in Tasks, Asking(t), NextKey(t), UNCHANGED <<bound, told>>, call[t].keys # <<>> PROVE Named'
  BY <1>4, <1>5, NextKeyStep DEF Asking
<1>6. ASSUME NEW t \in Tasks, Failover(t) PROVE Named'
  <2>1. CallStep(t, "announce", call[t].keys, call[t].tries, call[t].failed \cup {Asked(t)}, call[t].asked, call[t].skipped)
    BY <1>6, FailoverStep
  <2>2. /\ bound' = [bound EXCEPT ![t] = Preferred(t)] /\ told' = [told EXCEPT ![t] = Preferred(t)]
    BY <1>6 DEF Failover, Note
  <2>3. QED
    BY <1>1, <2>1, <2>2 DEF CallStep, Typed
<1>7. ASSUME NEW t \in Tasks, Announced(t) PROVE Named'
  <2>1. Started(t, bound[t], call[t].failed, call[t].steady, {}) /\ UNCHANGED <<bound, told>>
    BY <1>7, AnnouncedStep DEF Announced
  <2>2. told[t] = bound[t]
    BY <1>7 DEF Announced, Named
  <2>3. QED
    BY <1>1, <2>1, <2>2 DEF Started
<1>8. ASSUME NEW S \in SUBSET Routes, UNCHANGED <<bound, told>>,
             call' = [t \in Tasks |-> IF call[t] = Idle THEN Idle ELSE [call[t] EXCEPT !.steady = @ \ S]]
      PROVE  Named'
  BY <1>8, SettingsStep DEF Named, Asked
<1>9. ASSUME NEW t \in Tasks, Reply(t) \/ RecoveredByResponses(t) \/ Overflows(t) \/ Failed(t) PROVE Named'
  BY <1>3, <1>9 DEF Reply, RecoveredByResponses, Overflows, Failed
<1>10. ASSUME NEW t \in Tasks, Asking(t) PROVE call[t] # Idle /\ call[t].place = "request"
  BY <1>10 DEF Asking
<1>11. ASSUME NEW t \in Tasks, TransientError(t) PROVE Named'
  <2>1. call[t].keys # <<>> /\ call[t].place = "request" /\ call[t] # Idle
    BY <1>11 DEF TransientError, Asking, Keyed, KeysLeft
  <2>2. CASE Again(t)
    BY <1>4, <1>11, <2>1, <2>2, AgainStep DEF TransientError
  <2>3. CASE ~Again(t)
    BY <1>5, <1>11, <2>1, <2>3 DEF TransientError
  <2>4. QED
    BY <2>2, <2>3
<1>12. ASSUME NEW t \in Tasks, FinalError(t) PROVE Named'
  BY <1>5, <1>12 DEF FinalError, Asking, Keyed, KeysLeft
<1>13. ASSUME NEW t \in Tasks, RelayRefuses(t) PROVE Named'
  BY <1>4, <1>10, <1>13, RelayStep DEF RelayRefuses
<1>14. ASSUME NEW t \in Tasks, GiveUp(t) PROVE Named'
  BY <1>4, <1>14, GiveUpStep DEF GiveUp
<1>15. ASSUME NEW r \in Routes, ChangeKeys(r) PROVE Named'
  <2>1. {r} \in SUBSET Routes
    OBVIOUS
  <2>2. call' = [t \in Tasks |-> IF call[t] = Idle THEN Idle ELSE [call[t] EXCEPT !.steady = @ \ {r}]]
    BY <1>15 DEF ChangeKeys, Unsteady
  <2>3. QED
    BY <1>8, <1>15, <2>1, <2>2 DEF ChangeKeys
<1>16. ASSUME ProbeLocals PROVE Named'
  <2>1. PICK found \in SUBSET Locals :
          call' = [t \in Tasks |-> IF call[t] = Idle THEN Idle
                                   ELSE [call[t] EXCEPT !.steady = @ \ (Locals \ found)]]
    BY <1>16 DEF ProbeLocals
  <2>2. (Locals \ found) \in SUBSET Routes
    BY DEF Locals
  <2>3. QED
    BY <1>8, <1>16, <2>1, <2>2 DEF ProbeLocals
<1>17. ASSUME UNCHANGED vars \/ \E r \in Routes : CoolsDown(r) PROVE Named'
  BY <1>17 DEF vars, shared, CoolsDown, Named, Asked
<1>18. QED
  BY <1>2, <1>6, <1>7, <1>9, <1>11, <1>12, <1>13, <1>14, <1>15, <1>16, <1>17
     DEF Next, Client, Answered

\* The invariant holds at first.
LEMMA InitIInv == Init => IInv
<1>1. Init => Typed
  BY ClientAssumption DEF Init, Typed
<1>2. Init => Keyed /\ Named
  BY DEF Init, Keyed, Circuits, Named
<1>3. QED
  BY <1>1, <1>2 DEF IInv

\* The inductive invariant holds.
THEOREM Invariance == Spec => []IInv
<1>1. IInv /\ [Next]_vars => IInv'
  BY NextTyped, NextKeyed, NextNamed DEF IInv
<1>2. QED
  BY InitIInv, <1>1, PTL DEF Spec

\* The variables keep their types.
THEOREM TypeCorrect == Spec => []TypeOK
<1>1. KeyLists \subseteq Seq(0 .. 1)
  BY DEF KeyLists
<1>2. ASSUME IInv, NEW t \in Tasks
      PROVE  /\ history[t] \subseteq States
             /\ call[t] # Idle =>
                  /\ call[t].place \in {"request", "exhausted", "announce", "failed", "unconfigured"}
                  /\ call[t].keys \in Seq(0 .. 1) /\ call[t].tries \in 0 .. Tries - 1
                  /\ call[t].failed \subseteq Routes
                  /\ call[t].skipped \subseteq Routes
  BY <1>1, <1>2, InCall DEF IInv, Typed, CallType
<1>3. IInv => TypeOK
  BY <1>2 DEF IInv, Typed, TypeOK
<1>4. QED
  BY Invariance, <1>3, PTL

\* A call that gives up was failed by every route that stayed configured, with
\* each of its keys unless the circuit of a relay was open, and one that ends
\* unconfigured lost the keys of the route it was on.
THEOREM Exhaustion == Spec => []FailsOnlyWhenExhausted
<1>1. IInv => FailsOnlyWhenExhausted
  BY DEF IInv, Keyed, Steady, Tried, KeysOf, Asked, FailsOnlyWhenExhausted
<1>2. QED
  BY Invariance, <1>1, PTL

\* The model and provider a user is told of are those of the route that
\* answers.
THEOREM Identity == Spec => []IdentityMatches
<1>1. IInv => IdentityMatches
  BY DEF IInv, Named, Asking, IdentityMatches
<1>2. QED
  BY Invariance, <1>1, PTL

\* Outside a team every step keeps the provider states with their route.
LEMMA NextClean == ASSUME ~Team, Typed, Keyed, Named, Clean, [Next]_vars PROVE Clean'
<1>1. ASSUME NEW t \in Tasks,
             \A u \in Tasks \ {t} : call'[u] = call[u] /\ bound'[u] = bound[u] /\ history'[u] = history[u],
             call'[t] = Idle \/ call'[t].place # "announce" => \A s \in history'[t] : s.from = bound'[t],
             call'[t] # Idle /\ call'[t].place = "request" =>
                \A s \in call'[t].sent : s.from = call'[t].endpoint.route
      PROVE  Clean'
  BY <1>1 DEF Clean, Asking, Asked
<1>2. ASSUME NEW t \in Tasks, Chat(t) PROVE Clean'
  <2>1. Starts(t, bound[t], {}, Configured, history[t]) /\ call[t] = Idle /\ UNCHANGED <<bound, history>>
    BY <1>2 DEF Chat, Typed
  <2>2. bound[t] \in Routes /\ Configured \in SUBSET Routes /\ history[t] \in SUBSET States /\ {} \in SUBSET Routes
    BY DEF Typed, Configured
  <2>3. Started(t, bound[t], {}, Configured, history[t])
    BY <2>1, <2>2, StartsStep
  <2>4. \A s \in history[t] : s.from = bound[t]
    BY <2>1 DEF Clean
  <2>5. QED
    BY <1>1, <2>1, <2>3, <2>4 DEF Started
<1>3. ASSUME NEW t \in Tasks, Asking(t) PROVE /\ call[t] # Idle /\ call[t].place = "request" /\ call[t].keys # <<>>
                                             /\ Asked(t) = bound[t] /\ \A s \in history[t] : s.from = bound[t]
  BY <1>3 DEF Asking, Keyed, KeysLeft, Named, Clean
<1>4. ASSUME NEW t \in Tasks, Asking(t), Ends(t), Gained(t), UNCHANGED bound PROVE Clean'
  <2>1. call'[t] = Idle /\ \A u \in Tasks \ {t} : call'[u] = call[u]
    BY <1>4 DEF Ends, Typed
  <2>2. QED
    BY <1>1, <1>3, <1>4, <2>1, GainedStates
<1>5. ASSUME NEW t \in Tasks, Reply(t) \/ RecoveredByResponses(t) PROVE Clean'
  BY <1>4, <1>5 DEF Reply, RecoveredByResponses
<1>6. ASSUME NEW t \in Tasks, Overflows(t) \/ Failed(t) PROVE Clean'
  <2>1. call'[t] = Idle /\ \A u \in Tasks \ {t} : call'[u] = call[u]
    BY <1>6 DEF Overflows, Failed, Ends, Typed
  <2>2. call[t] # Idle /\ call[t].place # "announce" /\ UNCHANGED <<bound, history>>
    BY <1>6 DEF Overflows, Failed, Asking
  <2>3. QED
    BY <1>1, <2>1, <2>2 DEF Clean
<1>7. ASSUME NEW t \in Tasks, UNCHANGED <<bound, history>>, call[t] # Idle, call[t].place # "announce",
             NEW place \in {"request", "exhausted", "failed", "announce"}, NEW keys, NEW tries, NEW failed, NEW asked, NEW skipped,
             place = "request" => call[t].place = "request",
             CallStep(t, place, keys, tries, failed, asked, skipped)
      PROVE  Clean'
  BY <1>7 DEF CallStep, Clean, Asking, Asked
<1>8. ASSUME NEW t \in Tasks, Asking(t), NextKey(t), UNCHANGED <<bound, history>> PROVE Clean'
  BY <1>3, <1>7, <1>8, NextKeyStep
<1>9. ASSUME NEW t \in Tasks, TransientError(t) PROVE Clean'
  <2>1. CASE Again(t)
    BY <1>3, <1>7, <1>9, <2>1, AgainStep DEF TransientError
  <2>2. CASE ~Again(t)
    BY <1>8, <1>9, <2>2 DEF TransientError
  <2>3. QED
    BY <2>1, <2>2
<1>10. ASSUME NEW t \in Tasks, FinalError(t) PROVE Clean'
  BY <1>8, <1>10 DEF FinalError
<1>11. ASSUME NEW t \in Tasks, RelayRefuses(t) PROVE Clean'
  BY <1>3, <1>7, <1>11, RelayStep DEF RelayRefuses
<1>12. ASSUME NEW t \in Tasks, GiveUp(t) PROVE Clean'
  BY <1>7, <1>12, GiveUpStep DEF GiveUp
<1>13. ASSUME NEW t \in Tasks, Failover(t) PROVE Clean'
  <2>1. CallStep(t, "announce", call[t].keys, call[t].tries, call[t].failed \cup {Asked(t)}, call[t].asked, call[t].skipped)
    BY <1>13, FailoverStep
  <2>2. bound' = [bound EXCEPT ![t] = Preferred(t)] /\ UNCHANGED history
    BY <1>13 DEF Failover
  <2>3. call'[t] # Idle /\ call'[t].place = "announce" /\ \A u \in Tasks \ {t} : bound'[u] = bound[u]
    BY <2>1, <2>2 DEF CallStep, Typed, CallType, Idle
  <2>4. QED
    BY <1>1, <2>1, <2>2, <2>3 DEF CallStep
<1>14. ASSUME NEW t \in Tasks, Announced(t) PROVE Clean'
  <2>1. Started(t, bound[t], call[t].failed, call[t].steady, {})
    BY <1>14, AnnouncedStep
  <2>2. history' = [history EXCEPT ![t] = {}] /\ UNCHANGED bound
    BY <1>14 DEF Announced, Stripped
  <2>3. QED
    BY <1>1, <2>1, <2>2 DEF Started, Typed
<1>15. ASSUME NEW S \in SUBSET Routes, UNCHANGED <<bound, history>>,
             call' = [t \in Tasks |-> IF call[t] = Idle THEN Idle ELSE [call[t] EXCEPT !.steady = @ \ S]]
      PROVE  Clean'
  <2>1. ASSUME NEW t \in Tasks
        PROVE  /\ (call'[t] = Idle) <=> (call[t] = Idle)
               /\ call[t] # Idle => /\ call'[t].place = call[t].place /\ call'[t].sent = call[t].sent
                                    /\ call'[t].endpoint = call[t].endpoint
    BY <1>15, SettingsStep
  <2>2. QED
    BY <1>15, <2>1 DEF Clean, Asking, Asked
<1>16. ASSUME NEW r \in Routes, ChangeKeys(r) PROVE Clean'
  <2>1. {r} \in SUBSET Routes
    OBVIOUS
  <2>2. call' = [t \in Tasks |-> IF call[t] = Idle THEN Idle ELSE [call[t] EXCEPT !.steady = @ \ {r}]]
    BY <1>16 DEF ChangeKeys, Unsteady
  <2>3. QED
    BY <1>15, <1>16, <2>1, <2>2 DEF ChangeKeys
<1>17. ASSUME ProbeLocals PROVE Clean'
  <2>1. PICK found \in SUBSET Locals :
          call' = [t \in Tasks |-> IF call[t] = Idle THEN Idle
                                   ELSE [call[t] EXCEPT !.steady = @ \ (Locals \ found)]]
    BY <1>17 DEF ProbeLocals
  <2>2. (Locals \ found) \in SUBSET Routes
    BY DEF Locals
  <2>3. QED
    BY <1>15, <1>17, <2>1, <2>2 DEF ProbeLocals
<1>18. ASSUME UNCHANGED vars \/ \E r \in Routes : CoolsDown(r) PROVE Clean'
  BY <1>18 DEF vars, shared, CoolsDown, Clean, Asking, Asked
<1>19. QED
  BY <1>2, <1>5, <1>6, <1>9, <1>10, <1>11, <1>12, <1>13, <1>14, <1>16, <1>17, <1>18
     DEF Next, Client, Answered

\* Outside a team the reasoning state of a provider is sent back to the same
\* provider and model only.
THEOREM StatesAtHome == ASSUME ~Team PROVE Spec => []StatesStayHome
<1>1. Init => Clean
  BY DEF Init, Clean, Asking
<1>2. IInv /\ Clean /\ [Next]_vars => Clean'
  BY NextClean DEF IInv
<1>3. Clean => StatesStayHome
  BY DEF Clean, StatesStayHome, Carried, CarriedByMessages, CarriedByGemini, CarriedByResponses, CarriedByChat
<1>4. QED
  BY Invariance, <1>1, <1>2, <1>3, PTL DEF Spec

-----------------------------------------------------------------------------
(* The poll loop of Telegram: its inductive invariant.                     *)

\* The types of the loop; the attempts count every id, and an update is under way
\* only in a batch, whose updates are different ones.
PollTyped ==
    /\ Telegram!TypeOK
    /\ attempts \in [Telegram!AllIds -> 0 .. MaxAttempts - 1]
    /\ turns \in [restarts : Nat, changes : Nat] /\ tasks \in Seq(SUBSET Telegram!Update)
    /\ poller \in {"accept", "launch"} => batch # <<>>
    /\ poller # "launch" => taken = {}
    /\ \A i, j \in DOMAIN batch : batch[i] = batch[j] => i = j

\* An update that the loop does not ask for again.
Sent(u) == u.id < server[u.bot] \/ (u.bot = bot /\ u.id < offset)

\* What was admitted is passed, and does not come again in the batch.
Once == \A u \in Telegram!Update \ doubtful :
    /\ u \in Telegram!Admitted /\ u.bot = bot => Sent(u)
    /\ u \in Telegram!Admitted => \A i \in DOMAIN batch : batch[i] # u

\* An admitted update waits in one place, or has one task.
InOnePlace(u) ==
    /\ u \in pending => u \notin taken /\ u \notin UNION flushing /\ u \notin Telegram!InTasks
    /\ u \in taken => u \notin UNION flushing /\ u \notin Telegram!InTasks
    /\ u \in UNION flushing => u \notin Telegram!InTasks
    /\ \A f, g \in flushing : u \in f /\ u \in g => f = g
    /\ \A i, j \in DOMAIN tasks : u \in tasks[i] /\ u \in tasks[j] => i = j

Places == \A u \in Telegram!Update \ doubtful : InOnePlace(u)

\* As long as the token is the first one: what is passed was handled or is lost, and
\* so is what lies before an update of the batch, unless the batch has it.
Known == Telegram!Handled \cup lost

KeptBefore(i) == \A u \in Telegram!Update :
    u.bot = bot /\ u.id < batch[i].id => u \in Known \/ \E j \in 1 .. i - 1 : batch[j] = u

Kept == turns.changes = 0 =>
    /\ leaving = "no"
    /\ \A b \in Bots \ {bot} : server[b] = 1
    /\ \A i \in DOMAIN batch : batch[i].bot = bot
    /\ \A u \in Telegram!Update : Sent(u) => u \in Known
    /\ \A i \in DOMAIN batch : KeptBefore(i)

IngressInv == PollTyped /\ Once /\ Places /\ Kept

-----------------------------------------------------------------------------
(* Updates and answers of the server.                                      *)

\* An update is its bot and its id, a positive number.
LEMMA AnUpdate ==
    ASSUME NEW u \in Telegram!Update
    PROVE  /\ u.bot \in Bots /\ u.id \in Nat /\ u.id > 0 /\ u.id \in Telegram!AllIds
           /\ \A v \in Telegram!Update : u.bot = v.bot /\ u.id = v.id => u = v
  <1>1. u \in [bot : Bots, id : UNION {Updates[b] : b \in Bots}] /\ u.id \in Updates[u.bot]
    BY DEF Telegram!Update
  <1>2. u.bot \in Bots /\ u = [bot |-> u.bot, id |-> u.id]
    BY <1>1
  <1>3. u.id \in Nat /\ u.id > 0
    BY <1>1, <1>2, RemoteAssumption DEF Telegram!TelegramAssumption
  <1>4. u.id \in Telegram!AllIds
    BY <1>1, <1>2 DEF Telegram!AllIds
  <1>5. ASSUME NEW v \in Telegram!Update, u.bot = v.bot, u.id = v.id
        PROVE  u = v
    <2>1. v = [bot |-> v.bot, id |-> v.id]
      BY DEF Telegram!Update
    <2> QED BY <1>2, <1>5, <2>1
  <1> QED BY <1>2, <1>3, <1>4, <1>5

\* The updates of one bot are finitely many.
LEMMA FewUpdates ==
    ASSUME NEW us \in SUBSET Telegram!Update, NEW b \in Bots, \A u \in us : u.bot = b
    PROVE  Telegram!Cardinality(us) \in Nat
  <1> DEFINE ids == [u \in us |-> u.id]
  <1>1. ids \in [us -> Updates[b]]
    BY DEF Telegram!Update
  <1>2. \A u, v \in us : ids[u] = ids[v] => u = v
    BY AnUpdate
  <1>3. IsFiniteSet(Updates[b])
    BY RemoteAssumption DEF Telegram!TelegramAssumption, Telegram!IsFiniteSet, IsFiniteSet
  <1>4. ids \in Injection(us, Updates[b])
    BY <1>1, <1>2, Fun_IsInj
  <1>5. IsFiniteSet(us)
    BY <1>3, <1>4, FS_Injection
  <1>6. Cardinality(us) \in Nat
    BY <1>5, FS_CardinalityType
  <1>7. Telegram!Cardinality(us) = Cardinality(us)
    BY DEF Telegram!Cardinality, Cardinality, Telegram!IsFiniteSet, IsFiniteSet
  <1> QED BY <1>6, <1>7

\* An answer lists updates in the order of their ids: whatever of them has a lower id
\* comes before.
LEMMA AnAnswer ==
    ASSUME NEW us \in SUBSET Telegram!Update, NEW b \in Bots, \A u \in us : u.bot = b,
           NEW s \in Telegram!Ascending(us)
    PROVE  /\ s \in Seq(Telegram!Update) /\ Len(s) \in Nat /\ DOMAIN s = 1 .. Len(s)
           /\ \A i \in DOMAIN s : s[i] \in us
           /\ \A i, j \in DOMAIN s : s[i] = s[j] => i = j
           /\ \A i \in DOMAIN s, u \in us : u.id < s[i].id => \E j \in 1 .. i - 1 : s[j] = u
  <1> DEFINE n == Telegram!Cardinality(us)
  <1>1. n \in Nat
    BY FewUpdates
  <1> HIDE DEF n
  <1>2. /\ s \in [1 .. n -> us]
        /\ us = {s[i] : i \in DOMAIN s}
        /\ \A i, j \in DOMAIN s : i < j => s[i].id < s[j].id
    BY DEF Telegram!Ascending, n
  <1>3. s \in Seq(us) /\ Len(s) = n /\ DOMAIN s = 1 .. n
    BY <1>1, <1>2
  <1>4. s \in Seq(Telegram!Update)
    BY <1>1, <1>2
  <1>5. \A i \in DOMAIN s : s[i] \in us /\ s[i].id \in Nat
    BY <1>2, AnUpdate
  <1>8. \A i, j \in DOMAIN s : i < j => s[i].id < s[j].id
    BY <1>2
  <1>6. \A i, j \in DOMAIN s : s[i] = s[j] => i = j
    <2> SUFFICES ASSUME NEW i \in DOMAIN s, NEW j \in DOMAIN s, s[i] = s[j], i # j
                 PROVE  FALSE
      OBVIOUS
    <2>1. i \in Nat /\ j \in Nat /\ s[i].id \in Nat
      BY <1>1, <1>3, <1>5
    <2>2. i < j \/ j < i
      BY <2>1
    <2>3. s[i].id < s[i].id
      BY <1>8, <2>2
    <2> QED BY <2>1, <2>3
  <1>7. ASSUME NEW i \in DOMAIN s, NEW u \in us, u.id < s[i].id
        PROVE  \E j \in 1 .. i - 1 : s[j] = u
    <2>1. \E j \in DOMAIN s : s[j] = u
      BY <1>2
    <2>2. PICK j \in DOMAIN s : s[j] = u
      BY <2>1
    <2>3. s[i].id \in Nat /\ u.id \in Nat
      BY <1>5, <2>2
    <2>4. ~(i < j) /\ i # j
      BY <1>7, <1>8, <2>2, <2>3
    <2> QED BY <1>1, <1>3, <2>2, <2>4
  <1> QED BY <1>1, <1>3, <1>4, <1>5, <1>6, <1>7

\* A new task is the only one with another number; the older ones keep theirs.
LEMMA ATask ==
    ASSUME tasks \in Seq(SUBSET Telegram!Update), NEW us \in SUBSET Telegram!Update,
           tasks' = Append(tasks, us)
    PROVE  /\ tasks' \in Seq(SUBSET Telegram!Update)
           /\ DOMAIN tasks' = DOMAIN tasks \cup {Len(tasks) + 1} /\ Len(tasks) + 1 \notin DOMAIN tasks
           /\ \A i \in DOMAIN tasks : tasks'[i] = tasks[i]
           /\ tasks'[Len(tasks) + 1] = us
           /\ Telegram!InTasks' = Telegram!InTasks \cup us
  <1>1. /\ tasks' \in Seq(SUBSET Telegram!Update)
        /\ DOMAIN tasks = 1 .. Len(tasks) /\ DOMAIN tasks' = 1 .. Len(tasks) + 1 /\ Len(tasks) \in Nat
        /\ \A i \in DOMAIN tasks : tasks'[i] = tasks[i]
        /\ tasks'[Len(tasks) + 1] = us
    OBVIOUS
  <1>2. DOMAIN tasks' = DOMAIN tasks \cup {Len(tasks) + 1} /\ Len(tasks) + 1 \notin DOMAIN tasks
    BY <1>1
  <1>3. Telegram!InTasks' = Telegram!InTasks \cup us
    BY <1>1, <1>2 DEF Telegram!InTasks
  <1> QED BY <1>1, <1>2, <1>3

-----------------------------------------------------------------------------
(* The end of an update.                                                   *)

\* The answer without its first update.
LEMMA ATail ==
    ASSUME NEW S, NEW s \in Seq(S), s # <<>>
    PROVE  /\ Len(s) \in Nat /\ DOMAIN s = 1 .. Len(s) /\ 1 \in DOMAIN s /\ Head(s) = s[1] /\ Head(s) \in S
           /\ Tail(s) \in Seq(S) /\ DOMAIN Tail(s) = 1 .. Len(s) - 1
           /\ \A i \in DOMAIN Tail(s) : i + 1 \in DOMAIN s /\ Tail(s)[i] = s[i + 1]
  OBVIOUS

\* An update was passed, and the next one follows, or the loop ends.
Acknowledged ==
    /\ offset' \in Nat /\ offset' >= offset /\ offset' > Telegram!Current.id
    /\ \A n \in Nat : n < offset' => n < offset \/ n <= Telegram!Current.id
    /\ attempts' \in [Telegram!AllIds -> 0 .. MaxAttempts - 1]
    /\ poller' \in {"off", "batch"} /\ leaving' \in {"no", "asked", "last"}
    /\ leaving = "no" => leaving' = "no"
    /\ batch' = Tail(batch) \/ batch' = <<>>

\* An update was deferred, and the batch is forgotten.
Postponed ==
    /\ offset' = offset
    /\ attempts' \in [Telegram!AllIds -> 0 .. MaxAttempts - 1]
    /\ poller' \in {"off", "backoff"} /\ leaving' \in {"no", "asked", "last"}
    /\ leaving = "no" => leaving' = "no"
    /\ batch' = <<>>

\* The update under way.
LEMMA TheCurrent ==
    ASSUME PollTyped, poller \in {"accept", "launch"}
    PROVE  /\ batch \in Seq(Telegram!Update) /\ batch # <<>> /\ Telegram!Current = batch[1]
           /\ Telegram!Current \in Telegram!Update
  BY ATail DEF PollTyped, Telegram!TypeOK, Telegram!Current

\* Where the loop goes on.
LEMMA Resuming ==
    ASSUME NEW place, Telegram!Resumes(place), leaving \in {"no", "asked", "last"}
    PROVE  /\ poller' \in {"off", place} /\ leaving' \in {"no", "asked", "last"}
           /\ leaving = "no" => leaving' = "no"
           /\ batch' = <<>> \/ (place = "batch" /\ batch' = Tail(batch))
  BY DEF Telegram!Resumes

\* An acknowledgement passes the update.
LEMMA Acknowledging ==
    ASSUME PollTyped, poller \in {"accept", "launch"}, Telegram!Acknowledge
    PROVE  Acknowledged
  <1> DEFINE c == Telegram!Current
  <1>1. c \in Telegram!Update /\ c.id \in Nat /\ c.id \in Telegram!AllIds
    BY TheCurrent, AnUpdate
  <1> HIDE DEF c
  <1>2. offset \in Nat /\ leaving \in {"no", "asked", "last"}
    BY DEF PollTyped, Telegram!TypeOK
  <1>3. offset' = IF offset > c.id + 1 THEN offset ELSE c.id + 1
    BY DEF Telegram!Acknowledge, Telegram!Passed, Telegram!Larger, c
  <1>4. /\ offset' \in Nat /\ offset' >= offset /\ offset' > c.id
        /\ \A n \in Nat : n < offset' => n < offset \/ n <= c.id
    BY <1>1, <1>2, <1>3
  <1>5. attempts' \in [Telegram!AllIds -> 0 .. MaxAttempts - 1]
    <2>1. attempts' = [attempts EXCEPT ![c.id] = 0]
      BY DEF Telegram!Acknowledge, c
    <2>2. 0 \in 0 .. MaxAttempts - 1
      BY RemoteAssumption DEF Telegram!TelegramAssumption
    <2> QED BY <1>1, <2>1, <2>2 DEF PollTyped
  <1>6. Telegram!Resumes("batch")
    BY DEF Telegram!Acknowledge
  <1> QED BY <1>2, <1>4, <1>5, <1>6, Resuming DEF Acknowledged, c

\* A refusal passes the update in the end, and defers it before.
LEMMA Refusing ==
    ASSUME PollTyped, poller \in {"accept", "launch"}, Telegram!Refuse
    PROVE  \/ Acknowledged /\ ended' = ended \cup {Telegram!Current}
           \/ Postponed /\ ended' = ended
  <1> DEFINE c == Telegram!Current
  <1>1. c \in Telegram!Update /\ c.id \in Telegram!AllIds
    BY TheCurrent, AnUpdate
  <1>2. CASE Telegram!Exhausted(c)
    BY <1>2, Acknowledging DEF Telegram!Refuse
  <1>3. CASE ~Telegram!Exhausted(c)
    <2>1. /\ attempts' = [attempts EXCEPT ![c.id] = @ + 1]
          /\ offset' = offset /\ Telegram!Resumes("backoff") /\ ended' = ended
      BY <1>3 DEF Telegram!Refuse, Telegram!Counted, Telegram!Deferred
    <2>2. attempts[c.id] \in 0 .. MaxAttempts - 1 /\ ~(attempts[c.id] + 1 >= MaxAttempts)
      BY <1>1, <1>3 DEF PollTyped, Telegram!Exhausted
    <2>3. attempts[c.id] + 1 \in 0 .. MaxAttempts - 1
      BY <2>2, RemoteAssumption DEF Telegram!TelegramAssumption
    <2>4. attempts' \in [Telegram!AllIds -> 0 .. MaxAttempts - 1]
      BY <1>1, <2>1, <2>3 DEF PollTyped
    <2>5. leaving \in {"no", "asked", "last"}
      BY DEF PollTyped, Telegram!TypeOK
    <2> QED BY <2>1, <2>4, <2>5, Resuming DEF Postponed
  <1> QED BY <1>2, <1>3

-----------------------------------------------------------------------------
(* What a step may do to what was admitted, and to what is known.          *)

\* Steps that admit nothing new and bring nothing new into the batch.
LEMMA OnceNext ==
    ASSUME PollTyped, Once, doubtful \subseteq doubtful', bot' = bot,
           server' \in [Bots -> Nat], \A b \in Bots : server'[b] >= server[b],
           offset' \in Nat, offset' >= offset, Telegram!Admitted' \subseteq Telegram!Admitted,
           \A i \in DOMAIN batch' : \E j \in DOMAIN batch : batch'[i] = batch[j]
    PROVE  Once'
  <1> SUFFICES ASSUME NEW u \in Telegram!Update, u \notin doubtful', u \in Telegram!Admitted'
               PROVE  /\ u.bot = bot' => Sent(u)'
                      /\ \A i \in DOMAIN batch' : batch'[i] # u
    BY DEF Once, Telegram!Update
  <1>1. /\ u.bot = bot => Sent(u)
        /\ \A i \in DOMAIN batch : batch[i] # u
    BY DEF Once
  <1>2. u.bot = bot' => Sent(u)'
    <2>1. server \in [Bots -> Nat] /\ offset \in Nat /\ u.bot \in Bots /\ u.id \in Nat
      BY AnUpdate DEF PollTyped, Telegram!TypeOK
    <2> QED BY <1>1, <2>1 DEF Sent
  <1> QED BY <1>1, <1>2

\* The update under way is admitted when it is passed.
LEMMA OnceAfter ==
    ASSUME PollTyped, Once, poller \in {"accept", "launch"}, Acknowledged,
           doubtful' = doubtful, bot' = bot, server' = server,
           Telegram!Admitted' \subseteq Telegram!Admitted \cup {Telegram!Current}
    PROVE  Once'
  <1> DEFINE c == Telegram!Current
  <1>1. batch \in Seq(Telegram!Update) /\ batch # <<>> /\ c = batch[1] /\ c \in Telegram!Update
    BY TheCurrent
  <1>2. c.id \in Nat /\ offset \in Nat /\ offset' \in Nat /\ offset' >= offset /\ offset' > c.id
    BY <1>1, AnUpdate DEF Acknowledged, PollTyped, Telegram!TypeOK
  <1>3. \A i \in DOMAIN batch' : \E j \in DOMAIN batch : batch'[i] = batch[j] /\ j # 1
    <2>1. CASE batch' = <<>>
      BY <2>1
    <2>2. CASE batch' = Tail(batch)
      BY <1>1, <2>2, ATail
    <2> QED BY <2>1, <2>2 DEF Acknowledged
  <1>4. \A i, j \in DOMAIN batch : batch[i] = batch[j] => i = j
    BY DEF PollTyped
  <1>5. 1 \in DOMAIN batch
    BY <1>1, ATail
  <1> HIDE DEF c
  <1> SUFFICES ASSUME NEW u \in Telegram!Update, u \notin doubtful', u \in Telegram!Admitted'
               PROVE  /\ u.bot = bot' => Sent(u)'
                      /\ \A i \in DOMAIN batch' : batch'[i] # u
    BY DEF Once, Telegram!Update
  <1>6. u \in Telegram!Admitted \/ u = c
    BY DEF c
  <1>7. CASE u = c
    BY <1>1, <1>2, <1>3, <1>4, <1>5, <1>7 DEF Sent
  <1>8. CASE u \in Telegram!Admitted
    <2>1. /\ u.bot = bot => Sent(u)
          /\ \A i \in DOMAIN batch : batch[i] # u
      BY <1>8 DEF Once
    <2>2. u.bot \in Bots /\ u.id \in Nat
      BY AnUpdate
    <2> QED BY <1>2, <1>3, <2>1, <2>2 DEF Sent
  <1> QED BY <1>6, <1>7, <1>8

\* Steps that pass nothing and forget nothing.
LEMMA KeptNext ==
    ASSUME PollTyped, Kept, turns'.changes = turns.changes, bot' = bot, server' = server,
           offset' \in Nat, offset' <= offset, leaving = "no" => leaving' = "no",
           Known \subseteq Known', batch' = batch \/ batch' = <<>>
    PROVE  Kept'
  <1> SUFFICES ASSUME turns.changes = 0
               PROVE  /\ leaving' = "no"
                      /\ \A b \in Bots \ {bot'} : server'[b] = 1
                      /\ \A i \in DOMAIN batch' : batch'[i].bot = bot'
                      /\ \A u \in Telegram!Update : Sent(u)' => u \in Known'
                      /\ \A i \in DOMAIN batch' : KeptBefore(i)'
    BY DEF Kept, Telegram!Update
  <1>1. /\ leaving = "no"
        /\ \A b \in Bots \ {bot} : server[b] = 1
        /\ \A i \in DOMAIN batch : batch[i].bot = bot
        /\ \A u \in Telegram!Update : Sent(u) => u \in Known
        /\ \A i \in DOMAIN batch : KeptBefore(i)
    BY DEF Kept
  <1>2. \A u \in Telegram!Update : Sent(u)' => u \in Known'
    <2> SUFFICES ASSUME NEW u \in Telegram!Update, Sent(u)'
                 PROVE  Sent(u)
      BY <1>1
    <2> QED BY AnUpdate DEF Sent, PollTyped, Telegram!TypeOK
  <1>3. \A i \in DOMAIN batch' : KeptBefore(i)'
    <2>1. CASE batch' = <<>>
      BY <2>1
    <2>2. CASE batch' = batch
      BY <1>1, <2>2 DEF KeptBefore, Telegram!Update
    <2> QED BY <2>1, <2>2
  <1> QED BY <1>1, <1>2, <1>3

\* An update is passed that was handled; the ones before it are known.
LEMMA KeptAfter ==
    ASSUME PollTyped, Kept, poller \in {"accept", "launch"}, Acknowledged,
           turns' = turns, bot' = bot, server' = server,
           Known \subseteq Known', Telegram!Current \in Known'
    PROVE  Kept'
  <1> DEFINE c == Telegram!Current
  <1> SUFFICES ASSUME turns.changes = 0
               PROVE  /\ leaving' = "no"
                      /\ \A b \in Bots \ {bot'} : server'[b] = 1
                      /\ \A i \in DOMAIN batch' : batch'[i].bot = bot'
                      /\ \A u \in Telegram!Update : Sent(u)' => u \in Known'
                      /\ \A i \in DOMAIN batch' : KeptBefore(i)'
    BY DEF Kept, Telegram!Update
  <1>1. /\ leaving = "no"
        /\ \A b \in Bots \ {bot} : server[b] = 1
        /\ \A i \in DOMAIN batch : batch[i].bot = bot
        /\ \A u \in Telegram!Update : Sent(u) => u \in Known
        /\ \A i \in DOMAIN batch : KeptBefore(i)
    BY DEF Kept
  <1>2. batch \in Seq(Telegram!Update) /\ batch # <<>> /\ c = batch[1] /\ c \in Telegram!Update
    BY TheCurrent
  <1>3. Len(batch) \in Nat /\ DOMAIN batch = 1 .. Len(batch) /\ 1 \in DOMAIN batch
    BY <1>2, ATail
  <1>4. c.bot = bot /\ c.id \in Nat /\ c \in Known'
    BY <1>1, <1>2, <1>3, AnUpdate
  <1>5. /\ offset \in Nat /\ offset' \in Nat
        /\ \A n \in Nat : n < offset' => n < offset \/ n <= c.id
    BY DEF Acknowledged, PollTyped, Telegram!TypeOK
  <1>6. leaving' = "no"
    BY <1>1 DEF Acknowledged
  <1> HIDE DEF c
  <1>7. \A u \in Telegram!Update : u.bot = bot /\ u.id < c.id => u \in Known
    BY <1>1, <1>2, <1>3 DEF KeptBefore
  <1>8. \A u \in Telegram!Update : Sent(u)' => u \in Known'
    <2> SUFFICES ASSUME NEW u \in Telegram!Update, Sent(u)'
                 PROVE  u \in Known'
      OBVIOUS
    <2>1. u.id \in Nat /\ u.bot \in Bots
      BY AnUpdate
    <2>2. CASE Sent(u)
      BY <1>1, <2>2
    <2>3. CASE ~Sent(u)
      <3>1. u.bot = bot /\ u.id <= c.id
        BY <1>5, <2>1, <2>3 DEF Sent
      <3>2. u.id < c.id \/ u.id = c.id
        BY <1>4, <2>1, <3>1
      <3>3. u.id = c.id => u = c
        BY <1>2, <1>4, <3>1, AnUpdate
      <3> QED BY <1>4, <1>7, <3>1, <3>2, <3>3
    <2> QED BY <2>2, <2>3
  <1>9. \A i \in DOMAIN batch' : batch'[i].bot = bot' /\ KeptBefore(i)'
    <2>1. CASE batch' = <<>>
      BY <2>1
    <2>2. CASE batch' = Tail(batch)
      <3> SUFFICES ASSUME NEW i \in DOMAIN batch'
                   PROVE  batch'[i].bot = bot' /\ KeptBefore(i)'
        OBVIOUS
      <3>1. /\ i \in Nat /\ i + 1 \in DOMAIN batch /\ batch'[i] = batch[i + 1] /\ i <= Len(batch) - 1 /\ 1 <= i
            /\ \A j \in 1 .. i - 1 : batch'[j] = batch[j + 1]
        BY <1>2, <1>3, <2>2, ATail
      <3>2. ASSUME NEW u \in Telegram!Update, u.bot = bot, u.id < batch'[i].id
            PROVE  u \in Known' \/ \E j \in 1 .. i - 1 : batch'[j] = u
        <4>1. u \in Known \/ \E j \in 1 .. (i + 1) - 1 : batch[j] = u
          BY <1>1, <3>1, <3>2 DEF KeptBefore
        <4>2. CASE u \in Known
          BY <4>2
        <4>3. CASE \E j \in 1 .. (i + 1) - 1 : batch[j] = u
          <5>1. PICK j \in 1 .. (i + 1) - 1 : batch[j] = u
            BY <4>3
          <5>2. CASE j = 1
            BY <1>2, <1>4, <5>1, <5>2
          <5>3. CASE j # 1
            <6>1. j - 1 \in 1 .. i - 1 /\ (j - 1) + 1 = j
              BY <3>1, <5>3
            <6>2. batch'[j - 1] = u
              BY <3>1, <5>1, <6>1
            <6> QED BY <6>1, <6>2
          <5> QED BY <5>2, <5>3
        <4> QED BY <4>1, <4>2, <4>3
      <3>3. KeptBefore(i)'
        BY <3>2 DEF KeptBefore, Telegram!Update
      <3> QED BY <1>1, <3>1, <3>3
    <2> QED BY <2>1, <2>2 DEF Acknowledged
  <1> QED BY <1>1, <1>6, <1>8, <1>9

-----------------------------------------------------------------------------
(* Each step of the loop keeps the invariant.                              *)

\* Where nothing moves, every update stays in its place.
LEMMA PlacesStay ==
    ASSUME Places, doubtful \subseteq doubtful', pending' = pending, taken' = taken,
           flushing' = flushing, tasks' = tasks
    PROVE  Places'
  <1> SUFFICES ASSUME NEW u \in Telegram!Update \ doubtful
               PROVE  InOnePlace(u)'
    BY DEF Places, Telegram!Update
  <1>1. InOnePlace(u)
    BY DEF Places
  <1> QED BY <1>1 DEF InOnePlace, Telegram!InTasks

\* The parts of a step that only moves the poller.
Moved ==
    /\ bot' = bot /\ server' = server /\ offset' = offset /\ attempts' = attempts /\ taken' = taken
    /\ notified' = notified /\ pending' = pending /\ flushing' = flushing /\ turns' = turns
    /\ tasks' = tasks /\ ended' = ended /\ doubtful' = doubtful /\ lost' = lost
    /\ poller' \in Telegram!Pollers /\ leaving' \in {"no", "asked", "last"}
    /\ leaving = "no" => leaving' = "no"
    /\ batch' = batch \/ batch' = <<>>
    /\ poller' \in {"accept", "launch"} => batch' # <<>>
    /\ poller = "launch" => poller' = "launch"

\* A step that moves what is known without admitting anything keeps the invariant.
LEMMA Moving ==
    ASSUME IngressInv, Moved
    PROVE  IngressInv'
  <1>1. Telegram!Admitted' = Telegram!Admitted /\ Known' = Known
    BY DEF Moved, Telegram!Admitted, Telegram!InTasks, Known, Telegram!Handled
  <1>2. server \in [Bots -> Nat] /\ offset \in Nat
    BY DEF IngressInv, PollTyped, Telegram!TypeOK
  <1>3. \A i \in DOMAIN batch' : \E j \in DOMAIN batch : batch'[i] = batch[j]
    BY DEF Moved
  <1>4. Once'
    BY <1>1, <1>2, <1>3, OnceNext DEF IngressInv, Moved
  <1>5. Places'
    BY PlacesStay DEF IngressInv, Moved
  <1>6. Kept'
    BY <1>1, <1>2, KeptNext DEF IngressInv, Moved
  <1>7. PollTyped'
    <2>1. PollTyped
      BY DEF IngressInv
    <2>2. batch' \in Seq(Telegram!Update)
      <3>1. batch \in Seq(Telegram!Update)
        BY <2>1 DEF PollTyped, Telegram!TypeOK
      <3>2. batch' = batch \/ batch' = <<>>
        BY DEF Moved
      <3>3. <<>> \in Seq(Telegram!Update)
        OBVIOUS
      <3> QED BY <3>1, <3>2, <3>3
    <2>3. Telegram!TypeOK'
      BY <2>1, <2>2 DEF PollTyped, Telegram!TypeOK, Moved, Telegram!Update
    <2>4. \A i, j \in DOMAIN batch' : batch'[i] = batch'[j] => i = j
      BY <2>1 DEF PollTyped, Moved
    <2> QED BY <2>1, <2>3, <2>4 DEF PollTyped, Moved, Telegram!Update, Telegram!AllIds
  <1> QED BY <1>4, <1>5, <1>6, <1>7 DEF IngressInv

\* Starting, sleeping, taking the next update and stopping only move the poller.
LEMMA PollerMoves ==
    ASSUME IngressInv,
           \/ Telegram!StartPolling
           \/ Telegram!PollFails
           \/ Telegram!BackedOff
           \/ Telegram!NextUpdate
           \/ Telegram!StopPolling
    PROVE  IngressInv'
  <1>1. leaving \in {"no", "asked", "last"}
        /\ (poller \in {"accept", "launch"} => batch # <<>>)
    BY DEF IngressInv, PollTyped, Telegram!TypeOK
  <1>2. CASE Telegram!StartPolling
    BY <1>1, <1>2, Moving DEF Moved, Telegram!StartPolling, Telegram!queue, Telegram!Pollers
  <1>3. CASE Telegram!PollFails
    BY <1>1, <1>3, Moving DEF Moved, Telegram!PollFails, Telegram!queue, Telegram!Pollers
  <1>4. CASE Telegram!BackedOff
    BY <1>1, <1>4, Moving DEF Moved, Telegram!BackedOff, Telegram!queue, Telegram!Pollers
  <1>5. CASE Telegram!NextUpdate
    BY <1>1, <1>5, Moving DEF Moved, Telegram!NextUpdate, Telegram!queue, Telegram!Pollers
  <1>6. CASE Telegram!StopPolling
    <2>1. poller \in Telegram!Pollers /\ poller = "launch" => poller' = "launch"
      BY <1>6 DEF Telegram!StopPolling
    <2>2. poller \in Telegram!Pollers
      BY DEF IngressInv, PollTyped, Telegram!TypeOK
    <2> QED BY <1>1, <1>6, <2>1, <2>2, Moving DEF Moved, Telegram!StopPolling, Telegram!queue, Telegram!Pollers
  <1> QED BY <1>2, <1>3, <1>4, <1>5, <1>6

\* What the server keeps is not passed, and so it was not admitted.
LEMMA AskingTheServer ==
    ASSUME IngressInv, Telegram!GetUpdates
    PROVE  IngressInv'
  <1> DEFINE kept == IF offset > server[bot] THEN offset ELSE server[bot]
             waiting == {u \in Telegram!Update : u.bot = bot /\ kept <= u.id}
             Shown(latest) == {u \in waiting : u.id <= latest.id}
  <1>1. /\ poller = "poll"
        /\ server' = [server EXCEPT ![bot] = kept]
        /\ \/ waiting = {} /\ batch' = batch /\ poller' = poller
           \/ \E newest \in waiting : batch' \in Telegram!Ascending(Shown(newest)) /\ poller' = "batch"
    BY DEF Telegram!GetUpdates
  <1>2. /\ bot' = bot /\ offset' = offset /\ attempts' = attempts /\ taken' = taken /\ leaving' = leaving
        /\ notified' = notified /\ pending' = pending /\ flushing' = flushing /\ turns' = turns
        /\ tasks' = tasks /\ ended' = ended /\ doubtful' = doubtful /\ lost' = lost
    BY DEF Telegram!GetUpdates, Telegram!queue
  <1>3. PollTyped /\ Once /\ Places /\ Kept
    BY DEF IngressInv
  <1>4. server \in [Bots -> Nat] /\ offset \in Nat /\ bot \in Bots
    BY <1>3 DEF PollTyped, Telegram!TypeOK
  <1>5. /\ kept \in Nat /\ kept >= offset /\ kept >= server[bot]
        /\ \A n \in Nat : n < kept => n < offset \/ n < server[bot]
    BY <1>4
  <1>6. \A u \in waiting : u \in Telegram!Update /\ u.bot = bot /\ kept <= u.id
    OBVIOUS
  <1>7. \A u \in Telegram!Update : u.bot = bot /\ kept <= u.id => u \in waiting
    OBVIOUS
  <1>8. \A v \in waiting : \A u : u \in Shown(v) <=> u \in waiting /\ u.id <= v.id
    OBVIOUS
  <1>9. \A u \in waiting : Shown(u) \in SUBSET Telegram!Update
    OBVIOUS
  <1> HIDE DEF kept, waiting, Shown
  <1>10. /\ server' \in [Bots -> Nat]
         /\ \A b \in Bots : server'[b] >= server[b]
         /\ \A b \in Bots \ {bot} : server'[b] = server[b]
         /\ server'[bot] = kept
    BY <1>1, <1>4, <1>5
  <1>11. Telegram!Admitted' = Telegram!Admitted /\ Known' = Known
    BY <1>2 DEF Telegram!Admitted, Telegram!InTasks, Known, Telegram!Handled
  <1>12. \A u \in Telegram!Update : Sent(u)' <=> Sent(u)
    <2> SUFFICES ASSUME NEW u \in Telegram!Update
                 PROVE  Sent(u)' <=> Sent(u)
      OBVIOUS
    <2>1. u.bot \in Bots /\ u.id \in Nat
      BY AnUpdate
    <2>2. CASE u.bot = bot
      BY <1>2, <1>4, <1>5, <1>10, <2>1, <2>2 DEF Sent
    <2>3. CASE u.bot # bot
      BY <1>2, <1>4, <1>10, <2>1, <2>3 DEF Sent
    <2> QED BY <2>2, <2>3
  <1>13. Places'
    BY <1>2, <1>3, PlacesStay
  <1>14. turns.changes = 0 => /\ leaving' = "no"
                              /\ \A b \in Bots \ {bot'} : server'[b] = 1
                              /\ \A u \in Telegram!Update : Sent(u)' => u \in Known'
    BY <1>2, <1>3, <1>10, <1>11, <1>12 DEF Kept
  <1>15. CASE waiting = {} /\ batch' = batch /\ poller' = poller
    <2>1. PollTyped'
      BY <1>2, <1>3, <1>10, <1>15 DEF PollTyped, Telegram!TypeOK, Telegram!Update, Telegram!AllIds
    <2>2. Once'
      BY <1>2, <1>3, <1>4, <1>10, <1>11, <1>15, OnceNext
    <2>3. \A i \in DOMAIN batch' : KeptBefore(i)' <=> KeptBefore(i)
      BY <1>2, <1>11, <1>15 DEF KeptBefore, Telegram!Update
    <2>4. Kept'
      BY <1>2, <1>3, <1>14, <1>15, <2>3 DEF Kept, Telegram!Update
    <2> QED BY <1>13, <2>1, <2>2, <2>4 DEF IngressInv
  <1>16. CASE \E newest \in waiting : batch' \in Telegram!Ascending(Shown(newest)) /\ poller' = "batch"
    <2>1. PICK newest \in waiting : batch' \in Telegram!Ascending(Shown(newest)) /\ poller' = "batch"
      BY <1>16
    <2>2. Shown(newest) \in SUBSET Telegram!Update /\ \A u \in Shown(newest) : u.bot = bot /\ u \in waiting
      BY <1>6, <1>8, <1>9
    <2>3. /\ batch' \in Seq(Telegram!Update)
          /\ \A i \in DOMAIN batch' : batch'[i] \in Shown(newest)
          /\ \A i, j \in DOMAIN batch' : batch'[i] = batch'[j] => i = j
          /\ \A i \in DOMAIN batch', u \in Shown(newest) :
                u.id < batch'[i].id => \E j \in 1 .. i - 1 : batch'[j] = u
      BY <1>4, <2>1, <2>2, AnAnswer
    <2>4. PollTyped'
      <3>1. Telegram!TypeOK'
        BY <1>2, <1>3, <1>10, <2>1, <2>3 DEF PollTyped, Telegram!TypeOK, Telegram!Update, Telegram!Pollers
      <3>2. taken' = {}
        BY <1>1, <1>2, <1>3 DEF PollTyped
      <3> QED BY <1>2, <1>3, <2>1, <2>3, <3>1, <3>2 DEF PollTyped, Telegram!Update, Telegram!AllIds
    <2>5. Once'
      <3> SUFFICES ASSUME NEW u \in Telegram!Update, u \notin doubtful, u \in Telegram!Admitted
                   PROVE  /\ u.bot = bot => Sent(u)'
                          /\ \A i \in DOMAIN batch' : batch'[i] # u
        BY <1>2, <1>11 DEF Once, Telegram!Update
      <3>1. u.bot = bot => Sent(u)
        BY <1>3 DEF Once
      <3>2. u.id \in Nat /\ u.bot \in Bots
        BY AnUpdate
      <3>3. ASSUME u.bot = bot, kept <= u.id
            PROVE  FALSE
        <4>1. Sent(u)'
          BY <1>12, <3>1, <3>3
        <4> QED BY <1>2, <1>4, <1>5, <1>10, <3>2, <3>3, <4>1 DEF Sent
      <3> QED BY <1>6, <1>12, <2>2, <2>3, <3>1, <3>3
    <2>6. ASSUME turns.changes = 0, NEW i \in DOMAIN batch'
          PROVE  batch'[i].bot = bot' /\ KeptBefore(i)'
      <3>1. ASSUME NEW u \in Telegram!Update, u.bot = bot, u.id < batch'[i].id
            PROVE  u \in Known \/ \E j \in 1 .. i - 1 : batch'[j] = u
        <4>1. u.id \in Nat /\ newest.id \in Nat /\ batch'[i].id \in Nat
          BY <1>6, <2>2, <2>3, AnUpdate
        <4>2. CASE u.id < kept
          <5>1. Sent(u)
            BY <1>4, <1>5, <3>1, <4>1, <4>2 DEF Sent
          <5> QED BY <1>3, <2>6, <5>1 DEF Kept
        <4>3. CASE kept <= u.id
          <5>1. batch'[i].id <= newest.id
            BY <1>8, <2>3
          <5>2. u \in Shown(newest)
            BY <1>7, <1>8, <3>1, <4>1, <4>3, <5>1
          <5> QED BY <2>3, <3>1, <5>2
        <4> QED BY <1>5, <4>1, <4>2, <4>3
      <3>2. KeptBefore(i)'
        BY <1>2, <1>11, <3>1 DEF KeptBefore, Telegram!Update
      <3> QED BY <1>2, <2>2, <2>3, <3>2
    <2>7. Kept'
      BY <1>2, <1>14, <2>6 DEF Kept, Telegram!Update
    <2> QED BY <1>13, <2>4, <2>5, <2>7 DEF IngressInv
  <1> QED BY <1>1, <1>15, <1>16

-----------------------------------------------------------------------------
(* The admission of an update keeps the invariant.                         *)

\* The types after an update was passed or deferred.
LEMMA TypedAfter ==
    ASSUME PollTyped, poller \in {"accept", "launch"}, Acknowledged \/ Postponed,
           bot' = bot, server' = server, turns' = turns, taken' = {},
           notified' \subseteq Telegram!Update, pending' \subseteq Telegram!Update,
           flushing' \subseteq SUBSET Telegram!Update, tasks' \in Seq(SUBSET Telegram!Update),
           (ended' \cup lost' \cup doubtful') \subseteq Telegram!Update
    PROVE  PollTyped'
  <1>1. batch \in Seq(Telegram!Update) /\ batch # <<>> /\ offset \in Nat
    BY TheCurrent DEF PollTyped, Telegram!TypeOK
  <1>2. \A i, j \in DOMAIN batch : batch[i] = batch[j] => i = j
    BY DEF PollTyped
  <1>3. batch' = Tail(batch) \/ batch' = <<>>
    BY DEF Acknowledged, Postponed
  <1>4. batch' \in Seq(Telegram!Update) /\ \A i, j \in DOMAIN batch' : batch'[i] = batch'[j] => i = j
    <2>1. CASE batch' = <<>>
      BY <2>1
    <2>2. CASE batch' = Tail(batch)
      <3>1. Tail(batch) \in Seq(Telegram!Update)
        BY <1>1, ATail
      <3>2. \A i \in DOMAIN batch' : i \in Nat /\ i + 1 \in DOMAIN batch /\ batch'[i] = batch[i + 1]
        BY <1>1, <2>2, ATail
      <3> QED BY <1>2, <2>2, <3>1, <3>2
    <2> QED BY <1>3, <2>1, <2>2
  <1>5. /\ offset' \in Nat /\ attempts' \in [Telegram!AllIds -> 0 .. MaxAttempts - 1]
        /\ poller' \in {"off", "batch", "backoff"} /\ leaving' \in {"no", "asked", "last"}
    BY <1>1 DEF Acknowledged, Postponed
  <1>6. Telegram!TypeOK'
    BY <1>4, <1>5 DEF PollTyped, Telegram!TypeOK, Telegram!Update, Telegram!Pollers
  <1> QED BY <1>4, <1>5, <1>6 DEF PollTyped, Telegram!Update, Telegram!AllIds

\* Nothing was admitted: the update was ended with a diagnostic, or deferred.
LEMMA Ending ==
    ASSUME IngressInv, poller = "accept",
           \/ Acknowledged /\ ended' = ended \cup {Telegram!Current}
           \/ Postponed /\ ended' = ended,
           notified' \subseteq Telegram!Update,
           bot' = bot, server' = server, taken' = taken, pending' = pending, flushing' = flushing,
           turns' = turns, tasks' = tasks, doubtful' = doubtful, lost' = lost
    PROVE  IngressInv'
  <1>1. PollTyped /\ Once /\ Places /\ Kept
    BY DEF IngressInv
  <1>2. Telegram!Current \in Telegram!Update
    BY <1>1, TheCurrent
  <1>3. PollTyped'
    BY <1>1, <1>2, TypedAfter DEF PollTyped, Telegram!TypeOK
  <1>4. Telegram!Admitted' = Telegram!Admitted
    BY DEF Telegram!Admitted, Telegram!InTasks
  <1>5. Places'
    BY <1>1, PlacesStay
  <1>6. offset \in Nat /\ server \in [Bots -> Nat]
    BY <1>1 DEF PollTyped, Telegram!TypeOK
  <1>7. Known \subseteq Known'
    BY <1>4 DEF Known, Telegram!Handled
  <1>8. CASE Acknowledged /\ ended' = ended \cup {Telegram!Current}
    <2>1. Once'
      BY <1>1, <1>4, <1>8, OnceAfter
    <2>2. Telegram!Current \in Known'
      BY <1>8 DEF Known, Telegram!Handled
    <2>3. Kept'
      BY <1>1, <1>7, <1>8, <2>2, KeptAfter
    <2> QED BY <1>3, <1>5, <2>1, <2>3 DEF IngressInv
  <1>9. CASE Postponed /\ ended' = ended
    <2>1. Once'
      BY <1>1, <1>4, <1>6, <1>9, OnceNext DEF Postponed
    <2>2. Kept'
      BY <1>1, <1>6, <1>7, <1>9, KeptNext DEF Postponed
    <2> QED BY <1>3, <1>5, <2>1, <2>2 DEF IngressInv
  <1> QED BY <1>8, <1>9

\* An update that is ignored is passed.
LEMMA Ignoring ==
    ASSUME IngressInv, Telegram!Ignore
    PROVE  IngressInv'
  <1>1. poller = "accept" /\ Telegram!Acknowledge /\ ended' = ended \cup {Telegram!Current}
    BY DEF Telegram!Ignore
  <1>2. Acknowledged
    BY <1>1, Acknowledging DEF IngressInv
  <1>3. notified \subseteq Telegram!Update
    BY DEF IngressInv, PollTyped, Telegram!TypeOK
  <1> QED BY <1>1, <1>2, <1>3, Ending DEF Telegram!Ignore, Telegram!queue

\* An update whose files or whose task failed is asked for again, or ended with a notice.
LEMMA Failing ==
    ASSUME IngressInv, NEW permanent \in BOOLEAN, Telegram!FetchFails(permanent)
    PROVE  IngressInv'
  <1>1. PollTyped /\ poller = "accept"
    BY DEF IngressInv, Telegram!FetchFails
  <1>2. PICK heard \in BOOLEAN :
            /\ notified' = IF heard THEN notified \cup {Telegram!Current} ELSE notified
            /\ IF permanent /\ heard
               THEN Telegram!Acknowledge /\ ended' = ended \cup {Telegram!Current}
               ELSE Telegram!Refuse
    BY DEF Telegram!FetchFails
  <1>3. Telegram!Current \in Telegram!Update /\ notified \subseteq Telegram!Update
    BY <1>1, TheCurrent DEF PollTyped, Telegram!TypeOK
  <1>4. notified' \subseteq Telegram!Update
    BY <1>2, <1>3
  <1>5. \/ Acknowledged /\ ended' = ended \cup {Telegram!Current}
        \/ Postponed /\ ended' = ended
    BY <1>1, <1>2, Acknowledging, Refusing
  <1> QED BY <1>1, <1>4, <1>5, Ending DEF Telegram!FetchFails, Telegram!queue

\* The files that wait go to the text.
LEMMA Taking ==
    ASSUME IngressInv, Telegram!TakeFiles
    PROVE  IngressInv'
  <1>1. /\ poller = "accept" /\ taken' = pending /\ pending' = {} /\ poller' = "launch"
        /\ bot' = bot /\ server' = server /\ offset' = offset /\ batch' = batch /\ attempts' = attempts
        /\ leaving' = leaving /\ notified' = notified /\ flushing' = flushing /\ turns' = turns
        /\ tasks' = tasks /\ ended' = ended /\ doubtful' = doubtful /\ lost' = lost
    BY DEF Telegram!TakeFiles
  <1>2. PollTyped /\ Once /\ Places /\ Kept
    BY DEF IngressInv
  <1>3. taken = {} /\ batch # <<>> /\ offset \in Nat /\ server \in [Bots -> Nat]
    BY <1>1, <1>2 DEF PollTyped, Telegram!TypeOK
  <1>4. Telegram!InTasks' = Telegram!InTasks
    BY <1>1 DEF Telegram!InTasks
  <1>5. Telegram!Admitted' = Telegram!Admitted /\ Known' = Known
    <2>1. UNION flushing' = UNION flushing
      BY <1>1
    <2>2. Telegram!Admitted' = Telegram!Admitted
      BY <1>1, <1>3, <1>4, <2>1 DEF Telegram!Admitted
    <2> QED BY <1>1, <2>2 DEF Known, Telegram!Handled
  <1>6. PollTyped'
    BY <1>1, <1>2, <1>3 DEF PollTyped, Telegram!TypeOK, Telegram!Update, Telegram!AllIds, Telegram!Pollers
  <1>7. Once'
    BY <1>1, <1>2, <1>3, <1>5, OnceNext
  <1>8. Kept'
    BY <1>1, <1>2, <1>3, <1>5, KeptNext
  <1>9. Places'
    <2> SUFFICES ASSUME NEW u \in Telegram!Update \ doubtful
                 PROVE  InOnePlace(u)'
      BY <1>1 DEF Places, Telegram!Update
    <2>1. InOnePlace(u)
      BY <1>2 DEF Places
    <2> QED BY <1>1, <1>4, <2>1 DEF InOnePlace
  <1> QED BY <1>6, <1>7, <1>8, <1>9 DEF IngressInv

\* Files wait for the text behind them.
LEMMA Staging ==
    ASSUME IngressInv, Telegram!StageFiles
    PROVE  IngressInv'
  <1> DEFINE c == Telegram!Current
  <1>1. /\ poller = "accept" /\ pending' = pending \cup {c} /\ Telegram!Acknowledge
        /\ bot' = bot /\ server' = server /\ taken' = taken /\ notified' = notified
        /\ flushing' = flushing /\ turns' = turns /\ tasks' = tasks /\ ended' = ended
        /\ doubtful' = doubtful /\ lost' = lost
    BY DEF Telegram!StageFiles, Telegram!Staged
  <1>2. PollTyped /\ Once /\ Places /\ Kept
    BY DEF IngressInv
  <1>3. Acknowledged /\ c \in Telegram!Update /\ 1 \in DOMAIN batch /\ c = batch[1]
    BY <1>1, <1>2, Acknowledging, TheCurrent, ATail
  <1>4. c \in doubtful \/ c \notin Telegram!Admitted
    BY <1>2, <1>3 DEF Once
  <1>5. Telegram!InTasks' = Telegram!InTasks
    BY <1>1 DEF Telegram!InTasks
  <1>6. Telegram!Admitted' = Telegram!Admitted \cup {c} /\ Known \subseteq Known' /\ c \in Known'
    BY <1>1, <1>5 DEF Telegram!Admitted, Known, Telegram!Handled
  <1>7. taken = {}
    BY <1>1, <1>2 DEF PollTyped
  <1>8. PollTyped'
    BY <1>1, <1>2, <1>3, <1>7, TypedAfter DEF PollTyped, Telegram!TypeOK
  <1>9. Once'
    BY <1>1, <1>2, <1>3, <1>6, OnceAfter
  <1>10. Kept'
    BY <1>1, <1>2, <1>3, <1>6, KeptAfter
  <1>11. Places'
    <2> SUFFICES ASSUME NEW u \in Telegram!Update \ doubtful
                 PROVE  InOnePlace(u)'
      BY <1>1 DEF Places, Telegram!Update
    <2>1. InOnePlace(u)
      BY <1>2 DEF Places
    <2> HIDE DEF c
    <2>2. u = c => u \notin Telegram!Admitted
      BY <1>4
    <2>3. u \notin Telegram!Admitted => u \notin taken /\ u \notin UNION flushing /\ u \notin Telegram!InTasks
      BY DEF Telegram!Admitted
    <2> QED BY <1>1, <1>5, <2>1, <2>2, <2>3 DEF InOnePlace
  <1> QED BY <1>8, <1>9, <1>10, <1>11 DEF IngressInv

\* A text becomes one task, with the files it took; or it ends with them; or it is
\* deferred, and they are lost.
LEMMA Launching ==
    ASSUME IngressInv, Telegram!Launch
    PROVE  IngressInv'
  <1> DEFINE c == Telegram!Current
             us == taken \cup {c}
  <1>1. /\ poller = "launch" /\ taken' = {}
        /\ bot' = bot /\ server' = server /\ notified' = notified /\ pending' = pending
        /\ flushing' = flushing /\ turns' = turns /\ doubtful' = doubtful
        /\ lost' = lost \cup (taken \ (ended' \cup UNION {tasks'[i] : i \in DOMAIN tasks'}))
    BY DEF Telegram!Launch, Telegram!queue
  <1>2. \/ tasks' = Append(tasks, us) /\ Telegram!Acknowledge /\ ended' = ended
        \/ Telegram!Acknowledge /\ ended' = ended \cup taken \cup {c} /\ tasks' = tasks
        \/ Telegram!Refuse /\ tasks' = tasks
    BY DEF Telegram!Launch
  <1>3. PollTyped /\ Once /\ Places /\ Kept
    BY DEF IngressInv
  <1>4. c \in Telegram!Update /\ 1 \in DOMAIN batch /\ c = batch[1]
    BY <1>1, <1>3, TheCurrent, ATail
  <1>5. c \in doubtful \/ c \notin Telegram!Admitted
    BY <1>3, <1>4 DEF Once
  <1>6. /\ pending \subseteq Telegram!Update /\ taken \subseteq Telegram!Update /\ flushing \subseteq SUBSET Telegram!Update
        /\ ended \subseteq Telegram!Update /\ lost \subseteq Telegram!Update
        /\ doubtful \subseteq Telegram!Update /\ notified \subseteq Telegram!Update
        /\ tasks \in Seq(SUBSET Telegram!Update) /\ offset \in Nat /\ server \in [Bots -> Nat]
    BY <1>3 DEF PollTyped, Telegram!TypeOK
  <1>7. us \in SUBSET Telegram!Update
    BY <1>4, <1>6
  <1>8. \/ Acknowledged /\ tasks' = Append(tasks, us) /\ ended' = ended
        \/ Acknowledged /\ ended' = ended \cup us /\ tasks' = tasks
        \/ Acknowledged /\ ended' = ended \cup {c} /\ tasks' = tasks
        \/ Postponed /\ ended' = ended /\ tasks' = tasks
    BY <1>1, <1>2, <1>3, Acknowledging, Refusing
  <1>9. UNION flushing' = UNION flushing
    BY <1>1
  <1> HIDE DEF c, us
  <1>10. \A u : u \in us <=> u \in taken \/ u = c
    BY DEF us
  <1>11. \/ tasks' = tasks /\ Telegram!InTasks' = Telegram!InTasks
         \/ tasks' = Append(tasks, us) /\ Telegram!InTasks' = Telegram!InTasks \cup us
    BY <1>6, <1>7, <1>8, ATask DEF Telegram!InTasks
  <1>12. /\ Telegram!Admitted' \subseteq Telegram!Admitted \cup {c}
         /\ tasks' = tasks => Telegram!Admitted' \subseteq Telegram!Admitted
    BY <1>1, <1>9, <1>10, <1>11 DEF Telegram!Admitted
  <1>13. taken \subseteq Telegram!InTasks' \cup ended' \cup lost'
    BY <1>1 DEF Telegram!InTasks
  <1>14. Telegram!InTasks \subseteq Telegram!InTasks' /\ ended \subseteq ended' /\ lost \subseteq lost'
    BY <1>1, <1>8, <1>11
  <1>15. Known \subseteq Known'
    BY <1>1, <1>9, <1>13, <1>14 DEF Known, Telegram!Handled, Telegram!Admitted
  <1>16. Acknowledged => c \in Known' \/ Postponed
    BY <1>8, <1>10, <1>11 DEF Known, Telegram!Handled, Telegram!Admitted, Acknowledged, Postponed
  <1>17. PollTyped'
    <2>1. tasks' \in Seq(SUBSET Telegram!Update)
      BY <1>6, <1>7, <1>8, ATask
    <2>2. ended' \subseteq Telegram!Update /\ lost' \subseteq Telegram!Update
      BY <1>1, <1>4, <1>6, <1>7, <1>8
    <2>3. Acknowledged \/ Postponed
      BY <1>8
    <2> QED BY <1>1, <1>3, <1>6, <2>1, <2>2, <2>3, TypedAfter
  <1>18. Once'
    <2>1. CASE Acknowledged
      BY <1>1, <1>3, <1>12, <2>1, OnceAfter DEF c
    <2>2. CASE Postponed /\ tasks' = tasks
      BY <1>1, <1>3, <1>6, <1>12, <2>2, OnceNext DEF Postponed
    <2> QED BY <1>8, <2>1, <2>2
  <1>19. Kept'
    <2>1. CASE Acknowledged /\ ~Postponed
      BY <1>1, <1>3, <1>15, <1>16, <2>1, KeptAfter DEF c
    <2>2. CASE Postponed
      BY <1>1, <1>3, <1>6, <1>15, <2>2, KeptNext DEF Postponed
    <2> QED BY <1>8, <2>1, <2>2
  <1>20. Places'
    <2> SUFFICES ASSUME NEW u \in Telegram!Update \ doubtful
                 PROVE  InOnePlace(u)'
      BY <1>1 DEF Places, Telegram!Update
    <2>1. InOnePlace(u)
      BY <1>3 DEF Places
    <2>2. CASE tasks' = tasks /\ Telegram!InTasks' = Telegram!InTasks
      BY <1>1, <2>1, <2>2 DEF InOnePlace
    <2>3. CASE tasks' = Append(tasks, us) /\ Telegram!InTasks' = Telegram!InTasks \cup us
      <3>1. u = c => u \notin Telegram!Admitted
        BY <1>5
      <3>2. u \notin Telegram!Admitted =>
                u \notin pending /\ u \notin UNION flushing /\ u \notin Telegram!InTasks
        BY DEF Telegram!Admitted
      <3>3. u \in us => u \notin pending /\ u \notin UNION flushing /\ u \notin Telegram!InTasks
        BY <1>10, <2>1, <3>1, <3>2 DEF InOnePlace
      <3>4. \A i \in DOMAIN tasks : u \in tasks[i] => u \in Telegram!InTasks
        BY DEF Telegram!InTasks
      <3>5. ASSUME NEW i \in DOMAIN tasks', NEW j \in DOMAIN tasks', u \in tasks'[i], u \in tasks'[j]
            PROVE  i = j
        <4>1. /\ DOMAIN tasks' = DOMAIN tasks \cup {Len(tasks) + 1} /\ Len(tasks) + 1 \notin DOMAIN tasks
              /\ \A k \in DOMAIN tasks : tasks'[k] = tasks[k]
              /\ tasks'[Len(tasks) + 1] = us
          BY <1>6, <1>7, <2>3, ATask
        <4>2. \A k, l \in DOMAIN tasks : u \in tasks[k] /\ u \in tasks[l] => k = l
          BY <2>1 DEF InOnePlace
        <4> QED BY <3>3, <3>4, <3>5, <4>1, <4>2
      <3> QED BY <1>1, <1>9, <2>1, <2>3, <3>3, <3>5 DEF InOnePlace
    <2> QED BY <1>11, <2>2, <2>3
  <1> QED BY <1>17, <1>18, <1>19, <1>20 DEF IngressInv

\* The admission of an update keeps the invariant.
LEMMA Admitting ==
    ASSUME IngressInv, Telegram!Admission
    PROVE  IngressInv'
  BY Ignoring, Failing, Taking, Staging, Launching DEF Telegram!Admission

-----------------------------------------------------------------------------
(* The timer of the queue, new tokens and restarts keep the invariant.     *)

\* Steps of the queue leave the loop alone.
LEMMA TheTimer ==
    ASSUME IngressInv, Telegram!TimerFires
    PROVE  IngressInv'
  <1>1. /\ flushing' = flushing \cup {pending} /\ pending' = {}
        /\ bot' = bot /\ server' = server /\ offset' = offset /\ poller' = poller /\ batch' = batch
        /\ attempts' = attempts /\ taken' = taken /\ leaving' = leaving /\ notified' = notified
        /\ turns' = turns /\ tasks' = tasks /\ ended' = ended /\ doubtful' = doubtful /\ lost' = lost
    BY DEF Telegram!TimerFires, Telegram!polling
  <1>2. PollTyped /\ Once /\ Places /\ Kept
    BY DEF IngressInv
  <1>3. offset \in Nat /\ server \in [Bots -> Nat]
    BY <1>2 DEF PollTyped, Telegram!TypeOK
  <1>4. Telegram!InTasks' = Telegram!InTasks
    BY <1>1 DEF Telegram!InTasks
  <1>5. UNION flushing' = (UNION flushing) \cup pending
    BY <1>1
  <1>6. Telegram!Admitted' = Telegram!Admitted
    BY <1>1, <1>4, <1>5 DEF Telegram!Admitted
  <1>7. Known' = Known
    BY <1>1, <1>6 DEF Known, Telegram!Handled
  <1>8. PollTyped'
    BY <1>1, <1>2 DEF PollTyped, Telegram!TypeOK, Telegram!Update, Telegram!AllIds
  <1>9. Once'
    BY <1>1, <1>2, <1>3, <1>6, OnceNext
  <1>10. Kept'
    BY <1>1, <1>2, <1>3, <1>7, KeptNext
  <1>11. Places'
    <2> SUFFICES ASSUME NEW u \in Telegram!Update \ doubtful
                 PROVE  InOnePlace(u)'
      BY <1>1 DEF Places, Telegram!Update
    <2>1. InOnePlace(u)
      BY <1>2 DEF Places
    <2>2. \A f \in flushing : u \in f => u \in UNION flushing
      OBVIOUS
    <2>3. \A f, g \in flushing' : u \in f /\ u \in g => f = g
      BY <1>1, <2>1, <2>2 DEF InOnePlace
    <2> QED BY <1>1, <1>4, <1>5, <2>1, <2>3 DEF InOnePlace
  <1> QED BY <1>8, <1>9, <1>10, <1>11 DEF IngressInv

\* Files without a text become one task, or end with a diagnostic.
LEMMA Flushing ==
    ASSUME IngressInv, NEW files \in flushing, Telegram!Flush(files)
    PROVE  IngressInv'
  <1>1. /\ flushing' = flushing \ {files}
        /\ bot' = bot /\ server' = server /\ offset' = offset /\ poller' = poller /\ batch' = batch
        /\ attempts' = attempts /\ taken' = taken /\ leaving' = leaving /\ notified' = notified
        /\ turns' = turns /\ pending' = pending /\ doubtful' = doubtful /\ lost' = lost
        /\ \/ tasks' = Append(tasks, files) /\ ended' = ended
           \/ ended' = ended \cup files /\ tasks' = tasks
    BY DEF Telegram!Flush, Telegram!polling
  <1>2. PollTyped /\ Once /\ Places /\ Kept
    BY DEF IngressInv
  <1>3. /\ offset \in Nat /\ server \in [Bots -> Nat] /\ tasks \in Seq(SUBSET Telegram!Update)
        /\ files \in SUBSET Telegram!Update
    BY <1>2 DEF PollTyped, Telegram!TypeOK
  <1>4. \/ tasks' = tasks /\ Telegram!InTasks' = Telegram!InTasks
        \/ tasks' = Append(tasks, files) /\ Telegram!InTasks' = Telegram!InTasks \cup files
    BY <1>1, <1>3, ATask DEF Telegram!InTasks
  <1>5. /\ UNION flushing' \subseteq UNION flushing /\ files \subseteq UNION flushing
        /\ UNION flushing \subseteq (UNION flushing') \cup files
    BY <1>1
  <1>6. Telegram!Admitted' \subseteq Telegram!Admitted
    BY <1>1, <1>4, <1>5 DEF Telegram!Admitted
  <1>7. files \subseteq Telegram!InTasks' \cup ended' /\ Telegram!InTasks \subseteq Telegram!InTasks' /\ ended \subseteq ended'
    <2>1. CASE tasks' = Append(tasks, files) /\ ended' = ended
      <3>1. Telegram!InTasks' = Telegram!InTasks \cup files
        BY <1>3, <2>1, ATask
      <3> QED BY <2>1, <3>1
    <2>2. CASE ended' = ended \cup files /\ tasks' = tasks
      <3>1. Telegram!InTasks' = Telegram!InTasks
        BY <2>2 DEF Telegram!InTasks
      <3> QED BY <2>2, <3>1
    <2> QED BY <1>1, <2>1, <2>2
  <1>8. Known \subseteq Known'
    BY <1>1, <1>5, <1>7 DEF Known, Telegram!Handled, Telegram!Admitted
  <1>9. PollTyped'
    <2>1. tasks' \in Seq(SUBSET Telegram!Update)
      BY <1>1, <1>3, ATask
    <2>2. Telegram!TypeOK'
      BY <1>1, <1>2, <1>3 DEF PollTyped, Telegram!TypeOK, Telegram!Update
    <2> QED BY <1>1, <1>2, <2>1, <2>2 DEF PollTyped, Telegram!Update, Telegram!AllIds
  <1>10. Once'
    BY <1>1, <1>2, <1>3, <1>6, OnceNext
  <1>11. Kept'
    BY <1>1, <1>2, <1>3, <1>8, KeptNext
  <1>12. Places'
    <2> SUFFICES ASSUME NEW u \in Telegram!Update \ doubtful
                 PROVE  InOnePlace(u)'
      BY <1>1 DEF Places, Telegram!Update
    <2>1. InOnePlace(u)
      BY <1>2 DEF Places
    <2>2. \A f, g \in flushing' : u \in f /\ u \in g => f = g
      BY <1>1, <2>1 DEF InOnePlace
    <2>3. CASE tasks' = tasks /\ Telegram!InTasks' = Telegram!InTasks
      BY <1>1, <1>5, <2>1, <2>2, <2>3 DEF InOnePlace
    <2>4. CASE tasks' = Append(tasks, files) /\ Telegram!InTasks' = Telegram!InTasks \cup files
      <3>1. u \in files => u \notin pending /\ u \notin taken /\ u \notin Telegram!InTasks
        BY <1>5, <2>1 DEF InOnePlace
      <3>2. u \in files => u \notin UNION flushing'
        BY <1>1, <2>1 DEF InOnePlace
      <3>3. \A i \in DOMAIN tasks : u \in tasks[i] => u \in Telegram!InTasks
        BY DEF Telegram!InTasks
      <3>4. ASSUME NEW i \in DOMAIN tasks', NEW j \in DOMAIN tasks', u \in tasks'[i], u \in tasks'[j]
            PROVE  i = j
        <4>1. /\ DOMAIN tasks' = DOMAIN tasks \cup {Len(tasks) + 1} /\ Len(tasks) + 1 \notin DOMAIN tasks
              /\ \A k \in DOMAIN tasks : tasks'[k] = tasks[k]
              /\ tasks'[Len(tasks) + 1] = files
          BY <1>3, <2>4, ATask
        <4>2. \A k, l \in DOMAIN tasks : u \in tasks[k] /\ u \in tasks[l] => k = l
          BY <2>1 DEF InOnePlace
        <4> QED BY <3>1, <3>3, <3>4, <4>1, <4>2
      <3> QED BY <1>1, <1>5, <2>1, <2>2, <2>4, <3>1, <3>2, <3>4 DEF InOnePlace
    <2> QED BY <1>4, <2>3, <2>4
  <1> QED BY <1>9, <1>10, <1>11, <1>12 DEF IngressInv

\* With a new token, what was admitted and not confirmed may come again.
LEMMA Changing ==
    ASSUME IngressInv, NEW b \in Bots, Telegram!ChangeToken(b)
    PROVE  IngressInv'
  <1>1. /\ turns' = [turns EXCEPT !.changes = @ + 1]
        /\ bot' = b /\ offset' = 0 /\ attempts' = Telegram!NoAttempts /\ leaving' = "asked"
        /\ doubtful' = doubtful \cup Telegram!Unconfirmed(Telegram!Admitted)
        /\ server' = server /\ poller' = poller /\ batch' = batch /\ taken' = taken /\ notified' = notified
        /\ pending' = pending /\ flushing' = flushing /\ tasks' = tasks /\ ended' = ended /\ lost' = lost
    BY DEF Telegram!ChangeToken, Telegram!queue
  <1>2. PollTyped /\ Once /\ Places
    BY DEF IngressInv
  <1>3. Telegram!Admitted' = Telegram!Admitted
    BY <1>1 DEF Telegram!Admitted, Telegram!InTasks
  <1>4. Telegram!Admitted \subseteq Telegram!Update
    BY <1>2 DEF Telegram!Admitted, Telegram!InTasks, PollTyped, Telegram!TypeOK
  <1>5. server \in [Bots -> Nat]
    BY <1>2 DEF PollTyped, Telegram!TypeOK
  <1>6. PollTyped'
    <2>1. Telegram!NoAttempts \in [Telegram!AllIds -> 0 .. MaxAttempts - 1]
      BY RemoteAssumption DEF Telegram!NoAttempts, Telegram!TelegramAssumption
    <2>2. turns' \in [restarts : Nat, changes : Nat]
      BY <1>1, <1>2 DEF PollTyped
    <2>3. doubtful' \subseteq Telegram!Update
      BY <1>1, <1>2, <1>4 DEF PollTyped, Telegram!TypeOK, Telegram!Unconfirmed
    <2>4. Telegram!TypeOK'
      BY <1>1, <1>2, <2>1, <2>3 DEF PollTyped, Telegram!TypeOK, Telegram!Update
    <2> QED BY <1>1, <1>2, <2>1, <2>2, <2>4 DEF PollTyped, Telegram!Update, Telegram!AllIds
  <1>7. Once'
    <2> SUFFICES ASSUME NEW u \in Telegram!Update, u \notin doubtful', u \in Telegram!Admitted
                 PROVE  /\ u.bot = bot' => Sent(u)'
                        /\ \A i \in DOMAIN batch' : batch'[i] # u
      BY <1>3 DEF Once, Telegram!Update
    <2>1. u.bot \in Bots /\ u.id \in Nat
      BY AnUpdate
    <2>2. u.id < server[u.bot]
      BY <1>1, <1>5, <2>1 DEF Telegram!Unconfirmed
    <2> QED BY <1>1, <1>2, <2>2 DEF Once, Sent
  <1>8. Places'
    BY <1>1, <1>2, PlacesStay
  <1>9. Kept'
    BY <1>1, <1>2 DEF Kept, PollTyped
  <1> QED BY <1>6, <1>7, <1>8, <1>9 DEF IngressInv

\* After a restart nothing waits, and a task that was not confirmed may come again.
LEMMA Restarting ==
    ASSUME IngressInv, Telegram!Restart
    PROVE  IngressInv'
  <1>1. /\ turns' = [turns EXCEPT !.restarts = @ + 1]
        /\ offset' = 0 /\ poller' = "off" /\ batch' = <<>> /\ attempts' = Telegram!NoAttempts
        /\ notified' = {} /\ pending' = {} /\ flushing' = {} /\ taken' = {} /\ leaving' = "no"
        /\ doubtful' = doubtful \cup Telegram!Unconfirmed(Telegram!InTasks)
        /\ lost' = lost \cup pending \cup (UNION flushing) \cup taken
        /\ bot' = bot /\ server' = server /\ tasks' = tasks /\ ended' = ended
    BY DEF Telegram!Restart
  <1>2. PollTyped /\ Once /\ Places /\ Kept
    BY DEF IngressInv
  <1>3. Telegram!InTasks' = Telegram!InTasks /\ Telegram!Admitted' = Telegram!InTasks
    BY <1>1 DEF Telegram!Admitted, Telegram!InTasks
  <1>4. Telegram!InTasks \subseteq Telegram!Update
    BY <1>2 DEF Telegram!InTasks, PollTyped, Telegram!TypeOK
  <1>5. server \in [Bots -> Nat] /\ offset \in Nat /\ turns.changes \in Nat /\ turns'.changes = turns.changes
    BY <1>1, <1>2 DEF PollTyped, Telegram!TypeOK
  <1>6. Known \subseteq Known'
    BY <1>1, <1>3 DEF Known, Telegram!Handled, Telegram!Admitted
  <1>7. PollTyped'
    <2>1. Telegram!NoAttempts \in [Telegram!AllIds -> 0 .. MaxAttempts - 1]
      BY RemoteAssumption DEF Telegram!NoAttempts, Telegram!TelegramAssumption
    <2>2. turns' \in [restarts : Nat, changes : Nat]
      BY <1>1, <1>2 DEF PollTyped
    <2>3. doubtful' \subseteq Telegram!Update
      BY <1>1, <1>2, <1>4 DEF PollTyped, Telegram!TypeOK, Telegram!Unconfirmed
    <2>4. batch' \in Seq(Telegram!Update)
      BY <1>1
    <2>5. lost' \subseteq Telegram!Update
      BY <1>1, <1>2 DEF PollTyped, Telegram!TypeOK
    <2>6. Telegram!TypeOK'
      BY <1>1, <1>2, <2>1, <2>3, <2>4, <2>5 DEF PollTyped, Telegram!TypeOK, Telegram!Update, Telegram!Pollers
    <2> QED BY <1>1, <1>2, <2>1, <2>2, <2>6 DEF PollTyped, Telegram!Update, Telegram!AllIds
  <1>8. Once'
    <2> SUFFICES ASSUME NEW u \in Telegram!Update, u \notin doubtful', u \in Telegram!InTasks
                 PROVE  /\ u.bot = bot' => Sent(u)'
                        /\ \A i \in DOMAIN batch' : batch'[i] # u
      BY <1>3 DEF Once, Telegram!Update
    <2>1. u.bot \in Bots /\ u.id \in Nat
      BY AnUpdate
    <2>2. u.id < server[u.bot]
      BY <1>1, <1>5, <2>1 DEF Telegram!Unconfirmed
    <2> QED BY <1>1, <2>2 DEF Sent
  <1>9. Places'
    <2> SUFFICES ASSUME NEW u \in Telegram!Update \ doubtful
                 PROVE  InOnePlace(u)'
      BY <1>1 DEF Places, Telegram!Update
    <2>1. InOnePlace(u)
      BY <1>2 DEF Places
    <2>2. u \notin UNION flushing'
      BY <1>1
    <2> QED BY <1>1, <1>3, <2>1, <2>2 DEF InOnePlace
  <1>10. Kept'
    BY <1>1, <1>2, <1>5, <1>6, KeptNext
  <1> QED BY <1>7, <1>8, <1>9, <1>10 DEF IngressInv

-----------------------------------------------------------------------------
(* What is promised of the poll loop.                                      *)

\* The invariant where Telegram is what moves.
RemoteInv == subject = "telegram" => IngressInv

\* Nothing was asked for yet.
LEMMA IngressStarts ==
    ASSUME RemoteInit
    PROVE  RemoteInv
  <1> SUFFICES ASSUME subject = "telegram"
               PROVE  IngressInv
    BY DEF RemoteInv
  <1>1. Telegram!Init
    BY DEF RemoteInit
  <1>2. /\ bot \in Bots /\ server = [b \in Bots |-> 1] /\ offset = 0 /\ poller = "off" /\ batch = <<>>
        /\ attempts = Telegram!NoAttempts /\ notified = {} /\ pending = {} /\ flushing = {} /\ taken = {}
        /\ leaving = "no" /\ turns = [restarts |-> 0, changes |-> 0]
        /\ tasks = <<>> /\ ended = {} /\ doubtful = {} /\ lost = {}
    BY <1>1 DEF Telegram!Init
  <1>3. Telegram!InTasks = {}
    BY <1>2 DEF Telegram!InTasks
  <1>4. UNION flushing = {}
    BY <1>2
  <1>5. Telegram!Admitted = {}
    BY <1>2, <1>3, <1>4 DEF Telegram!Admitted
  <1>6. \A u \in Telegram!Update : ~Sent(u)
    <2> SUFFICES ASSUME NEW u \in Telegram!Update
                 PROVE  ~Sent(u)
      OBVIOUS
    <2>1. u.bot \in Bots /\ u.id \in Nat /\ u.id > 0
      BY AnUpdate
    <2> QED BY <1>2, <2>1 DEF Sent
  <1>7. PollTyped
    <2>1. Telegram!NoAttempts \in [Telegram!AllIds -> 0 .. MaxAttempts - 1]
      BY RemoteAssumption DEF Telegram!NoAttempts, Telegram!TelegramAssumption
    <2>2. batch \in Seq(Telegram!Update) /\ tasks \in Seq(SUBSET Telegram!Update)
      BY <1>2
    <2>3. Telegram!TypeOK
      BY <1>2, <2>1, <2>2 DEF Telegram!TypeOK, Telegram!Pollers
    <2> QED BY <1>2, <2>1, <2>2, <2>3 DEF PollTyped
  <1>8. Once
    BY <1>5 DEF Once
  <1>9. Places
    BY <1>2, <1>3, <1>4 DEF Places, InOnePlace
  <1>10. Kept
    BY <1>2, <1>6 DEF Kept
  <1> QED BY <1>7, <1>8, <1>9, <1>10 DEF IngressInv

\* Every step of the loop, and no step of the other clients touches it.
LEMMA IngressStep ==
    ASSUME RemoteInv, [RemoteNext]_allVars
    PROVE  RemoteInv'
  <1> SUFFICES ASSUME subject' = "telegram"
               PROVE  IngressInv'
    BY DEF RemoteInv
  <1>1. subject = "telegram"
    BY DEF RemoteNext, allVars
  <1>2. IngressInv
    BY <1>1 DEF RemoteInv
  <1>3. CASE UNCHANGED telegram
    <2>1. /\ bot' = bot /\ server' = server /\ offset' = offset /\ poller' = poller /\ batch' = batch
          /\ attempts' = attempts /\ notified' = notified /\ pending' = pending /\ flushing' = flushing
          /\ taken' = taken /\ leaving' = leaving /\ turns' = turns /\ tasks' = tasks
          /\ doubtful' = doubtful /\ lost' = lost /\ ended' = ended
      BY <1>3 DEF telegram
    <2>2. \A i \in DOMAIN batch : KeptBefore(i)' <=> KeptBefore(i)
      BY <2>1 DEF KeptBefore, Known, Telegram!Handled, Telegram!Admitted, Telegram!InTasks, Telegram!Update
    <2>3. PollTyped'
      BY <1>2, <2>1 DEF IngressInv, PollTyped, Telegram!TypeOK, Telegram!Update, Telegram!AllIds
    <2>4. Once'
      BY <1>2, <2>1 DEF IngressInv, Once, Sent, Telegram!Admitted, Telegram!InTasks, Telegram!Update
    <2>5. Places'
      BY <1>2, <2>1, PlacesStay DEF IngressInv
    <2>6. Kept'
      BY <1>2, <2>1, <2>2 DEF IngressInv, Kept, Sent, Known, Telegram!Handled, Telegram!Admitted,
                             Telegram!InTasks, Telegram!Update
    <2> QED BY <2>3, <2>4, <2>5, <2>6 DEF IngressInv
  <1>4. CASE Telegram!Next
    <2>1. CASE Telegram!Loop
      BY <1>2, <2>1, PollerMoves, AskingTheServer, Admitting DEF Telegram!Loop
    <2>2. CASE Telegram!TimerFires
      BY <1>2, <2>2, TheTimer
    <2>3. CASE \E files \in flushing : Telegram!Flush(files)
      BY <1>2, <2>3, Flushing
    <2>4. CASE \E b \in Bots : Telegram!ChangeToken(b)
      BY <1>2, <2>4, Changing
    <2>5. CASE Telegram!Restart
      BY <1>2, <2>5, Restarting
    <2> QED BY <1>4, <2>1, <2>2, <2>3, <2>4, <2>5 DEF Telegram!Next
  <1> QED BY <1>1, <1>3, <1>4 DEF RemoteNext, allVars

\* The invariant of the loop holds in every behaviour of the clients.
THEOREM IngressInvariance == RemoteSpec => []RemoteInv
  <1>1. RemoteInit => RemoteInv
    BY IngressStarts
  <1>2. RemoteInv /\ [RemoteNext]_allVars => RemoteInv'
    BY IngressStep
  <1> QED BY <1>1, <1>2, PTL DEF RemoteSpec

\* An update that is in one task only is in no two of them.
LEMMA OneTask ==
    ASSUME NEW u \in Telegram!Update \ doubtful, InOnePlace(u)
    PROVE  Telegram!Cardinality({i \in DOMAIN tasks : u \in tasks[i]}) <= 1
  <1> DEFINE S == {i \in DOMAIN tasks : u \in tasks[i]}
  <1>1. Telegram!Cardinality(S) = Cardinality(S)
    BY DEF Telegram!Cardinality, Cardinality, Telegram!IsFiniteSet, IsFiniteSet
  <1>2. \A i, j \in S : i = j
    BY DEF InOnePlace
  <1> HIDE DEF S
  <1>3. S = {} \/ \E i : S = {i}
    BY <1>2
  <1>4. Cardinality(S) <= 1
    <2>1. CASE S = {}
      BY <2>1, FS_EmptySet
    <2>2. CASE \E i : S = {i}
      <3>1. PICK i : S = {i}
        BY <2>2
      <3>2. Cardinality({i}) = 1
        BY FS_Singleton
      <3> QED BY <3>1, <3>2
    <2> QED BY <1>3, <2>1, <2>2
  <1> QED BY <1>1, <1>4 DEF S

\* An update becomes part of one task, unless the process ended or the token changed
\* before its offset was confirmed.  As long as the token is not changed, what is passed
\* has a task, waits for one or was ended with a diagnostic, or it was among the files
\* that are given up: those in the queue when the process ends, and those taken by a
\* text whose task cannot be created (telegram.py _poll_loop, main.py
\* accept_telegram_update, 2706).
THEOREM UpdatesStay == RemoteSpec => []UpdatesAreKept
  <1>1. RemoteInv => UpdatesAreKept
    <2> SUFFICES ASSUME IngressInv
                 PROVE  Telegram!TypeOK /\ Telegram!OneTaskPerUpdate /\ Telegram!DeferredIsKept
      BY DEF RemoteInv, UpdatesAreKept
    <2>1. Telegram!TypeOK
      BY DEF IngressInv, PollTyped
    <2>2. Telegram!OneTaskPerUpdate
      BY OneTask DEF IngressInv, Places, Telegram!OneTaskPerUpdate
    <2>3. Telegram!DeferredIsKept
      <3>1. turns.changes = 0 \/ turns.changes > 0
        BY DEF IngressInv, PollTyped
      <3> QED BY <3>1 DEF IngressInv, Kept, Known, Sent, Telegram!DeferredIsKept
    <2> QED BY <2>1, <2>2, <2>3
  <1> QED BY <1>1, IngressInvariance, PTL

-----------------------------------------------------------------------------
(* The streamed reply: its inductive invariant.                            *)

\* The first chunks of a text, and what its receiver has of it after some chunks.
Opening(owner, k) == [j \in 1 .. k |-> <<owner, j>>]
Got(owner, k, mode) ==
    IF mode \in {"cut", "grown"} THEN Opening(owner, k)
    ELSE IF mode = "none" \/ k = 0 THEN <<>> ELSE Opening(owner, Pieces)

\* The calls of the answer, those that have begun, and what was received of one.
Tools == 1 .. stream.calls
Begun == {c \in Tools : sent.calls[c] > 0}
PartOf(c, k) == [id |-> Got(c, k, stream.style.ids), args |-> Opening(c, k),
                 sig |-> Got(c, k, stream.style.sigs)]

\* Each call that has begun has one place, in the order of the calls unless they come
\* by their ids.
OwnedBy(own) ==
    /\ own \in [DOMAIN acc.calls -> Begun]
    /\ \A i, j \in DOMAIN acc.calls : own[i] = own[j] => i = j
    /\ \A c \in Begun : \E i \in DOMAIN acc.calls : own[i] = c
    /\ acc.calls = [i \in DOMAIN acc.calls |-> PartOf(own[i], sent.calls[own[i]])]
    /\ stream.style.by # "id" => \A i \in DOMAIN acc.calls : own[i] = i + 1
    /\ stream.style.by = "id" => \E n \in Nat : DOMAIN acc.calls = 0 .. n - 1

Owned == ~Stream!Blocks => \E own \in [DOMAIN acc.calls -> Begun] : OwnedBy(own)

\* A block has the place of its call from its start on.
InBlocks == Stream!Blocks =>
    /\ DOMAIN acc.calls \subseteq Tools /\ Begun \subseteq DOMAIN acc.calls
    /\ acc.calls = [c \in DOMAIN acc.calls |->
                       [id |-> Opening(c, Pieces), args |-> Opening(c, sent.calls[c]), sig |-> <<>>]]

\* Where calls come by turn an earlier one is complete; in an array they grow together.
InTurn ==
    /\ stream.style.by = "turn" => \A c, d \in Tools : d < c /\ sent.calls[c] > 0 => sent.calls[d] = Pieces
    /\ stream.style.by = "array" => \A c \in Tools : sent.calls[c] = sent.calls[1]

\* The types, and the fields of the accumulator.
StreamTyped ==
    /\ Stream!TypeOK
    /\ acc = [calls |-> acc.calls, text |-> acc.text, thought |-> acc.thought, thoughtSig |-> acc.thoughtSig,
              events |-> acc.events, finish |-> acc.finish]
    /\ acc.events \in Nat /\ acc.finish \in BOOLEAN

Texts ==
    /\ acc.text = Opening(0, sent.text) /\ acc.thought = Opening(0, sent.thought)
    /\ acc.thoughtSig = IF Stream!Blocks THEN Opening(0, sent.thought) ELSE <<>>

Finished ==
    /\ acc.finish => Stream!AllSent
    /\ phase = "returned" =>
          reply = [acc EXCEPT !.thought = IF DOMAIN acc.calls = {} THEN <<>> ELSE @]

StreamInv == StreamTyped /\ Owned /\ InBlocks /\ InTurn /\ Texts /\ Finished

-----------------------------------------------------------------------------
(* Sequences of pieces.                                                    *)

\* What of a text was received is a sequence; the next piece makes it longer.
LEMMA Openings ==
    ASSUME NEW c \in Nat, NEW k \in Nat
    PROVE  /\ Opening(c, k) \in Seq(Nat \X Nat) /\ Len(Opening(c, k)) = k
           /\ DOMAIN Opening(c, k) = 1 .. k
           /\ \A j \in 1 .. k : Opening(c, k)[j] = <<c, j>>
           /\ k > 0 => Opening(c, k) # <<>>
           /\ k = 0 => Opening(c, k) = <<>>
  <1>1. Opening(c, k) \in [1 .. k -> Nat \X Nat]
    BY DEF Opening
  <1>2. DOMAIN Opening(c, k) = 1 .. k /\ \A j \in 1 .. k : Opening(c, k)[j] = <<c, j>>
    BY DEF Opening
  <1>3. Opening(c, k) \in Seq(Nat \X Nat) /\ Len(Opening(c, k)) = k
    BY <1>1
  <1> QED BY <1>2, <1>3

\* Sequences are equal that have the same elements.
LEMMA SameSequence ==
    ASSUME NEW S, NEW s \in Seq(S), NEW t \in Seq(S), Len(s) = Len(t),
           \A j \in 1 .. Len(s) : s[j] = t[j]
    PROVE  s = t
  OBVIOUS

\* The next piece makes the received part of a text longer by one.
LEMMA NextPiece ==
    ASSUME NEW c \in Nat, NEW k \in Nat
    PROVE  /\ Opening(c, k) \o <<<<c, k + 1>>>> = Opening(c, k + 1)
           /\ Append(Opening(c, k), <<c, k + 1>>) = Opening(c, k + 1)
  <1> DEFINE s == Opening(c, k)
             t == Opening(c, k + 1)
             x == <<c, k + 1>>
  <1>1. s \in Seq(Nat \X Nat) /\ Len(s) = k /\ \A j \in 1 .. k : s[j] = <<c, j>>
    BY Openings
  <1>2. t \in Seq(Nat \X Nat) /\ Len(t) = k + 1 /\ \A j \in 1 .. k + 1 : t[j] = <<c, j>>
    <2>1. k + 1 \in Nat
      OBVIOUS
    <2> QED BY <2>1, Openings
  <1>3. x \in Nat \X Nat /\ t[k + 1] = x
    BY <1>2
  <1>4. \A j \in 1 .. k : s[j] = t[j]
    <2>1. \A j \in 1 .. k : j \in 1 .. k + 1
      OBVIOUS
    <2> QED BY <1>1, <1>2, <2>1
  <1> HIDE DEF s, t, x
  <1>5. /\ s \o <<x>> \in Seq(Nat \X Nat) /\ Len(s \o <<x>>) = k + 1
        /\ \A j \in 1 .. k + 1 : (s \o <<x>>)[j] = t[j]
    BY <1>1, <1>3, <1>4, SMTT(40)
  <1>6. /\ Append(s, x) \in Seq(Nat \X Nat) /\ Len(Append(s, x)) = k + 1
        /\ \A j \in 1 .. k + 1 : Append(s, x)[j] = t[j]
    BY <1>1, <1>3, <1>4
  <1>7. s \o <<x>> = t /\ Append(s, x) = t
    BY <1>2, <1>5, <1>6, SameSequence
  <1> QED BY <1>7 DEF s, t, x

\* Nothing is added to nothing.
LEMMA NothingAdded ==
    ASSUME NEW S, NEW s \in Seq(S)
    PROVE  s \o <<>> = s /\ <<>> \o s = s
  <1>1. <<>> \in Seq(S) /\ Len(<<>>) = 0
    OBVIOUS
  <1>2. /\ s \o <<>> \in Seq(S) /\ Len(s \o <<>>) = Len(s)
        /\ \A j \in 1 .. Len(s) : (s \o <<>>)[j] = s[j]
    BY <1>1
  <1>3. /\ <<>> \o s \in Seq(S) /\ Len(<<>> \o s) = Len(s)
        /\ \A j \in 1 .. Len(s) : (<<>> \o s)[j] = s[j]
    BY <1>1
  <1> QED BY <1>2, <1>3, SameSequence

\* Which chunk of a text is a prefix of the next.
LEMMA Prefixes ==
    ASSUME NEW c \in Nat, NEW k \in Nat
    PROVE  /\ Stream!IsPrefix(<<>>, Opening(c, k))
           /\ Stream!IsPrefix(Opening(c, k), Opening(c, k))
           /\ Stream!IsPrefix(Opening(c, k), Opening(c, k + 1))
           /\ Stream!IsPrefix(<<>>, <<<<c, k + 1>>>>)
           /\ k > 0 => ~Stream!IsPrefix(Opening(c, k), <<<<c, k + 1>>>>)
  <1> DEFINE s == Opening(c, k)
             t == Opening(c, k + 1)
             x == <<c, k + 1>>
  <1>1. s \in Seq(Nat \X Nat) /\ Len(s) = k /\ \A j \in 1 .. k : s[j] = <<c, j>>
    BY Openings
  <1>2. t \in Seq(Nat \X Nat) /\ Len(t) = k + 1 /\ \A j \in 1 .. k : t[j] = s[j]
    <2>1. k + 1 \in Nat /\ \A j \in 1 .. k : j \in 1 .. k + 1
      OBVIOUS
    <2>2. t \in Seq(Nat \X Nat) /\ Len(t) = k + 1 /\ \A j \in 1 .. k + 1 : t[j] = <<c, j>>
      BY <2>1, Openings
    <2> QED BY <1>1, <2>1, <2>2
  <1>3. x \in Nat \X Nat /\ (k > 0 => s[1] # x)
    BY <1>1
  <1> HIDE DEF s, t, x
  <1>4. <<x>> \in Seq(Nat \X Nat) /\ Len(<<x>>) = 1 /\ <<x>>[1] = x
    BY <1>3
  <1>5. SubSeq(s, 1, k) \in Seq(Nat \X Nat) /\ Len(SubSeq(s, 1, k)) = k /\ \A j \in 1 .. k : SubSeq(s, 1, k)[j] = s[j]
    BY <1>1
  <1>6. SubSeq(t, 1, k) \in Seq(Nat \X Nat) /\ Len(SubSeq(t, 1, k)) = k /\ \A j \in 1 .. k : SubSeq(t, 1, k)[j] = s[j]
    BY <1>1, <1>2
  <1>7. SubSeq(s, 1, k) = SubSeq(t, 1, k)
    BY <1>5, <1>6, SameSequence
  <1>8. SubSeq(<<>>, 1, 0) = <<>> /\ SubSeq(s, 1, 0) = <<>> /\ SubSeq(<<x>>, 1, 0) = <<>> /\ Len(<<>>) = 0
    BY <1>1, <1>4
  <1>9. Stream!IsPrefix(<<>>, s) /\ Stream!IsPrefix(<<>>, <<x>>)
    BY <1>1, <1>4, <1>8 DEF Stream!IsPrefix
  <1>10. Stream!IsPrefix(s, s) /\ Stream!IsPrefix(s, t)
    BY <1>1, <1>2, <1>7 DEF Stream!IsPrefix
  <1>11. ASSUME k > 0, Stream!IsPrefix(s, <<x>>)
         PROVE  FALSE
    <2>1. k = 1 /\ SubSeq(s, 1, 1) = SubSeq(<<x>>, 1, 1)
      BY <1>1, <1>4, <1>11 DEF Stream!IsPrefix
    <2>2. SubSeq(s, 1, 1)[1] = s[1] /\ SubSeq(<<x>>, 1, 1)[1] = x
      BY <1>1, <1>4, <2>1
    <2> QED BY <1>3, <1>11, <2>1, <2>2
  <1> QED BY <1>9, <1>10, <1>11 DEF s, t, x

\* What a style says of ids and signatures.
LEMMA AStyle ==
    ASSUME StreamTyped
    PROVE  /\ stream.style.by \in {"index", "array", "id", "turn", "block"}
           /\ stream.style.ids \in {"cut", "always", "once"}
           /\ stream.style.sigs \in {"none", "cut", "grown", "always"}
           /\ stream.style.by = "id" => stream.style.ids = "always"
           /\ stream.style.by = "turn" => stream.style.ids = "once"
           /\ stream.style.by = "array" => stream.style.ids \in {"always", "once"}
           /\ stream.calls \in 0 .. MaxTools /\ Tools \subseteq Stream!Calls
           /\ \A c \in Tools : c \in Nat /\ c >= 1 /\ sent.calls[c] \in Nat /\ sent.calls[c] <= Pieces
           /\ MaxTools \in Nat /\ Pieces \in Nat /\ Pieces > 0
  <1>1. MaxTools \in Nat /\ Pieces \in Nat /\ Pieces > 0
    BY RemoteAssumption DEF Stream!StreamAssumption
  <1>2. stream.style \in Stream!Styles /\ stream.calls \in 0 .. MaxTools
    BY DEF StreamTyped, Stream!TypeOK
  <1>3. Tools \subseteq Stream!Calls /\ \A c \in Tools : c \in Nat /\ c >= 1
    BY <1>1, <1>2 DEF Tools, Stream!Calls
  <1>4. sent.calls \in [Stream!Calls -> 0 .. Pieces]
    BY DEF StreamTyped, Stream!TypeOK
  <1>5. \A c \in Tools : sent.calls[c] \in Nat /\ sent.calls[c] <= Pieces
    BY <1>1, <1>3, <1>4
  <1>6. /\ stream.style.by \in {"index", "array", "id", "turn", "block"}
        /\ stream.style.ids \in {"cut", "always", "once"}
        /\ stream.style.sigs \in {"none", "cut", "grown", "always"}
        /\ stream.style.by = "id" => stream.style.ids = "always"
        /\ stream.style.by = "turn" => stream.style.ids = "once"
        /\ stream.style.by = "array" => stream.style.ids \in {"always", "once"}
    BY <1>2 DEF Stream!Styles
  <1> QED BY <1>1, <1>2, <1>3, <1>5, <1>6

-----------------------------------------------------------------------------
(* What one more chunk makes of a call.                                    *)

\* An id, cut, repeated or said once.
LEMMA Joining ==
    ASSUME NEW c \in Nat, NEW k \in Nat, NEW mode \in {"cut", "always", "once"}, Pieces \in Nat, Pieces > 0
    PROVE  Stream!Joined(Got(c, k, mode), Stream!Cut(c, k + 1, mode)) = Got(c, k + 1, mode)
  <1> DEFINE W == Opening(c, Pieces)
             s == Opening(c, k)
             x == <<c, k + 1>>
  <1>1. W \in Seq(Nat \X Nat) /\ W # <<>> /\ Stream!Whole(c) = W
    BY Openings DEF Stream!Whole, Opening
  <1>2. s \in Seq(Nat \X Nat) /\ Len(s) = k /\ (\A j \in 1 .. k : s[j] = <<c, j>>) /\ (k = 0 => s = <<>>)
    BY Openings
  <1>3. W \o <<>> = W /\ <<>> \o W = W
    BY <1>1, NothingAdded
  <1>4. s \o <<x>> = Opening(c, k + 1)
    BY NextPiece
  <1>5. <<x>> # s
    <2> SUFFICES ASSUME <<x>> = s
                 PROVE  FALSE
      OBVIOUS
    <2>1. k = 1 /\ s[1] = x
      BY <1>2
    <2> QED BY <1>2, <2>1
  <1>6. k + 1 # 0 /\ (k + 1 = 1 <=> k = 0)
    OBVIOUS
  <1> HIDE DEF W, s, x
  <1>7. CASE mode = "cut"
    <2>1. Stream!Cut(c, k + 1, mode) = <<x>>
      BY <1>7 DEF Stream!Cut, x
    <2>2. Got(c, k, mode) = s /\ Got(c, k + 1, mode) = Opening(c, k + 1)
      BY <1>7 DEF Got, s
    <2> QED BY <1>4, <1>5, <2>1, <2>2 DEF Stream!Joined
  <1>8. CASE mode = "always"
    <2>1. Stream!Cut(c, k + 1, mode) = W
      BY <1>1, <1>8 DEF Stream!Cut
    <2>2. Got(c, k + 1, mode) = W /\ Got(c, k, mode) = IF k = 0 THEN <<>> ELSE W
      BY <1>6, <1>8 DEF Got, W
    <2> QED BY <1>1, <1>3, <2>1, <2>2 DEF Stream!Joined
  <1>9. CASE mode = "once"
    <2>1. Stream!Cut(c, k + 1, mode) = IF k = 0 THEN W ELSE <<>>
      BY <1>1, <1>6, <1>9 DEF Stream!Cut
    <2>2. Got(c, k + 1, mode) = W /\ Got(c, k, mode) = IF k = 0 THEN <<>> ELSE W
      BY <1>6, <1>9 DEF Got, W
    <2> QED BY <1>1, <1>3, <2>1, <2>2 DEF Stream!Joined
  <1> QED BY <1>7, <1>8, <1>9

\* A signature, cut, as a whole so far or as a whole.
LEMMA Signing ==
    ASSUME NEW c \in Nat, NEW k \in Nat, NEW mode \in {"none", "cut", "grown", "always"},
           Pieces \in Nat, Pieces > 0
    PROVE  (IF Stream!Cut(c, k + 1, mode) = <<>> THEN Got(c, k, mode)
            ELSE Stream!Signed(Got(c, k, mode), Stream!Cut(c, k + 1, mode))) = Got(c, k + 1, mode)
  <1> DEFINE W == Opening(c, Pieces)
             s == Opening(c, k)
             t == Opening(c, k + 1)
             x == <<c, k + 1>>
  <1>1. W \in Seq(Nat \X Nat) /\ W # <<>> /\ Stream!Whole(c) = W
    BY Openings DEF Stream!Whole, Opening
  <1>2. s \in Seq(Nat \X Nat) /\ (k = 0 => s = <<>>)
    BY Openings
  <1>3. k + 1 \in Nat /\ k + 1 > 0 /\ k + 1 # 0
    OBVIOUS
  <1>4. t # <<>> /\ <<x>> # <<>>
    BY <1>3, Openings
  <1>5. s \o <<x>> = t
    BY NextPiece
  <1>6. k = 0 => <<x>> = t
    <2> SUFFICES ASSUME k = 0
                 PROVE  <<x>> = t
      OBVIOUS
    <2>1. s = <<>> /\ x \in Nat \X Nat
      BY <1>2
    <2>2. <<>> \o <<x>> = <<x>>
      BY <2>1, NothingAdded
    <2> QED BY <1>5, <2>1, <2>2
  <1>7. /\ Stream!IsPrefix(<<>>, W) /\ Stream!IsPrefix(W, W) /\ Stream!IsPrefix(s, t)
        /\ Stream!IsPrefix(<<>>, <<x>>) /\ (k > 0 => ~Stream!IsPrefix(s, <<x>>))
    BY Prefixes
  <1> HIDE DEF W, s, t, x
  <1>8. CASE mode = "none"
    BY <1>8 DEF Stream!Cut, Got
  <1>9. CASE mode = "cut"
    <2>1. Stream!Cut(c, k + 1, mode) = <<x>>
      BY <1>9 DEF Stream!Cut, x
    <2>2. Got(c, k, mode) = s /\ Got(c, k + 1, mode) = t
      BY <1>9 DEF Got, s, t
    <2>3. CASE k = 0
      BY <1>2, <1>4, <1>6, <1>7, <2>1, <2>2, <2>3 DEF Stream!Signed
    <2>4. CASE k > 0
      BY <1>4, <1>5, <1>7, <2>1, <2>2, <2>4 DEF Stream!Signed
    <2> QED BY <2>3, <2>4
  <1>10. CASE mode = "grown"
    <2>1. Stream!Cut(c, k + 1, mode) = t
      BY <1>10 DEF Stream!Cut, t, Opening
    <2>2. Got(c, k, mode) = s /\ Got(c, k + 1, mode) = t
      BY <1>10 DEF Got, s, t
    <2> QED BY <1>4, <1>7, <2>1, <2>2 DEF Stream!Signed
  <1>11. CASE mode = "always"
    <2>1. Stream!Cut(c, k + 1, mode) = W
      BY <1>1, <1>11 DEF Stream!Cut
    <2>2. Got(c, k + 1, mode) = W /\ Got(c, k, mode) = IF k = 0 THEN <<>> ELSE W
      BY <1>3, <1>11 DEF Got, W
    <2> QED BY <1>1, <1>7, <2>1, <2>2 DEF Stream!Signed
  <1> QED BY <1>8, <1>9, <1>10, <1>11

\* A call before its first chunk, and with one more chunk.
LEMMA OneMore ==
    ASSUME StreamTyped, NEW c \in Tools, NEW k \in Nat
    PROVE  /\ PartOf(c, 0) = Stream!NoCall
           /\ k = sent.calls[c] => Stream!Merged(PartOf(c, k), Stream!Chunk(c, sent.calls[c] + 1)) = PartOf(c, k + 1)
  <1>1. c \in Nat /\ Pieces \in Nat /\ Pieces > 0
    BY AStyle
  <1>2. stream.style.ids \in {"cut", "always", "once"} /\ stream.style.sigs \in {"none", "cut", "grown", "always"}
    BY AStyle
  <1>3. Opening(c, 0) = <<>>
    BY <1>1, Openings
  <1>4. PartOf(c, 0) = Stream!NoCall
    BY <1>2, <1>3 DEF PartOf, Got, Stream!NoCall
  <1>5. ASSUME k = sent.calls[c]
        PROVE  Stream!Merged(PartOf(c, k), Stream!Chunk(c, sent.calls[c] + 1)) = PartOf(c, k + 1)
    <2> DEFINE old == PartOf(c, k)
               new == Stream!Chunk(c, k + 1)
    <2>1. /\ old.id = Got(c, k, stream.style.ids) /\ old.args = Opening(c, k)
          /\ old.sig = Got(c, k, stream.style.sigs)
      BY DEF PartOf
    <2>2. /\ new.id = Stream!Cut(c, k + 1, stream.style.ids) /\ new.args = <<<<c, k + 1>>>>
          /\ new.sig = Stream!Cut(c, k + 1, stream.style.sigs)
      BY DEF Stream!Chunk
    <2>3. Stream!Joined(old.id, new.id) = Got(c, k + 1, stream.style.ids)
      BY <1>1, <1>2, <2>1, <2>2, Joining
    <2>4. old.args \o new.args = Opening(c, k + 1)
      BY <1>1, <2>1, <2>2, NextPiece
    <2>5. (IF new.sig = <<>> THEN old.sig ELSE Stream!Signed(old.sig, new.sig)) = Got(c, k + 1, stream.style.sigs)
      <3> DEFINE mode == stream.style.sigs
      <3>1. (IF Stream!Cut(c, k + 1, mode) = <<>> THEN Got(c, k, mode)
             ELSE Stream!Signed(Got(c, k, mode), Stream!Cut(c, k + 1, mode))) = Got(c, k + 1, mode)
        BY <1>1, <1>2, Signing
      <3> HIDE DEF old, new, mode
      <3>2. old.sig = Got(c, k, mode) /\ new.sig = Stream!Cut(c, k + 1, mode)
        BY <2>1, <2>2 DEF mode
      <3>3. (IF new.sig = <<>> THEN old.sig ELSE Stream!Signed(old.sig, new.sig)) = Got(c, k + 1, mode)
        BY <3>1, <3>2
      <3> QED BY <3>3 DEF mode
    <2> HIDE DEF old, new
    <2>6. Stream!Merged(old, new) = PartOf(c, k + 1)
      BY <2>3, <2>4, <2>5 DEF Stream!Merged, PartOf
    <2> QED BY <1>5, <2>6 DEF old, new
  <1> QED BY <1>4, <1>5

-----------------------------------------------------------------------------
(* Where the chunks of an event go.                                        *)

\* The place of the only call of an event, and the calls after it.
SolePlace(x) == Stream!Place(acc.calls, x, 0, FALSE)
FedAt(x, p) == [i \in DOMAIN acc.calls \cup {p} |->
                   IF i = p THEN Stream!Merged(Stream!At(acc.calls, p), x) ELSE acc.calls[i]]

\* The only call of an event changes what is in its place.
LEMMA FedOne ==
    ASSUME NEW x, NEW p, p = SolePlace(x)
    PROVE  Stream!Fed(<<x>>) = FedAt(x, p)
  <1> DEFINE s == <<x>>
             at == Stream!PlacesOf(s)
  <1>1. DOMAIN s = {1} /\ s[1] = x /\ ~(Len(s) > 1) /\ 1 - 1 = 0
    OBVIOUS
  <1> HIDE DEF s
  <1>2. at = [n \in {1} |-> Stream!Place(acc.calls, s[n], n - 1, Len(s) > 1)]
    BY <1>1 DEF Stream!PlacesOf
  <1>3. (Len(s) > 1) = FALSE
    BY <1>1
  <1>4. DOMAIN at = {1} /\ at[1] = p
    BY <1>1, <1>2, <1>3 DEF SolePlace
  <1>5. Stream!Fed(s) =
            [i \in DOMAIN acc.calls \cup Stream!Range(at) |->
                IF i \in Stream!Range(at)
                THEN Stream!Merged(Stream!At(acc.calls, i), s[CHOOSE n \in DOMAIN s : at[n] = i])
                ELSE acc.calls[i]]
    BY DEF Stream!Fed
  <1> HIDE DEF at
  <1>6. Stream!Range(at) = {p}
    <2>1. \A y : y \in Stream!Range(at) <=> \E n \in DOMAIN at : y = at[n]
      BY DEF Stream!Range
    <2>2. \A y : y \in Stream!Range(at) <=> y = p
      BY <1>4, <2>1
    <2> QED BY <2>2
  <1>7. s[CHOOSE n \in DOMAIN s : at[n] = p] = x
    <2>1. (CHOOSE n \in DOMAIN s : at[n] = p) = 1
      BY <1>1, <1>4
    <2> QED BY <1>1, <2>1
  <1>8. Stream!Fed(s) = [i \in DOMAIN acc.calls \cup {p} |->
                            IF i = p THEN Stream!Merged(Stream!At(acc.calls, p), x) ELSE acc.calls[i]]
    <2> DEFINE f(i) == IF i \in Stream!Range(at)
                       THEN Stream!Merged(Stream!At(acc.calls, i), s[CHOOSE n \in DOMAIN s : at[n] = i])
                       ELSE acc.calls[i]
               g(i) == IF i = p THEN Stream!Merged(Stream!At(acc.calls, p), x) ELSE acc.calls[i]
    <2>1. \A i \in DOMAIN acc.calls \cup {p} : f(i) = g(i)
      <3> SUFFICES ASSUME NEW i \in DOMAIN acc.calls \cup {p}
                   PROVE  f(i) = g(i)
        OBVIOUS
      <3>1. CASE i = p
        <4>1. f(p) = Stream!Merged(Stream!At(acc.calls, p), s[CHOOSE n \in DOMAIN s : at[n] = p])
          BY <1>6
        <4>2. g(p) = Stream!Merged(Stream!At(acc.calls, p), x)
          OBVIOUS
        <4>3. f(p) = g(p)
          <5> HIDE DEF f, g
          <5> QED BY <1>7, <4>1, <4>2
        <4> HIDE DEF f, g
        <4> QED BY <3>1, <4>3
      <3>2. CASE i # p
        BY <1>6, <3>2
      <3> QED BY <3>1, <3>2
    <2>2. Stream!Fed(s) = [i \in DOMAIN acc.calls \cup {p} |-> f(i)]
      BY <1>5, <1>6
    <2> HIDE DEF f, g
    <2>3. Stream!Fed(s) = [i \in DOMAIN acc.calls \cup {p} |-> g(i)]
      BY <2>1, <2>2
    <2> QED BY <2>3 DEF g
  <1> QED BY <1>8 DEF s, FedAt

\* A call without an id of its own continues the latest one.
LEMMA TheLatest ==
    ASSUME NEW n \in Nat, n > 0
    PROVE  Stream!Max(0 .. n - 1) = n - 1
  <1>1. n - 1 \in 0 .. n - 1 /\ \A y \in 0 .. n - 1 : n - 1 >= y
    OBVIOUS
  <1>2. \A x \in 0 .. n - 1 : (\A y \in 0 .. n - 1 : x >= y) => x = n - 1
    BY <1>1
  <1> QED BY <1>1, <1>2 DEF Stream!Max

\* A new place is behind the ones there are.
LEMMA TheNextPlace ==
    ASSUME NEW n \in Nat
    PROVE  Stream!Cardinality(0 .. n - 1) = n
  <1>1. Stream!Cardinality(0 .. n - 1) = Cardinality(0 .. n - 1)
    BY DEF Stream!Cardinality, Cardinality, Stream!IsFiniteSet, IsFiniteSet
  <1>2. 0 \in Int /\ n - 1 \in Int /\ (IF 0 > n - 1 THEN 0 ELSE (n - 1) - 0 + 1) = n
    OBVIOUS
  <1> QED BY <1>1, <1>2, FS_Interval

\* The place of a single call: its own, or a new one.
LEMMA ThePlace ==
    ASSUME StreamTyped, InTurn, NEW own, OwnedBy(own), stream.style.by \in {"index", "id", "turn"},
           NEW c \in Tools, sent.calls[c] < Pieces, NEW k, k = sent.calls[c] + 1,
           stream.style.by = "turn" => \A d \in 1 .. (c - 1) : ~Stream!Pending(d),
           NEW p, p = SolePlace(Stream!Chunk(c, k))
    PROVE  /\ \/ p \in DOMAIN acc.calls /\ own[p] = c
              \/ p \notin DOMAIN acc.calls /\ c \notin Begun
           /\ p \in Nat /\ (stream.style.by # "id" => p = c - 1)
           /\ stream.style.by = "id" => \E n \in Nat : DOMAIN acc.calls \cup {p} = 0 .. n - 1
  <1> DEFINE x == Stream!Chunk(c, k)
             D == DOMAIN acc.calls
             Goal == /\ \/ p \in D /\ own[p] = c
                        \/ p \notin D /\ c \notin Begun
                     /\ p \in Nat /\ (stream.style.by # "id" => p = c - 1)
                     /\ stream.style.by = "id" => \E n \in Nat : D \cup {p} = 0 .. n - 1
  <1>1. /\ c \in Nat /\ c >= 1 /\ Pieces \in Nat /\ Pieces > 0 /\ k \in Nat /\ k > 0 /\ sent.calls[c] \in Nat
        /\ stream.style.by = "id" => stream.style.ids = "always"
        /\ stream.style.by = "turn" => stream.style.ids = "once"
        /\ \A d \in Tools : d \in Nat /\ d >= 1 /\ sent.calls[d] \in Nat /\ sent.calls[d] <= Pieces
        /\ stream.calls \in Nat
    BY AStyle
  <1>2. /\ own \in [D -> Begun]
        /\ \A i, j \in D : own[i] = own[j] => i = j
        /\ \A d \in Begun : \E i \in D : own[i] = d
        /\ acc.calls = [i \in D |-> PartOf(own[i], sent.calls[own[i]])]
        /\ stream.style.by # "id" => \A i \in D : own[i] = i + 1
        /\ stream.style.by = "id" => \E n \in Nat : D = 0 .. n - 1
    BY DEF OwnedBy
  <1>3. D \subseteq Nat
    BY DEF StreamTyped, Stream!TypeOK
  <1>4. x.index = (IF stream.style.by = "index" THEN {c - 1} ELSE {}) /\ x.id = Stream!Cut(c, k, stream.style.ids)
    BY DEF Stream!Chunk
  <1>5. c \in Begun <=> sent.calls[c] > 0
    BY DEF Begun
  <1>6. Begun \subseteq Tools
    BY DEF Begun
  <1>7. p = Stream!Place(acc.calls, x, 0, FALSE)
    BY DEF SolePlace
  <1>12. \A i \in D : own[i] \in Begun /\ own[i] \in Tools /\ own[i] \in Nat
    BY <1>1, <1>2, <1>6
  <1>13. \A d \in Begun : sent.calls[d] # 0
    BY <1>1 DEF Begun
  <1>14. (sent.calls[c] = 0 \/ sent.calls[c] > 0) /\ c - 1 \in Nat
    BY <1>1
  <1>15. ASSUME stream.style.ids \in {"always", "once"}, NEW i \in D
         PROVE  acc.calls[i].id = Opening(own[i], Pieces) /\ Opening(own[i], Pieces)[1] = <<own[i], 1>>
    <2>1. acc.calls[i] = PartOf(own[i], sent.calls[own[i]])
      BY <1>2
    <2>2. acc.calls[i].id = Got(own[i], sent.calls[own[i]], stream.style.ids)
      BY <2>1 DEF PartOf
    <2>3. sent.calls[own[i]] # 0
      BY <1>12, <1>13
    <2>4. own[i] \in Nat
      BY <1>12
    <2>5. Opening(own[i], Pieces)[1] = <<own[i], 1>>
      <3>1. Pieces \in Nat /\ 1 \in 1 .. Pieces
        BY <1>1
      <3>2. \A j \in 1 .. Pieces : Opening(own[i], Pieces)[j] = <<own[i], j>>
        BY <2>4, <3>1, Openings
      <3> QED BY <3>1, <3>2
    <2>6. acc.calls[i].id = Opening(own[i], Pieces)
      <3>1. \A m \in {"always", "once"} : \A n : n # 0 => Got(own[i], n, m) = Opening(own[i], Pieces)
        BY DEF Got
      <3> QED BY <1>15, <2>2, <2>3, <3>1
    <2> QED BY <2>5, <2>6
  <1>16. Opening(c, Pieces)[1] = <<c, 1>> /\ Opening(c, Pieces) # <<>>
    <2>1. Pieces \in Nat /\ 1 \in 1 .. Pieces /\ c \in Nat /\ Pieces > 0
      BY <1>1
    <2>2. /\ \A j \in 1 .. Pieces : Opening(c, Pieces)[j] = <<c, j>>
          /\ Pieces > 0 => Opening(c, Pieces) # <<>>
      BY <2>1, Openings
    <2> QED BY <2>1, <2>2
  <1>17. ASSUME stream.style.ids \in {"always", "once"}, NEW i \in D, acc.calls[i].id = Opening(c, Pieces)
         PROVE  own[i] = c
    BY <1>15, <1>16, <1>17
  <1> HIDE DEF x, D, Goal
  <1>8. stream.style.by # "id" => /\ \A i \in D : i = own[i] - 1
                                  /\ c \in Begun <=> c - 1 \in D
    BY <1>1, <1>2, <1>3, <1>6
  <1>9. ASSUME stream.style.by = "index"
        PROVE  Goal
    <2>1. (CHOOSE i \in {c - 1} : TRUE) = c - 1
      OBVIOUS
    <2>2. x.index = {c - 1} /\ x.index # {}
      BY <1>4, <1>9
    <2>3. p = c - 1
      BY <1>7, <2>1, <2>2 DEF Stream!Place
    <2>4. CASE c \in Begun
      BY <1>2, <1>8, <1>9, <1>14, <2>3, <2>4 DEF Goal
    <2>5. CASE c \notin Begun
      BY <1>8, <1>9, <1>14, <2>3, <2>5 DEF Goal
    <2> QED BY <2>4, <2>5
  <1>10. ASSUME stream.style.by = "id"
         PROVE  Goal
    <2>1. x.index = {} /\ x.id = Opening(c, Pieces) /\ x.id # <<>>
      <3>1. x.index = {} /\ x.id = Stream!Cut(c, k, "always")
        BY <1>1, <1>4, <1>10
      <3>2. Stream!Cut(c, k, "always") = Opening(c, Pieces)
        BY DEF Stream!Cut, Stream!Whole, Opening
      <3> QED BY <1>16, <3>1, <3>2
    <2>2. p = IF Stream!Known(acc.calls, x) # {} THEN CHOOSE i \in Stream!Known(acc.calls, x) : TRUE
              ELSE Stream!Cardinality(D)
      BY <1>7, <2>1 DEF Stream!Place, D
    <2>3. \A i \in D : i \in Stream!Known(acc.calls, x) <=> own[i] = c
      <3> SUFFICES ASSUME NEW i \in D
                   PROVE  acc.calls[i].id = x.id <=> own[i] = c
        BY DEF Stream!Known, D
      <3> QED BY <1>1, <1>10, <1>15, <1>17, <2>1
    <2>4. Stream!Known(acc.calls, x) \subseteq D
      BY DEF Stream!Known, D
    <2>5. PICK n \in Nat : D = 0 .. n - 1
      BY <1>2, <1>10
    <2>6. CASE c \in Begun
      <3>1. Stream!Known(acc.calls, x) # {}
        BY <1>2, <2>3, <2>6
      <3>2. p \in D /\ own[p] = c
        BY <2>2, <2>3, <2>4, <3>1
      <3>3. D \cup {p} = 0 .. n - 1
        BY <2>5, <3>2
      <3>4. p \in Nat
        BY <1>3, <3>2
      <3> QED BY <1>10, <2>5, <3>2, <3>3, <3>4 DEF Goal
    <2>7. CASE c \notin Begun
      <3>1. Stream!Known(acc.calls, x) = {}
        BY <1>2, <2>3, <2>4, <2>7
      <3>2. p = n
        <4>1. Stream!Cardinality(D) = n
          BY <2>5, TheNextPlace
        <4>2. p = Stream!Cardinality(D)
          BY <2>2, <3>1
        <4> QED BY <4>1, <4>2
      <3>3. p \notin D /\ p \in Nat /\ n + 1 \in Nat
        <4>1. n \notin 0 .. n - 1 /\ n + 1 \in Nat
          OBVIOUS
        <4> QED BY <2>5, <3>2, <4>1
      <3>4. (0 .. n - 1) \cup {n} = 0 .. (n + 1) - 1
        OBVIOUS
      <3>5. D \cup {p} = 0 .. (n + 1) - 1
        BY <2>5, <3>2, <3>4
      <3> QED BY <1>10, <2>7, <3>3, <3>5 DEF Goal
    <2> QED BY <2>6, <2>7
  <1>11. ASSUME stream.style.by = "turn"
         PROVE  Goal
    <2>1. x.index = {} /\ (sent.calls[c] = 0 => x.id = Opening(c, Pieces)) /\ (sent.calls[c] # 0 => x.id = <<>>)
      <3>1. x.index = {} /\ x.id = Stream!Cut(c, k, "once") /\ (k = 1 <=> sent.calls[c] = 0)
        BY <1>1, <1>4, <1>11
      <3>2. Stream!Cut(c, k, "once") = IF k = 1 THEN Opening(c, Pieces) ELSE <<>>
        BY DEF Stream!Cut, Stream!Whole, Opening
      <3> QED BY <3>1, <3>2
    <2>2. \A d \in Tools : d < c => sent.calls[d] = Pieces
      <3> SUFFICES ASSUME NEW d \in Tools, d < c
                   PROVE  sent.calls[d] = Pieces
        OBVIOUS
      <3>1. d \in 1 .. (c - 1) /\ d <= stream.calls
        BY <1>1 DEF Tools
      <3> QED BY <1>1, <1>11, <3>1 DEF Stream!Pending
    <2>3. \A d \in Tools : d > c => sent.calls[d] = 0
      <3> SUFFICES ASSUME NEW d \in Tools, d > c
                   PROVE  sent.calls[d] = 0
        OBVIOUS
      <3>1. sent.calls[d] > 0 => sent.calls[c] = Pieces
        BY <1>11 DEF InTurn
      <3> QED BY <1>1, <3>1
    <2>4. \A d \in Tools : d \in Begun <=> (d < c \/ (d = c /\ sent.calls[c] > 0))
      BY <1>1, <2>2, <2>3 DEF Begun
    <2>5. \A i \in Nat : i \in D <=> i + 1 \in Begun
      BY <1>1, <1>2, <1>3, <1>6, <1>11
    <2>6. CASE sent.calls[c] = 0
      <3>1. D = 0 .. (c - 1) - 1
        <4>1. \A i \in Nat : i \in D <=> i < c - 1
          <5> SUFFICES ASSUME NEW i \in Nat
                       PROVE  i \in D <=> i < c - 1
            OBVIOUS
          <5>1. i + 1 \in Begun => i < c - 1
            BY <1>1, <1>6, <2>4, <2>6
          <5>2. i < c - 1 => i + 1 \in Tools /\ i + 1 < c
            BY <1>1 DEF Tools
          <5> QED BY <2>4, <2>5, <5>1, <5>2
        <4>2. \A i \in Nat : i < c - 1 <=> i \in 0 .. (c - 1) - 1
          BY <1>1
        <4>3. 0 .. (c - 1) - 1 \subseteq Nat
          BY <1>1
        <4> HIDE DEF D
        <4> QED BY <1>3, <4>1, <4>2, <4>3
      <3>2. Stream!Known(acc.calls, x) = {}
        <4> SUFFICES ASSUME NEW i \in D, acc.calls[i].id = x.id
                     PROVE  FALSE
          BY DEF Stream!Known, D
        <4>1. own[i] = c
          BY <1>1, <1>11, <1>17, <2>1, <2>6
        <4> QED BY <1>12, <1>13, <2>6, <4>1
      <3>3. x.id # <<>>
        BY <1>16, <2>1, <2>6
      <3>4. p = Stream!Cardinality(D)
        BY <1>7, <2>1, <3>2, <3>3 DEF Stream!Place, D
      <3>5. c - 1 \in Nat
        BY <1>1
      <3>6. p = c - 1
        BY <3>1, <3>4, <3>5, TheNextPlace
      <3>7. c \notin Begun
        BY <1>5, <2>6
      <3>8. p \notin D
        BY <1>8, <1>11, <3>6, <3>7
      <3> QED BY <1>11, <3>5, <3>6, <3>7, <3>8 DEF Goal
    <2>7. CASE sent.calls[c] > 0
      <3>1. D = 0 .. c - 1
        <4>1. \A i \in Nat : i \in D <=> i < c
          <5> SUFFICES ASSUME NEW i \in Nat
                       PROVE  i \in D <=> i < c
            OBVIOUS
          <5>1. i + 1 \in Begun => i < c
            BY <1>1, <1>6, <2>4
          <5>2. i < c => i + 1 \in Tools /\ (i + 1 < c \/ i + 1 = c)
            BY <1>1 DEF Tools
          <5> QED BY <2>4, <2>5, <2>7, <5>1, <5>2
        <4>2. \A i \in Nat : i < c <=> i \in 0 .. c - 1
          BY <1>1
        <4>3. 0 .. c - 1 \subseteq Nat
          BY <1>1
        <4> QED BY <1>3, <4>1, <4>2, <4>3
      <3>2. x.id = <<>>
        <4>1. sent.calls[c] # 0
          BY <1>1, <2>7
        <4> QED BY <2>1, <4>1
      <3>3. D # {}
        <4>1. 0 \in 0 .. c - 1
          BY <1>1
        <4> QED BY <3>1, <4>1
      <3>4. p = Stream!Max(D)
        <4>1. x.index = {} /\ ~(x.id # <<>>) /\ DOMAIN acc.calls # {}
          BY <2>1, <3>2, <3>3 DEF D
        <4>2. p = CASE x.index # {} -> CHOOSE i \in x.index : TRUE
                    [] x.index = {} /\ FALSE -> 0
                    [] x.index = {} /\ ~FALSE /\ x.id # <<>> ->
                          IF Stream!Known(acc.calls, x) # {} THEN CHOOSE i \in Stream!Known(acc.calls, x) : TRUE
                          ELSE Stream!Cardinality(DOMAIN acc.calls)
                    [] OTHER -> IF DOMAIN acc.calls = {} THEN 0 ELSE Stream!Max(DOMAIN acc.calls)
          BY <1>7 DEF Stream!Place
        <4>3. p = IF DOMAIN acc.calls = {} THEN 0 ELSE Stream!Max(DOMAIN acc.calls)
          BY <4>1, <4>2
        <4> QED BY <4>1, <4>3 DEF D
      <3>5. p = c - 1
        <4>1. c \in Nat /\ c > 0
          BY <1>1
        <4>2. Stream!Max(0 .. c - 1) = c - 1
          BY <4>1, TheLatest
        <4> QED BY <3>1, <3>4, <4>2
      <3>6. c - 1 \in Nat /\ c - 1 \in D /\ own[c - 1] = c
        BY <1>1, <1>2, <1>11, <3>1
      <3> QED BY <1>11, <3>5, <3>6 DEF Goal
    <2> QED BY <1>14, <2>6, <2>7
  <1>18. Goal
    BY <1>9, <1>10, <1>11
  <1> QED BY <1>18 DEF Goal, D

-----------------------------------------------------------------------------
(* The steps of the stream.                                                *)

\* An accumulator of these parts.
Accumulator(calls, text, thought, thoughtSig, events, finish) ==
    [calls |-> calls, text |-> text, thought |-> thought, thoughtSig |-> thoughtSig, events |-> events,
     finish |-> finish]

\* An event is counted.
LEMMA Counted ==
    ASSUME NEW a, NEW c, NEW t, NEW h, NEW s, NEW e, NEW f, a = Accumulator(c, t, h, s, e, f)
    PROVE  [a EXCEPT !.events = @ + 1] = Accumulator(c, t, h, s, e + 1, f)
  BY DEF Accumulator

\* An event changes what it says.
LEMMA NewEvent ==
    ASSUME acc = Accumulator(acc.calls, acc.text, acc.thought, acc.thoughtSig, acc.events, acc.finish), NEW v, NEW w
    PROVE  /\ [acc EXCEPT !.calls = v] =
                  Accumulator(v, acc.text, acc.thought, acc.thoughtSig, acc.events, acc.finish)
           /\ [acc EXCEPT !.text = v] =
                  Accumulator(acc.calls, v, acc.thought, acc.thoughtSig, acc.events, acc.finish)
           /\ [[acc EXCEPT !.thought = v] EXCEPT !.thoughtSig = w] =
                  Accumulator(acc.calls, acc.text, v, w, acc.events, acc.finish)
           /\ [acc EXCEPT !.finish = v] =
                  Accumulator(acc.calls, acc.text, acc.thought, acc.thoughtSig, acc.events, v)
  <1> DEFINE c == acc.calls
             t == acc.text
             h == acc.thought
             s == acc.thoughtSig
             e == acc.events
             f == acc.finish
  <1>1. acc = [calls |-> c, text |-> t, thought |-> h, thoughtSig |-> s, events |-> e, finish |-> f]
    BY DEF Accumulator
  <1> HIDE DEF c, t, h, s, e, f
  <1>2. /\ [acc EXCEPT !.calls = v] = Accumulator(v, t, h, s, e, f)
        /\ [acc EXCEPT !.text = v] = Accumulator(c, v, h, s, e, f)
    BY <1>1 DEF Accumulator
  <1>3. [acc EXCEPT !.finish = v] = Accumulator(c, t, h, s, e, v)
    BY <1>1 DEF Accumulator
  <1>4. [acc EXCEPT !.thought = v] = Accumulator(c, t, v, s, e, f)
    BY <1>1 DEF Accumulator
  <1>5. ASSUME NEW a, a = Accumulator(c, t, v, s, e, f)
        PROVE  [a EXCEPT !.thoughtSig = w] = Accumulator(c, t, v, w, e, f)
    BY <1>5 DEF Accumulator
  <1>6. [[acc EXCEPT !.thought = v] EXCEPT !.thoughtSig = w] = Accumulator(c, t, v, w, e, f)
    BY <1>4, <1>5
  <1> QED BY <1>2, <1>3, <1>6 DEF c, t, h, s, e, f

\* What a step leaves alone stays as it was.
LEMMA CallsStay ==
    ASSUME Owned, InBlocks, InTurn, acc'.calls = acc.calls, sent'.calls = sent.calls, stream' = stream
    PROVE  Owned' /\ InBlocks' /\ InTurn'
  <1>1. Tools' = Tools /\ Begun' = Begun /\ Stream!Blocks' = Stream!Blocks
    BY DEF Tools, Begun, Stream!Blocks
  <1>2. \A c, k : PartOf(c, k)' = PartOf(c, k)
    BY DEF PartOf, Got
  <1>3. ASSUME NEW own, OwnedBy(own)
        PROVE  OwnedBy(own)'
    BY <1>1, <1>2, <1>3 DEF OwnedBy
  <1>4. Owned'
    BY <1>1, <1>3 DEF Owned
  <1>5. InBlocks'
    BY <1>1 DEF InBlocks
  <1>6. InTurn'
    BY <1>1 DEF InTurn
  <1> QED BY <1>4, <1>5, <1>6

\* A text and a thought grow by the piece that comes.
LEMMA TextKeeps ==
    ASSUME StreamInv, Stream!Text
    PROVE  StreamInv'
  <1>1. /\ phase = "open" /\ phase' = phase /\ stream' = stream /\ reply' = reply /\ sent.text < Pieces
        /\ acc' = [[acc EXCEPT !.text = Append(@, <<0, sent.text + 1>>)] EXCEPT !.events = @ + 1]
        /\ sent' = [sent EXCEPT !.text = @ + 1]
    BY DEF Stream!Text, Stream!Goes, Stream!Event
  <1>2. /\ sent \in [calls : [Stream!Calls -> 0 .. Pieces], text : 0 .. Pieces, thought : 0 .. Pieces]
        /\ Pieces \in Nat
    BY AStyle DEF StreamInv, StreamTyped, Stream!TypeOK
  <1>3. /\ sent'.calls = sent.calls /\ sent'.text = sent.text + 1 /\ sent'.thought = sent.thought
        /\ sent' \in [calls : [Stream!Calls -> 0 .. Pieces], text : 0 .. Pieces, thought : 0 .. Pieces]
    BY <1>1, <1>2
  <1>4. acc = Accumulator(acc.calls, acc.text, acc.thought, acc.thoughtSig, acc.events, acc.finish)
    BY DEF StreamInv, StreamTyped, Accumulator
  <1>5. acc' = Accumulator(acc.calls, Append(acc.text, <<0, sent.text + 1>>), acc.thought, acc.thoughtSig,
                           acc.events + 1, acc.finish)
    <2> DEFINE v == Append(acc.text, <<0, sent.text + 1>>)
               mid == [acc EXCEPT !.text = v]
    <2>1. acc' = [mid EXCEPT !.events = @ + 1]
      BY <1>1
    <2> HIDE DEF v
    <2>2. mid = Accumulator(acc.calls, v, acc.thought, acc.thoughtSig, acc.events, acc.finish)
      BY <1>4, NewEvent
    <2> HIDE DEF mid
    <2>3. acc' = Accumulator(acc.calls, v, acc.thought, acc.thoughtSig, acc.events + 1, acc.finish)
      BY <2>1, <2>2, Counted
    <2> QED BY <2>3 DEF v
  <1>6. /\ acc'.calls = acc.calls /\ acc'.text = Append(acc.text, <<0, sent.text + 1>>)
        /\ acc'.thought = acc.thought /\ acc'.thoughtSig = acc.thoughtSig
        /\ acc'.events = acc.events + 1 /\ acc'.finish = acc.finish
        /\ acc' = [calls |-> acc'.calls, text |-> acc'.text, thought |-> acc'.thought,
                   thoughtSig |-> acc'.thoughtSig, events |-> acc'.events, finish |-> acc'.finish]
    BY <1>5 DEF Accumulator
  <1>7. StreamTyped'
    <2>1. acc.events \in Nat /\ acc.finish \in BOOLEAN /\ Stream!TypeOK
      BY DEF StreamInv, StreamTyped
    <2>2. acc.events + 1 \in Nat
      BY <2>1
    <2>3. Stream!TypeOK'
      BY <1>1, <1>3, <1>6, <2>1 DEF Stream!TypeOK
    <2> QED BY <1>6, <2>1, <2>2, <2>3 DEF StreamTyped
  <1>8. Owned' /\ InBlocks' /\ InTurn'
    BY <1>1, <1>3, <1>6, CallsStay DEF StreamInv
  <1>9. Texts'
    <2>1. sent.text \in Nat
      BY <1>2
    <2>2. Append(acc.text, <<0, sent.text + 1>>) = Opening(0, sent.text + 1)
      BY <2>1, NextPiece DEF StreamInv, Texts
    <2> QED BY <1>1, <1>3, <1>6, <2>2 DEF StreamInv, Texts, Stream!Blocks
  <1>10. ~acc.finish
    <2>1. acc.finish => sent.text = Pieces
      BY DEF StreamInv, Finished, Stream!AllSent
    <2> QED BY <1>1, <1>2, <2>1
  <1>11. acc.finish \in BOOLEAN
    BY DEF StreamInv, StreamTyped
  <1>12. Finished'
    BY <1>1, <1>6, <1>10 DEF Finished
  <1> QED BY <1>7, <1>8, <1>9, <1>12 DEF StreamInv

\* A thought grows by the piece that comes, and with Anthropic its signature.
LEMMA ThoughtKeeps ==
    ASSUME StreamInv, Stream!Thought
    PROVE  StreamInv'
  <1> DEFINE new == Append(acc.thought, <<0, sent.thought + 1>>)
             mark == IF Stream!Blocks THEN Append(acc.thoughtSig, <<0, sent.thought + 1>>) ELSE acc.thoughtSig
  <1>1. /\ phase = "open" /\ phase' = phase /\ stream' = stream /\ reply' = reply /\ sent.thought < Pieces
        /\ acc' = [[acc EXCEPT !.thought = new, !.thoughtSig = mark] EXCEPT !.events = @ + 1]
        /\ sent' = [sent EXCEPT !.thought = @ + 1]
    BY DEF Stream!Thought, Stream!Goes, Stream!Event
  <1>2. /\ sent \in [calls : [Stream!Calls -> 0 .. Pieces], text : 0 .. Pieces, thought : 0 .. Pieces]
        /\ Pieces \in Nat
    BY AStyle DEF StreamInv, StreamTyped, Stream!TypeOK
  <1>3. /\ sent'.calls = sent.calls /\ sent'.thought = sent.thought + 1 /\ sent'.text = sent.text
        /\ sent' \in [calls : [Stream!Calls -> 0 .. Pieces], text : 0 .. Pieces, thought : 0 .. Pieces]
    BY <1>1, <1>2
  <1>4. acc = Accumulator(acc.calls, acc.text, acc.thought, acc.thoughtSig, acc.events, acc.finish)
    BY DEF StreamInv, StreamTyped, Accumulator
  <1>13. sent.thought \in Nat
    BY <1>2
  <1>14. new = Opening(0, sent.thought + 1)
    BY <1>13, NextPiece DEF StreamInv, Texts
  <1>15. mark = IF Stream!Blocks THEN Opening(0, sent.thought + 1) ELSE <<>>
    BY <1>13, NextPiece DEF StreamInv, Texts
  <1> HIDE DEF new, mark
  <1>5. acc' = Accumulator(acc.calls, acc.text, new, mark, acc.events + 1, acc.finish)
    <2> DEFINE mid == [[acc EXCEPT !.thought = new] EXCEPT !.thoughtSig = mark]
    <2>1. acc' = [mid EXCEPT !.events = @ + 1]
      BY <1>1
    <2>2. mid = Accumulator(acc.calls, acc.text, new, mark, acc.events, acc.finish)
      BY <1>4, NewEvent
    <2> HIDE DEF mid
    <2> QED BY <2>1, <2>2, Counted
  <1>6. /\ acc'.calls = acc.calls /\ acc'.text = acc.text /\ acc'.thought = new /\ acc'.thoughtSig = mark
        /\ acc'.events = acc.events + 1 /\ acc'.finish = acc.finish
        /\ acc' = [calls |-> acc'.calls, text |-> acc'.text, thought |-> acc'.thought,
                   thoughtSig |-> acc'.thoughtSig, events |-> acc'.events, finish |-> acc'.finish]
    BY <1>5 DEF Accumulator
  <1>7. StreamTyped'
    BY <1>1, <1>3, <1>6 DEF StreamInv, StreamTyped, Stream!TypeOK
  <1>8. Owned' /\ InBlocks' /\ InTurn'
    BY <1>1, <1>3, <1>6, CallsStay DEF StreamInv
  <1>9. Texts'
    BY <1>1, <1>3, <1>6, <1>14, <1>15 DEF StreamInv, Texts, Stream!Blocks
  <1>10. ~acc.finish
    <2>1. acc.finish => sent.thought = Pieces
      BY DEF StreamInv, Finished, Stream!AllSent
    <2> QED BY <1>1, <1>2, <2>1
  <1>11. acc.finish \in BOOLEAN
    BY DEF StreamInv, StreamTyped
  <1>12. Finished'
    BY <1>1, <1>6, <1>10 DEF Finished
  <1> QED BY <1>7, <1>8, <1>9, <1>12 DEF StreamInv

\* The end of the stream: its mark, its loss, the answer made of it.
LEMMA FinishKeeps ==
    ASSUME StreamInv, Stream!Finish
    PROVE  StreamInv'
  <1>1. /\ phase = "open" /\ phase' = phase /\ stream' = stream /\ reply' = reply /\ Stream!AllSent /\ sent' = sent
        /\ acc' = [[acc EXCEPT !.finish = TRUE] EXCEPT !.events = @ + 1]
    BY DEF Stream!Finish, Stream!Goes, Stream!Event
  <1>4. acc = Accumulator(acc.calls, acc.text, acc.thought, acc.thoughtSig, acc.events, acc.finish)
    BY DEF StreamInv, StreamTyped, Accumulator
  <1>5. acc' = Accumulator(acc.calls, acc.text, acc.thought, acc.thoughtSig, acc.events + 1, TRUE)
    <2> DEFINE v == TRUE
               mid == [acc EXCEPT !.finish = v]
    <2>1. acc' = [mid EXCEPT !.events = @ + 1]
      BY <1>1
    <2> HIDE DEF v
    <2>2. mid = Accumulator(acc.calls, acc.text, acc.thought, acc.thoughtSig, acc.events, v)
      BY <1>4, NewEvent
    <2> HIDE DEF mid
    <2>3. acc' = Accumulator(acc.calls, acc.text, acc.thought, acc.thoughtSig, acc.events + 1, v)
      BY <2>1, <2>2, Counted
    <2> QED BY <2>3 DEF v
  <1>6. /\ acc'.calls = acc.calls /\ acc'.text = acc.text /\ acc'.thought = acc.thought
        /\ acc'.thoughtSig = acc.thoughtSig /\ acc'.events = acc.events + 1 /\ acc'.finish = TRUE
        /\ acc' = [calls |-> acc'.calls, text |-> acc'.text, thought |-> acc'.thought,
                   thoughtSig |-> acc'.thoughtSig, events |-> acc'.events, finish |-> acc'.finish]
    BY <1>5 DEF Accumulator
  <1>7. StreamTyped'
    BY <1>1, <1>6 DEF StreamInv, StreamTyped, Stream!TypeOK
  <1>8. Owned' /\ InBlocks' /\ InTurn'
    BY <1>1, <1>6, CallsStay DEF StreamInv
  <1>9. Texts'
    BY <1>1, <1>6 DEF StreamInv, Texts, Stream!Blocks
  <1>10. Stream!AllSent'
    BY <1>1 DEF Stream!AllSent, Stream!Pending
  <1>12. Finished'
    BY <1>1, <1>10 DEF Finished
  <1> QED BY <1>7, <1>8, <1>9, <1>12 DEF StreamInv

\* The end of a stream changes nothing of what was received; its reply is made of it.
LEMMA EndKeeps ==
    ASSUME StreamInv, Stream!Done \/ Stream!Truncated \/ Stream!Fails \/ Stream!Result
    PROVE  StreamInv'
  <1>1. /\ stream' = stream /\ sent' = sent /\ acc' = acc
        /\ phase' \in {"open", "ended", "failed", "returned"}
        /\ phase' = "returned" => reply' = [acc EXCEPT !.thought = IF DOMAIN acc.calls = {} THEN <<>> ELSE @]
    BY DEF Stream!Done, Stream!Truncated, Stream!Fails, Stream!Result
  <1>2. StreamTyped'
    BY <1>1 DEF StreamInv, StreamTyped, Stream!TypeOK
  <1>3. Owned' /\ InBlocks' /\ InTurn'
    BY <1>1, CallsStay DEF StreamInv
  <1>4. Texts'
    BY <1>1 DEF StreamInv, Texts, Stream!Blocks
  <1>5. Stream!AllSent' = Stream!AllSent
    BY <1>1 DEF Stream!AllSent, Stream!Pending
  <1>6. Finished'
    BY <1>1, <1>5 DEF StreamInv, Finished
  <1> QED BY <1>2, <1>3, <1>4, <1>6 DEF StreamInv

\* A chunk of a call changes nothing but the calls.
LEMMA ChunkKeeps ==
    ASSUME StreamInv, Stream!Goes, ~acc.finish, NEW v, DOMAIN v \subseteq Nat,
           Stream!Event([acc EXCEPT !.calls = v]),
           sent' \in [calls : [Stream!Calls -> 0 .. Pieces], text : 0 .. Pieces, thought : 0 .. Pieces],
           sent'.text = sent.text, sent'.thought = sent.thought
    PROVE  acc'.calls = v /\ stream' = stream /\ StreamTyped' /\ Texts' /\ Finished'
  <1>1. /\ phase = "open" /\ phase' = phase /\ stream' = stream /\ reply' = reply
        /\ acc' = [[acc EXCEPT !.calls = v] EXCEPT !.events = @ + 1]
    BY DEF Stream!Goes, Stream!Event
  <1>4. acc = Accumulator(acc.calls, acc.text, acc.thought, acc.thoughtSig, acc.events, acc.finish)
    BY DEF StreamInv, StreamTyped, Accumulator
  <1>5. acc' = Accumulator(v, acc.text, acc.thought, acc.thoughtSig, acc.events + 1, acc.finish)
    <2> DEFINE mid == [acc EXCEPT !.calls = v]
    <2>1. acc' = [mid EXCEPT !.events = @ + 1]
      BY <1>1
    <2>2. mid = Accumulator(v, acc.text, acc.thought, acc.thoughtSig, acc.events, acc.finish)
      BY <1>4, NewEvent
    <2> HIDE DEF mid
    <2> QED BY <2>1, <2>2, Counted
  <1>6. /\ acc'.calls = v /\ acc'.text = acc.text /\ acc'.thought = acc.thought
        /\ acc'.thoughtSig = acc.thoughtSig /\ acc'.events = acc.events + 1 /\ acc'.finish = acc.finish
        /\ acc' = [calls |-> acc'.calls, text |-> acc'.text, thought |-> acc'.thought,
                   thoughtSig |-> acc'.thoughtSig, events |-> acc'.events, finish |-> acc'.finish]
    BY <1>5 DEF Accumulator
  <1>7. StreamTyped'
    <2>1. acc.events \in Nat /\ acc.finish \in BOOLEAN /\ Stream!TypeOK
      BY DEF StreamInv, StreamTyped
    <2>2. acc.events + 1 \in Nat
      BY <2>1
    <2>3. Stream!TypeOK'
      BY <1>1, <1>6, <2>1 DEF Stream!TypeOK
    <2> QED BY <1>6, <2>1, <2>2, <2>3 DEF StreamTyped
  <1>9. Texts'
    BY <1>1, <1>6 DEF StreamInv, Texts, Stream!Blocks
  <1>10. Finished'
    BY <1>1, <1>6 DEF Finished
  <1> QED BY <1>1, <1>6, <1>7, <1>9, <1>10

\* One more chunk of one call is one more chunk of that call only.
LEMMA OneSent ==
    ASSUME StreamInv, NEW c \in Stream!Calls, Stream!Pending(c)
    PROVE  /\ c \in Tools /\ ~acc.finish /\ sent.calls[c] \in Nat /\ sent.calls[c] < Pieces /\ sent.calls \in [Stream!Calls -> 0 .. Pieces]
           /\ sent' = [sent EXCEPT !.calls[c] = @ + 1] =>
                /\ sent' \in [calls : [Stream!Calls -> 0 .. Pieces], text : 0 .. Pieces, thought : 0 .. Pieces]
                /\ sent'.text = sent.text /\ sent'.thought = sent.thought
                /\ sent'.calls[c] = sent.calls[c] + 1
                /\ \A d \in Stream!Calls : d # c => sent'.calls[d] = sent.calls[d]
  <1>1. /\ sent \in [calls : [Stream!Calls -> 0 .. Pieces], text : 0 .. Pieces, thought : 0 .. Pieces]
        /\ Pieces \in Nat
    BY AStyle DEF StreamInv, StreamTyped, Stream!TypeOK
  <1>2. c <= stream.calls /\ sent.calls[c] < Pieces
    BY DEF Stream!Pending
  <1>3. c \in Nat /\ c >= 1 /\ stream.calls \in Nat
    <2>1. stream.calls \in 0 .. MaxTools /\ MaxTools \in Nat
      BY AStyle DEF StreamInv
    <2> QED BY <2>1 DEF Stream!Calls
  <1>4. c \in Tools
    BY <1>2, <1>3 DEF Tools
  <1>5. ~acc.finish
    <2>1. acc.finish => ~Stream!Pending(c)
      BY DEF StreamInv, Finished, Stream!AllSent
    <2> QED BY <2>1
  <1>6. sent.calls[c] \in Nat /\ sent.calls \in [Stream!Calls -> 0 .. Pieces]
    BY <1>1
  <1>7. ASSUME sent' = [sent EXCEPT !.calls[c] = @ + 1]
        PROVE  /\ sent' \in [calls : [Stream!Calls -> 0 .. Pieces], text : 0 .. Pieces, thought : 0 .. Pieces]
               /\ sent'.text = sent.text /\ sent'.thought = sent.thought
               /\ sent'.calls[c] = sent.calls[c] + 1
               /\ \A d \in Stream!Calls : d # c => sent'.calls[d] = sent.calls[d]
    <2> DEFINE s == sent.calls
               z == [s EXCEPT ![c] = @ + 1]
    <2>1. z \in [Stream!Calls -> 0 .. Pieces] /\ z[c] = s[c] + 1 /\ \A d \in Stream!Calls : d # c => z[d] = s[d]
      BY <1>1, <1>2, <1>6
    <2>2. sent' = [sent EXCEPT !.calls = z]
      BY <1>1, <1>7
    <2> HIDE DEF z
    <2>3. sent'.calls = z /\ sent'.text = sent.text /\ sent'.thought = sent.thought
      BY <1>1, <2>2
    <2>4. sent' \in [calls : [Stream!Calls -> 0 .. Pieces], text : 0 .. Pieces, thought : 0 .. Pieces]
      BY <1>1, <2>1, <2>2
    <2> QED BY <2>1, <2>3, <2>4
  <1> QED BY <1>2, <1>4, <1>5, <1>6, <1>7

\* A block starts with its id and gets its arguments piece by piece.
LEMMA BlockKeeps ==
    ASSUME StreamInv, NEW c \in Stream!Calls, Stream!BlockStarts(c) \/ Stream!BlockChunk(c)
    PROVE  StreamInv'
  <1> DEFINE D == DOMAIN acc.calls
             part == IF Stream!BlockStarts(c) THEN [Stream!NoCall EXCEPT !.id = Stream!Whole(c)]
                     ELSE [acc.calls[c] EXCEPT !.args = Append(@, <<c, sent.calls[c] + 1>>)]
             v == [j \in D \cup {c} |-> IF j = c THEN part ELSE acc.calls[j]]
  <1>1. Stream!Goes /\ Stream!Blocks /\ Stream!Pending(c) /\ Stream!Event([acc EXCEPT !.calls = v])
    BY DEF Stream!BlockStarts, Stream!BlockChunk, Stream!Turn, Stream!BlockOf
  <1>2. /\ c \in Tools /\ ~acc.finish /\ sent.calls[c] \in Nat /\ sent.calls[c] < Pieces
        /\ sent.calls \in [Stream!Calls -> 0 .. Pieces]
    BY <1>1, OneSent
  <1>3. c \in Nat /\ Pieces \in Nat /\ Tools \subseteq Stream!Calls
    BY <1>2, AStyle DEF StreamInv
  <1>4. /\ D \subseteq Tools /\ Begun \subseteq D
        /\ acc.calls = [d \in D |-> [id |-> Opening(d, Pieces), args |-> Opening(d, sent.calls[d]), sig |-> <<>>]]
    BY <1>1 DEF StreamInv, InBlocks
  <1>5. D \subseteq Nat
    BY DEF StreamInv, StreamTyped, Stream!TypeOK
  <1>6. DOMAIN v = D \cup {c} /\ DOMAIN v \subseteq Nat
    BY <1>3, <1>5
  <1>7. v[c] = part /\ \A d \in D : d # c => v[d] = acc.calls[d]
    OBVIOUS
  <1>8. /\ sent' \in [calls : [Stream!Calls -> 0 .. Pieces], text : 0 .. Pieces, thought : 0 .. Pieces]
        /\ sent'.text = sent.text /\ sent'.thought = sent.thought
        /\ \A d \in Stream!Calls : d # c => sent'.calls[d] = sent.calls[d]
        /\ part = [id |-> Opening(c, Pieces), args |-> Opening(c, sent'.calls[c]), sig |-> <<>>]
    <2>1. CASE Stream!BlockStarts(c)
      <3>1. sent' = sent /\ c \notin D
        BY <2>1 DEF Stream!BlockStarts
      <3>2. sent.calls[c] = 0
        BY <1>2, <1>4, <3>1 DEF Begun
      <3>3. Opening(c, 0) = <<>> /\ Stream!Whole(c) = Opening(c, Pieces)
        BY <1>3, Openings DEF Stream!Whole, Opening
      <3>4. part = [id |-> Opening(c, Pieces), args |-> <<>>, sig |-> <<>>]
        BY <2>1, <3>3 DEF Stream!NoCall
      <3>5. sent \in [calls : [Stream!Calls -> 0 .. Pieces], text : 0 .. Pieces, thought : 0 .. Pieces]
        BY DEF StreamInv, StreamTyped, Stream!TypeOK
      <3> HIDE DEF part
      <3> QED BY <3>1, <3>2, <3>3, <3>4, <3>5
    <2>2. CASE ~Stream!BlockStarts(c)
      <3>1. Stream!BlockChunk(c) /\ c \in D /\ sent' = [sent EXCEPT !.calls[c] = @ + 1]
        BY <2>2 DEF Stream!BlockChunk
      <3>2. /\ sent' \in [calls : [Stream!Calls -> 0 .. Pieces], text : 0 .. Pieces, thought : 0 .. Pieces]
            /\ sent'.text = sent.text /\ sent'.thought = sent.thought
            /\ sent'.calls[c] = sent.calls[c] + 1
            /\ \A d \in Stream!Calls : d # c => sent'.calls[d] = sent.calls[d]
        BY <1>1, <3>1, OneSent
      <3>3. acc.calls[c] = [id |-> Opening(c, Pieces), args |-> Opening(c, sent.calls[c]), sig |-> <<>>]
        BY <1>4, <3>1
      <3>4. Append(Opening(c, sent.calls[c]), <<c, sent.calls[c] + 1>>) = Opening(c, sent.calls[c] + 1)
        BY <1>2, <1>3, NextPiece
      <3>5. part = [acc.calls[c] EXCEPT !.args = Append(@, <<c, sent.calls[c] + 1>>)]
        BY <2>2
      <3> HIDE DEF part
      <3>6. part = [id |-> Opening(c, Pieces), args |-> Opening(c, sent.calls[c] + 1), sig |-> <<>>]
        <4>1. ASSUME NEW a, NEW p, NEW q, NEW y, a = [id |-> p, args |-> q, sig |-> <<>>]
              PROVE  [a EXCEPT !.args = Append(@, y)] = [id |-> p, args |-> Append(q, y), sig |-> <<>>]
          BY <4>1
        <4> DEFINE y == <<c, sent.calls[c] + 1>>
        <4> HIDE DEF y
        <4>2. [acc.calls[c] EXCEPT !.args = Append(@, y)] =
                  [id |-> Opening(c, Pieces), args |-> Append(Opening(c, sent.calls[c]), y), sig |-> <<>>]
          BY <3>3, <4>1
        <4> QED BY <3>4, <3>5, <4>2 DEF y
      <3> QED BY <3>2, <3>6
    <2> QED BY <2>1, <2>2
  <1> HIDE DEF v, part
  <1>9. acc'.calls = v /\ stream' = stream /\ StreamTyped' /\ Texts' /\ Finished'
    BY <1>1, <1>2, <1>6, <1>8, ChunkKeeps
  <1>10. Tools' = Tools /\ Stream!Blocks'
    BY <1>1, <1>9 DEF Tools, Stream!Blocks
  <1>11. InBlocks'
    <2>1. Begun' \subseteq D \cup {c}
      <3>1. Begun' = {d \in Tools : sent'.calls[d] > 0}
        BY <1>10 DEF Begun
      <3> QED BY <1>3, <1>4, <1>8, <3>1 DEF Begun
    <2>2. D \cup {c} \subseteq Tools
      BY <1>2, <1>4
    <2>3. \A d \in D \cup {c} : v[d] = [id |-> Opening(d, Pieces), args |-> Opening(d, sent'.calls[d]), sig |-> <<>>]
      <3> SUFFICES ASSUME NEW d \in D \cup {c}
                   PROVE  v[d] = [id |-> Opening(d, Pieces), args |-> Opening(d, sent'.calls[d]), sig |-> <<>>]
        OBVIOUS
      <3>1. CASE d = c
        BY <1>7, <1>8, <3>1
      <3>2. CASE d # c
        <4>1. d \in Stream!Calls /\ d \in D
          BY <1>3, <1>4, <3>2
        <4> QED BY <1>4, <1>7, <1>8, <3>2, <4>1
      <3> QED BY <3>1, <3>2
    <2>4. v = [d \in D \cup {c} |-> v[d]]
      BY DEF v
    <2>5. v = [d \in D \cup {c} |-> [id |-> Opening(d, Pieces), args |-> Opening(d, sent'.calls[d]), sig |-> <<>>]]
      BY <2>3, <2>4
    <2>6. acc'.calls = [d \in DOMAIN acc'.calls |->
                           [id |-> Opening(d, Pieces), args |-> Opening(d, sent'.calls[d]), sig |-> <<>>]]
      BY <1>6, <1>9, <2>5
    <2> QED BY <1>6, <1>9, <1>10, <2>1, <2>2, <2>6 DEF InBlocks
  <1>12. Owned'
    BY <1>10 DEF Owned
  <1>13. InTurn'
    BY <1>10 DEF InTurn, Stream!Blocks
  <1> QED BY <1>9, <1>11, <1>12, <1>13 DEF StreamInv

\* Nothing was sent, nothing is there.
LEMMA StreamStarts ==
    ASSUME Stream!Init
    PROVE  StreamInv
  <1>1. /\ stream \in [style : Stream!Styles, calls : 0 .. MaxTools]
        /\ sent = [calls |-> [c \in Stream!Calls |-> 0], text |-> 0, thought |-> 0]
        /\ acc = Stream!Empty /\ phase = "open" /\ reply = Stream!Empty
    BY DEF Stream!Init
  <1>2. MaxTools \in Nat /\ Pieces \in Nat /\ Pieces > 0
    BY RemoteAssumption DEF Stream!StreamAssumption
  <1>3. /\ acc.calls = [i \in {} |-> Stream!NoCall] /\ acc.text = <<>> /\ acc.thought = <<>> /\ acc.thoughtSig = <<>>
        /\ acc.events = 0 /\ acc.finish = FALSE
        /\ acc = [calls |-> acc.calls, text |-> acc.text, thought |-> acc.thought, thoughtSig |-> acc.thoughtSig,
                  events |-> acc.events, finish |-> acc.finish]
    BY <1>1 DEF Stream!Empty
  <1>4. DOMAIN acc.calls = {}
    BY <1>3
  <1>5. sent \in [calls : [Stream!Calls -> 0 .. Pieces], text : 0 .. Pieces, thought : 0 .. Pieces]
    BY <1>1, <1>2
  <1>6. StreamTyped
    <2>1. Stream!TypeOK
      BY <1>1, <1>4, <1>5 DEF Stream!TypeOK
    <2>2. acc.events \in Nat /\ acc.finish \in BOOLEAN
      <3>1. acc.events = 0
        BY <1>3
      <3>2. acc.finish = FALSE
        BY <1>3
      <3>3. acc.finish \in BOOLEAN
        BY <3>2, Zenon
      <3> QED BY <3>1, <3>3
    <2>3. acc = [calls |-> acc.calls, text |-> acc.text, thought |-> acc.thought, thoughtSig |-> acc.thoughtSig,
                 events |-> acc.events, finish |-> acc.finish]
      BY <1>3
    <2> QED BY <2>1, <2>2, <2>3 DEF StreamTyped
  <1>7. Begun = {}
    BY <1>1, <1>6, AStyle DEF Begun
  <1>8. Owned
    <2> DEFINE own == [i \in {} |-> 0]
    <2>1. own \in [{} -> Begun]
      OBVIOUS
    <2>2. acc.calls = [i \in {} |-> PartOf(own[i], sent.calls[own[i]])]
      BY <1>3
    <2>3. {} = 0 .. 0 - 1
      OBVIOUS
    <2> HIDE DEF own
    <2>4. OwnedBy(own)
      <3>1. \E n \in Nat : DOMAIN acc.calls = 0 .. n - 1
        BY <1>4, <2>3
      <3>2. acc.calls = [i \in DOMAIN acc.calls |-> PartOf(own[i], sent.calls[own[i]])]
        BY <1>4, <2>2
      <3> QED BY <1>4, <1>7, <2>1, <3>1, <3>2 DEF OwnedBy
    <2> QED BY <1>4, <2>1, <2>4 DEF Owned
  <1>9. InBlocks
    <2>1. acc.calls = [c \in {} |-> [id |-> Opening(c, Pieces), args |-> Opening(c, sent.calls[c]), sig |-> <<>>]]
      BY <1>3
    <2> QED BY <1>4, <1>7, <2>1 DEF InBlocks
  <1>10. InTurn
    <2>1. \A c \in Tools : sent.calls[c] = 0
      BY <1>1, <1>6, AStyle
    <2>2. \A c \in Tools : 1 \in Tools
      BY <1>6, AStyle DEF Tools
    <2>3. \A c, d \in Tools : d < c /\ sent.calls[c] > 0 => sent.calls[d] = Pieces
      BY <2>1
    <2>4. \A c \in Tools : sent.calls[c] = sent.calls[1]
      BY <2>1, <2>2
    <2> QED BY <2>3, <2>4 DEF InTurn
  <1>11. Texts
    <2>1. Opening(0, 0) = <<>>
      BY Openings
    <2> QED BY <1>1, <1>3, <2>1 DEF Texts
  <1>12. Finished
    BY <1>1, <1>3 DEF Finished
  <1> QED BY <1>6, <1>8, <1>9, <1>10, <1>11, <1>12 DEF StreamInv

\* A chunk of one call, wherever it goes, is one more chunk of the call it was cut from.
LEMMA CallKeeps ==
    ASSUME StreamInv, NEW c \in Stream!Calls, Stream!CallChunk(c)
    PROVE  StreamInv'
  <1> DEFINE D == DOMAIN acc.calls
             k == sent.calls[c]
             x == Stream!Chunk(c, k + 1)
             v == Stream!Fed(<<x>>)
  <1>1. /\ Stream!Goes /\ stream.style.by \in {"index", "id", "turn"} /\ Stream!Pending(c)
        /\ stream.style.by = "turn" => \A d \in 1 .. (c - 1) : ~Stream!Pending(d)
        /\ Stream!Event([acc EXCEPT !.calls = v])
        /\ sent' = [sent EXCEPT !.calls[c] = @ + 1]
    BY DEF Stream!CallChunk
  <1>2. /\ c \in Tools /\ ~acc.finish /\ k \in Nat /\ k < Pieces
        /\ sent' \in [calls : [Stream!Calls -> 0 .. Pieces], text : 0 .. Pieces, thought : 0 .. Pieces]
        /\ sent'.text = sent.text /\ sent'.thought = sent.thought
        /\ sent'.calls[c] = k + 1
        /\ \A d \in Stream!Calls : d # c => sent'.calls[d] = sent.calls[d]
    BY <1>1, OneSent
  <1>3. StreamTyped /\ InTurn /\ ~Stream!Blocks
    BY <1>1 DEF StreamInv, Stream!Blocks
  <1>4. /\ c \in Nat /\ Pieces \in Nat /\ Tools \subseteq Stream!Calls
        /\ \A d \in Tools : d \in Nat /\ d >= 1 /\ sent.calls[d] \in Nat /\ sent.calls[d] <= Pieces
        /\ stream.calls \in Nat
    BY <1>2, <1>3, AStyle
  <1>5. PICK own : OwnedBy(own)
    BY <1>3 DEF StreamInv, Owned
  <1>6. /\ own \in [D -> Begun]
        /\ \A i, j \in D : own[i] = own[j] => i = j
        /\ \A d \in Begun : \E i \in D : own[i] = d
        /\ acc.calls = [i \in D |-> PartOf(own[i], sent.calls[own[i]])]
        /\ stream.style.by # "id" => \A i \in D : own[i] = i + 1
    BY <1>5 DEF OwnedBy
  <1>7. Begun \subseteq Tools
    BY DEF Begun
  <1>8. D \subseteq Nat
    BY <1>3 DEF StreamTyped, Stream!TypeOK
  <1>9. PICK p : p = SolePlace(x)
    OBVIOUS
  <1>10. /\ \/ p \in D /\ own[p] = c
            \/ p \notin D /\ c \notin Begun
         /\ p \in Nat /\ (stream.style.by # "id" => p = c - 1)
         /\ stream.style.by = "id" => \E n \in Nat : D \cup {p} = 0 .. n - 1
    <2>1. PICK m : m = sent.calls[c] + 1
      OBVIOUS
    <2>2. p = SolePlace(Stream!Chunk(c, m))
      BY <1>9, <2>1
    <2>3. sent.calls[c] < Pieces
      BY <1>2
    <2> HIDE DEF D, k, x, v
    <2>4. /\ \/ p \in DOMAIN acc.calls /\ own[p] = c
             \/ p \notin DOMAIN acc.calls /\ c \notin Begun
          /\ p \in Nat /\ (stream.style.by # "id" => p = c - 1)
          /\ stream.style.by = "id" => \E n \in Nat : DOMAIN acc.calls \cup {p} = 0 .. n - 1
      BY <1>1, <1>2, <1>3, <1>5, <2>1, <2>2, <2>3, ThePlace
    <2> QED BY <2>4 DEF D
  <1>11. v = [i \in D \cup {p} |-> IF i = p THEN Stream!Merged(Stream!At(acc.calls, p), x) ELSE acc.calls[i]]
    <2> HIDE DEF x
    <2>1. Stream!Fed(<<x>>) =
              [i \in DOMAIN acc.calls \cup {p} |->
                  IF i = p THEN Stream!Merged(Stream!At(acc.calls, p), x) ELSE acc.calls[i]]
      BY <1>9, FedOne DEF FedAt
    <2> QED BY <2>1
  <1>12. Stream!At(acc.calls, p) = PartOf(c, k)
    <2>1. CASE p \in D
      <3>1. own[p] = c
        BY <1>10, <2>1
      <3>2. acc.calls[p] = PartOf(own[p], sent.calls[own[p]])
        BY <1>6, <2>1
      <3> QED BY <2>1, <3>1, <3>2 DEF Stream!At
    <2>2. CASE p \notin D
      <3>1. k = 0
        BY <1>2, <1>10, <2>2 DEF Begun
      <3>2. PartOf(c, 0) = Stream!NoCall
        BY <1>2, <1>3, OneMore
      <3> QED BY <2>2, <3>1, <3>2 DEF Stream!At
    <2> QED BY <2>1, <2>2
  <1>13. Stream!Merged(PartOf(c, k), x) = PartOf(c, k + 1)
    BY <1>2, <1>3, OneMore
  <1> HIDE DEF v, x
  <1>14. DOMAIN v = D \cup {p} /\ DOMAIN v \subseteq Nat
    BY <1>8, <1>10, <1>11
  <1>15. acc'.calls = v /\ stream' = stream /\ StreamTyped' /\ Texts' /\ Finished'
    BY <1>1, <1>2, <1>14, ChunkKeeps
  <1>16. PICK o : o = [i \in D \cup {p} |-> IF i = p THEN c ELSE own[i]]
    OBVIOUS
  <1>17. o[p] = c /\ \A i \in D : i # p => o[i] = own[i] /\ own[i] # c /\ own[i] \in Begun
    BY <1>6, <1>10, <1>16
  <1>18. Tools' = Tools /\ Begun' = Begun \cup {c} /\ ~Stream!Blocks'
    <2>1. Tools' = Tools /\ ~Stream!Blocks'
      BY <1>3, <1>15 DEF Tools, Stream!Blocks
    <2>2. Begun' = {d \in Tools : sent'.calls[d] > 0}
      BY <2>1 DEF Begun
    <2>3. \A d \in Tools : sent'.calls[d] > 0 <=> (d \in Begun \/ d = c)
      BY <1>2, <1>4 DEF Begun
    <2> HIDE DEF D, k
    <2> QED BY <1>2, <1>7, <2>1, <2>2, <2>3
  <1>19. OwnedBy(o)'
    <2>1. o \in [D \cup {p} -> Begun \cup {c}]
      BY <1>16, <1>17
    <2>2. \A i, j \in D \cup {p} : o[i] = o[j] => i = j
      BY <1>6, <1>17
    <2>3. \A d \in Begun \cup {c} : \E i \in D \cup {p} : o[i] = d
      BY <1>6, <1>10, <1>17
    <2>4. \A d, n : PartOf(d, n)' = PartOf(d, n)
      BY <1>15 DEF PartOf, Got
    <2>5. v = [i \in D \cup {p} |-> PartOf(o[i], sent'.calls[o[i]])]
      <3> DEFINE g(i) == IF i = p THEN Stream!Merged(Stream!At(acc.calls, p), x) ELSE acc.calls[i]
                 h(i) == PartOf(o[i], sent'.calls[o[i]])
      <3>1. \A i \in D \cup {p} : g(i) = h(i)
        <4> SUFFICES ASSUME NEW i \in D \cup {p}
                     PROVE  g(i) = h(i)
          OBVIOUS
        <4>1. CASE i = p
          <5>1. h(p) = PartOf(c, k + 1)
            BY <1>2, <1>17
          <5>2. g(p) = PartOf(c, k + 1)
            BY <1>12, <1>13
          <5> HIDE DEF g, h
          <5> QED BY <4>1, <5>1, <5>2
        <4>2. CASE i # p
          <5>1. i \in D /\ own[i] # c /\ own[i] \in Stream!Calls /\ o[i] = own[i]
            BY <1>4, <1>7, <1>17, <4>2
          <5>2. acc.calls[i] = PartOf(own[i], sent.calls[own[i]]) /\ sent'.calls[own[i]] = sent.calls[own[i]]
            BY <1>2, <1>6, <5>1
          <5> QED BY <4>2, <5>1, <5>2
        <4> QED BY <4>1, <4>2
      <3>2. v = [i \in D \cup {p} |-> g(i)]
        BY <1>11
      <3> HIDE DEF g, h
      <3>3. v = [i \in D \cup {p} |-> h(i)]
        BY <3>1, <3>2
      <3> QED BY <3>3 DEF h
    <2>6. stream.style.by # "id" => \A i \in D \cup {p} : o[i] = i + 1
      BY <1>4, <1>6, <1>10, <1>17
    <2>7. acc'.calls = [i \in DOMAIN acc'.calls |-> PartOf(o[i], sent'.calls[o[i]])]
      BY <1>14, <1>15, <2>5
    <2>8. /\ DOMAIN acc'.calls = D \cup {p}
          /\ stream'.style.by # "id" => \A i \in D \cup {p} : o[i] = i + 1
          /\ stream'.style.by = "id" => \E n \in Nat : D \cup {p} = 0 .. n - 1
      BY <1>10, <1>14, <1>15, <2>6
    <2> HIDE DEF D, k
    <2> QED BY <1>18, <2>1, <2>2, <2>3, <2>4, <2>7, <2>8 DEF OwnedBy
  <1>20. Owned'
    BY <1>19 DEF Owned, OwnedBy
  <1>21. InTurn'
    <2>1. ASSUME stream.style.by = "turn", NEW e \in Tools, NEW d \in Tools, d < e, sent'.calls[e] > 0
          PROVE  sent'.calls[d] = Pieces
      <3>1. CASE e = c
        <4>1. d \in 1 .. (c - 1) /\ d <= stream.calls /\ d # c
          BY <1>4, <2>1, <3>1 DEF Tools
        <4>2. sent.calls[d] = Pieces
          BY <1>1, <1>4, <2>1, <4>1 DEF Stream!Pending
        <4> QED BY <1>2, <1>4, <4>1, <4>2
      <3>2. CASE e # c
        <4>1. sent.calls[e] > 0
          BY <1>2, <1>4, <2>1, <3>2
        <4>2. sent.calls[d] = Pieces
          BY <1>3, <2>1, <4>1 DEF InTurn
        <4>3. d # c
          BY <1>2, <1>4, <4>2
        <4> QED BY <1>2, <1>4, <4>2, <4>3
      <3> QED BY <3>1, <3>2
    <2> QED BY <1>1, <1>15, <1>18, <2>1 DEF InTurn
  <1>22. InBlocks'
    BY <1>18 DEF InBlocks
  <1> QED BY <1>15, <1>20, <1>21, <1>22 DEF StreamInv

\* The place of the n-th call of an array.
PositionOf(n, many) == Stream!Place(acc.calls, Stream!Chunk(n, sent.calls[n] + 1), n - 1, many)

\* In an array the n-th call has the n-th place, also where it is the only one.
LEMMA ThePosition ==
    ASSUME StreamTyped, InTurn, NEW own, OwnedBy(own), stream.style.by = "array", NEW n \in Tools,
           NEW many, many \in BOOLEAN, many <=> stream.calls > 1
    PROVE  /\ PositionOf(n, many) = n - 1
           /\ Stream!At(acc.calls, n - 1) = PartOf(n, sent.calls[n])
           /\ DOMAIN acc.calls \subseteq 0 .. stream.calls - 1
  <1> DEFINE D == DOMAIN acc.calls
             k == sent.calls[n]
             x == Stream!Chunk(n, k + 1)
  <1>1. /\ n \in Nat /\ n >= 1 /\ Pieces \in Nat /\ Pieces > 0 /\ k \in Nat /\ stream.calls \in Nat
        /\ stream.style.ids \in {"always", "once"}
        /\ \A d \in Tools : d \in Nat /\ d >= 1 /\ sent.calls[d] \in Nat
    BY AStyle
  <1>2. /\ own \in [D -> Begun] /\ \A d \in Begun : \E i \in D : own[i] = d
        /\ acc.calls = [i \in D |-> PartOf(own[i], sent.calls[own[i]])]
        /\ \A i \in D : own[i] = i + 1
    BY DEF OwnedBy
  <1>3. D \subseteq Nat
    BY DEF StreamTyped, Stream!TypeOK
  <1>4. \A d \in Tools : sent.calls[d] = k
    BY DEF InTurn
  <1>5. \A i \in D : i + 1 \in Tools /\ sent.calls[i + 1] > 0
    BY <1>2 DEF Begun
  <1>6. D \subseteq 0 .. stream.calls - 1
    BY <1>1, <1>3, <1>5 DEF Tools
  <1>7. n - 1 \in D <=> k > 0
    <2>1. k > 0 => n \in Begun
      BY DEF Begun
    <2>2. n \in Begun => n - 1 \in D
      BY <1>1, <1>2, <1>3
    <2>3. n - 1 \in D => k > 0
      BY <1>1, <1>4, <1>5
    <2> QED BY <2>1, <2>2, <2>3
  <1>8. Stream!At(acc.calls, n - 1) = PartOf(n, k)
    <2>1. CASE k > 0
      <3>1. n - 1 \in D /\ own[n - 1] = n
        BY <1>1, <1>2, <1>7, <2>1
      <3>2. acc.calls[n - 1] = PartOf(own[n - 1], sent.calls[own[n - 1]])
        BY <1>2, <3>1
      <3> QED BY <3>1, <3>2 DEF Stream!At
    <2>2. CASE k = 0
      <3>1. n - 1 \notin D
        BY <1>7, <2>2
      <3>2. PartOf(n, 0) = Stream!NoCall
        BY OneMore
      <3> QED BY <2>2, <3>1, <3>2 DEF Stream!At
    <2> QED BY <1>1, <2>1, <2>2
  <1>9. x.index = {} /\ x.id = Stream!Cut(n, k + 1, stream.style.ids)
    BY DEF Stream!Chunk
  <1>10. CASE stream.calls > 1
    <2>1. x.index = {} /\ many
      BY <1>9, <1>10
    <2>2. PositionOf(n, many) = Stream!Place(acc.calls, x, n - 1, many)
      BY DEF PositionOf
    <2> HIDE DEF x
    <2>3. Stream!Place(acc.calls, x, n - 1, many) = n - 1
      BY <2>1 DEF Stream!Place
    <2> QED BY <1>6, <1>8, <2>2, <2>3
  <1>11. CASE stream.calls = 1
    <2>1. n = 1 /\ n - 1 = 0 /\ ~many
      BY <1>1, <1>11 DEF Tools
    <2>2. PositionOf(n, many) = Stream!Place(acc.calls, x, n - 1, many)
      BY DEF PositionOf
    <2>3. Opening(n, Pieces) # <<>>
      BY <1>1, Openings
    <2>4. x.id = IF k = 0 \/ stream.style.ids = "always" THEN Opening(n, Pieces) ELSE <<>>
      <3>1. k + 1 = 1 <=> k = 0
        BY <1>1
      <3> QED BY <1>1, <1>9, <3>1 DEF Stream!Cut, Stream!Whole, Opening
    <2> HIDE DEF x, k
    <2>5. CASE k = 0
      <3>1. D = {}
        <4>1. \A i \in D : FALSE
          BY <1>4, <1>5, <2>5
        <4> QED BY <4>1
      <3>2. Stream!Known(acc.calls, x) = {}
        BY <3>1 DEF Stream!Known
      <3>3. Stream!Place(acc.calls, x, n - 1, many) = Stream!Cardinality({})
        BY <1>9, <2>1, <2>3, <2>4, <2>5, <3>1, <3>2 DEF Stream!Place
      <3>4. Stream!Cardinality({}) = 0
        <4>1. Stream!Cardinality(0 .. 0 - 1) = 0
          BY TheNextPlace
        <4>2. 0 .. 0 - 1 = {}
          OBVIOUS
        <4> QED BY <4>1, <4>2
      <3> QED BY <1>6, <1>8, <2>1, <2>2, <3>3, <3>4 DEF k
    <2>6. CASE k > 0
      <3>1. D = {0}
        <4>1. 0 \in D
          BY <1>7, <2>1, <2>6
        <4>2. \A i \in D : i = 0
          BY <1>6, <1>11
        <4> QED BY <4>1, <4>2
      <3>2. acc.calls[0].id = Opening(n, Pieces)
        <4>1. acc.calls[0] = PartOf(n, k)
          BY <1>8, <2>1, <3>1 DEF Stream!At
        <4>2. acc.calls[0].id = Got(n, k, stream.style.ids)
          BY <4>1 DEF PartOf
        <4>3. \A m \in {"always", "once"} : \A j : j # 0 => Got(n, j, m) = Opening(n, Pieces)
          BY DEF Got
        <4>4. k # 0
          BY <1>1, <2>6
        <4> QED BY <1>1, <4>2, <4>3, <4>4
      <3>3. CASE stream.style.ids = "always"
        <4>1. x.id = Opening(n, Pieces)
          BY <2>4, <3>3
        <4>2. Stream!Known(acc.calls, x) = {0}
          BY <3>1, <3>2, <4>1 DEF Stream!Known
        <4>3. Stream!Place(acc.calls, x, n - 1, many) = CHOOSE i \in {0} : TRUE
          BY <1>9, <2>1, <2>3, <4>1, <4>2 DEF Stream!Place
        <4>4. (CHOOSE i \in {0} : TRUE) = 0
          OBVIOUS
        <4> QED BY <1>6, <1>8, <2>1, <2>2, <4>3, <4>4 DEF k
      <3>4. CASE stream.style.ids = "once"
        <4>1. x.id = <<>>
          <5>1. ~(k = 0 \/ stream.style.ids = "always")
            BY <1>1, <2>6, <3>4
          <5> QED BY <2>4, <5>1
        <4>2. Stream!Place(acc.calls, x, n - 1, many) = Stream!Max(D)
          <5>1. x.index = {} /\ ~many /\ ~(x.id # <<>>) /\ D # {}
            BY <1>9, <2>1, <3>1, <4>1
          <5>2. PICK pl : pl = Stream!Place(acc.calls, x, n - 1, many)
            OBVIOUS
          <5>3. pl = (CASE x.index # {} -> CHOOSE i \in x.index : TRUE
                                [] x.index = {} /\ many -> n - 1
                                [] x.index = {} /\ ~many /\ x.id # <<>> ->
                                      IF Stream!Known(acc.calls, x) # {} THEN CHOOSE i \in Stream!Known(acc.calls, x) : TRUE
                                      ELSE Stream!Cardinality(DOMAIN acc.calls)
                                [] OTHER -> IF DOMAIN acc.calls = {} THEN 0 ELSE Stream!Max(DOMAIN acc.calls))
            BY <5>2 DEF Stream!Place
          <5>4. pl = Stream!Max(D)
            BY <5>1, <5>3
          <5> QED BY <5>2, <5>4
        <4>3. Stream!Max(0 .. n - 1) = n - 1
          BY <1>1, TheLatest
        <4>4. 0 .. n - 1 = {0}
          BY <2>1
        <4> QED BY <1>6, <1>8, <2>1, <2>2, <3>1, <4>2, <4>3, <4>4 DEF k
      <3> QED BY <1>1, <3>3, <3>4
    <2> QED BY <1>1, <2>5, <2>6 DEF k
  <1>12. stream.calls > 1 \/ stream.calls = 1
    BY <1>1 DEF Tools
  <1> QED BY <1>10, <1>11, <1>12

\* A chunk of an array is one more chunk of every call.
LEMMA ArrayKeeps ==
    ASSUME StreamInv, Stream!ArrayChunk
    PROVE  StreamInv'
  <1> DEFINE D == DOMAIN acc.calls
             m == stream.calls
             chunks == [c \in 1 .. m |-> Stream!Chunk(c, sent.calls[c] + 1)]
             at == Stream!PlacesOf(chunks)
             v == Stream!Fed(chunks)
             z == [c \in Stream!Calls |-> IF Stream!Pending(c) THEN sent.calls[c] + 1 ELSE sent.calls[c]]
  <1>1. /\ Stream!Goes /\ stream.style.by = "array" /\ Stream!Pending(1)
        /\ Stream!Event([acc EXCEPT !.calls = v])
        /\ sent' = [sent EXCEPT !.calls = z]
    BY DEF Stream!ArrayChunk
  <1>2. StreamTyped /\ InTurn /\ ~Stream!Blocks
    BY <1>1 DEF StreamInv, Stream!Blocks
  <1>3. /\ Pieces \in Nat /\ m \in 0 .. MaxTools /\ MaxTools \in Nat /\ Tools \subseteq Stream!Calls
        /\ \A d \in Tools : d \in Nat /\ d >= 1 /\ sent.calls[d] \in Nat /\ sent.calls[d] <= Pieces
    BY <1>2, AStyle
  <1>4. /\ 1 <= m /\ sent.calls[1] < Pieces /\ m \in Nat
    BY <1>1, <1>3 DEF Stream!Pending
  <1>5. 1 \in Tools /\ 1 \in Stream!Calls /\ Tools = 1 .. m
    BY <1>3, <1>4 DEF Tools
  <1>6. ~acc.finish
    BY <1>1, <1>5, OneSent
  <1>7. sent \in [calls : [Stream!Calls -> 0 .. Pieces], text : 0 .. Pieces, thought : 0 .. Pieces]
    BY <1>2 DEF StreamTyped, Stream!TypeOK
  <1>8. \A c \in Tools : sent.calls[c] = sent.calls[1]
    BY <1>1, <1>2 DEF InTurn
  <1>9. /\ z \in [Stream!Calls -> 0 .. Pieces]
        /\ \A c \in Tools : z[c] = sent.calls[c] + 1 /\ z[c] > 0 /\ z[c] = z[1]
    <2>1. \A c \in Stream!Calls : sent.calls[c] \in 0 .. Pieces
      BY <1>7
    <2>2. ASSUME NEW c \in Stream!Calls
          PROVE  (IF Stream!Pending(c) THEN sent.calls[c] + 1 ELSE sent.calls[c]) \in 0 .. Pieces
      <3>1. CASE Stream!Pending(c)
        <4>1. sent.calls[c] < Pieces
          BY <3>1 DEF Stream!Pending
        <4> QED BY <1>3, <2>1, <3>1, <4>1
      <3>2. CASE ~Stream!Pending(c)
        BY <2>1, <3>2
      <3> QED BY <3>1, <3>2
    <2>3. \A c \in Tools : c \in Stream!Calls /\ Stream!Pending(c)
      BY <1>3, <1>4, <1>5, <1>8 DEF Stream!Pending
    <2>4. z \in [Stream!Calls -> 0 .. Pieces]
      BY <2>2
    <2>5. \A c \in Tools : z[c] = sent.calls[c] + 1
      BY <2>3
    <2> HIDE DEF z
    <2> QED BY <1>3, <1>5, <1>8, <2>4, <2>5
  <1> HIDE DEF z
  <1>10. /\ sent' \in [calls : [Stream!Calls -> 0 .. Pieces], text : 0 .. Pieces, thought : 0 .. Pieces]
         /\ sent'.text = sent.text /\ sent'.thought = sent.thought /\ sent'.calls = z
    BY <1>1, <1>7, <1>9
  <1>11. PICK own : OwnedBy(own)
    BY <1>2 DEF StreamInv, Owned
  <1>12. PICK many \in BOOLEAN : many <=> m > 1
    OBVIOUS
  <1>13. \A n \in Tools : /\ PositionOf(n, many) = n - 1
                          /\ Stream!At(acc.calls, n - 1) = PartOf(n, sent.calls[n])
    BY <1>1, <1>2, <1>11, <1>12, ThePosition
  <1>14. D \subseteq 0 .. m - 1
    BY <1>1, <1>2, <1>5, <1>11, <1>12, ThePosition
  <1>15. DOMAIN chunks = 1 .. m /\ \A n \in Tools : chunks[n] = Stream!Chunk(n, sent.calls[n] + 1)
    BY <1>5
  <1>16. Len(chunks) = m
    <2>1. \A S : chunks \in [1 .. m -> S] => chunks \in Seq(S) /\ Len(chunks) = m
      BY <1>4
    <2>2. chunks \in [1 .. m -> {Stream!Chunk(c, sent.calls[c] + 1) : c \in 1 .. m}]
      OBVIOUS
    <2> HIDE DEF chunks
    <2> QED BY <2>1, <2>2
  <1> HIDE DEF chunks
  <1>17. DOMAIN at = 1 .. m /\ \A n \in Tools : at[n] = n - 1
    <2>1. at = [n \in 1 .. m |-> Stream!Place(acc.calls, chunks[n], n - 1, Len(chunks) > 1)]
      BY <1>15 DEF Stream!PlacesOf
    <2>2. (Len(chunks) > 1) = many
      BY <1>12, <1>16
    <2>3. at = [n \in 1 .. m |-> Stream!Place(acc.calls, chunks[n], n - 1, many)]
      BY <2>1, <2>2
    <2> HIDE DEF at
    <2>4. ASSUME NEW n \in Tools
          PROVE  at[n] = n - 1
      <3>1. at[n] = Stream!Place(acc.calls, chunks[n], n - 1, many)
        BY <1>5, <2>3
      <3>2. at[n] = PositionOf(n, many)
        BY <1>15, <3>1 DEF PositionOf
      <3> QED BY <1>13, <3>2
    <2> QED BY <2>3, <2>4
  <1> HIDE DEF at
  <1>18. Stream!Range(at) = 0 .. m - 1
    <2>1. \A y : y \in Stream!Range(at) <=> \E n \in DOMAIN at : y = at[n]
      BY DEF Stream!Range
    <2>2. \A y : (\E n \in 1 .. m : y = n - 1) <=> y \in 0 .. m - 1
      <3>1. \A y \in 0 .. m - 1 : y + 1 \in 1 .. m /\ y = (y + 1) - 1
        BY <1>4
      <3>2. \A n \in 1 .. m : n - 1 \in 0 .. m - 1
        BY <1>4
      <3> QED BY <3>1, <3>2
    <2>3. \A y : y \in Stream!Range(at) <=> \E n \in 1 .. m : y = n - 1
      BY <1>5, <1>17, <2>1
    <2>4. \A y : y \in Stream!Range(at) <=> y \in 0 .. m - 1
      BY <2>2, <2>3
    <2> QED BY <2>4
  <1>19. D \cup (0 .. m - 1) = 0 .. m - 1
    BY <1>14
  <1>20. v = [i \in 0 .. m - 1 |-> PartOf(i + 1, z[i + 1])]
    <2> DEFINE f(i) == IF i \in Stream!Range(at)
                       THEN Stream!Merged(Stream!At(acc.calls, i), chunks[CHOOSE n \in DOMAIN chunks : at[n] = i])
                       ELSE acc.calls[i]
               g(i) == PartOf(i + 1, z[i + 1])
    <2>1. v = [i \in D \cup Stream!Range(at) |-> f(i)]
      BY DEF Stream!Fed, at
    <2>2. v = [i \in 0 .. m - 1 |-> f(i)]
      <3> HIDE DEF f, v
      <3> QED BY <1>18, <1>19, <2>1
    <2>3. \A i \in 0 .. m - 1 : f(i) = g(i)
      <3> SUFFICES ASSUME NEW i \in 0 .. m - 1
                   PROVE  f(i) = g(i)
        OBVIOUS
      <3>1. PICK n : n = i + 1
        OBVIOUS
      <3>2. n \in Tools /\ i = n - 1 /\ n \in 1 .. m
        BY <1>4, <1>5, <3>1
      <3>3. (CHOOSE j \in DOMAIN chunks : at[j] = i) = n
        <4>1. n \in DOMAIN chunks /\ at[n] = i
          BY <1>15, <1>17, <3>2
        <4>2. \A j \in DOMAIN chunks : at[j] = i => j = n
          BY <1>4, <1>5, <1>15, <1>17, <3>2
        <4> QED BY <4>1, <4>2
      <3>4. f(i) = Stream!Merged(Stream!At(acc.calls, i), chunks[n])
        BY <1>18, <3>3
      <3>5. Stream!At(acc.calls, i) = PartOf(n, sent.calls[n]) /\ chunks[n] = Stream!Chunk(n, sent.calls[n] + 1)
        BY <1>13, <1>15, <3>2
      <3>6. sent.calls[n] \in Nat
        BY <1>3, <3>2
      <3>7. Stream!Merged(PartOf(n, sent.calls[n]), Stream!Chunk(n, sent.calls[n] + 1)) = PartOf(n, sent.calls[n] + 1)
        BY <1>2, <3>2, <3>6, OneMore
      <3>8. z[n] = sent.calls[n] + 1
        BY <1>9, <3>2
      <3>9. g(i) = PartOf(n, z[n])
        BY <3>1
      <3> HIDE DEF f, g
      <3> QED BY <3>4, <3>5, <3>7, <3>8, <3>9
    <2> HIDE DEF f, g, v
    <2>4. v = [i \in 0 .. m - 1 |-> g(i)]
      BY <2>2, <2>3
    <2> QED BY <2>4 DEF g
  <1> HIDE DEF v
  <1>21. DOMAIN v = 0 .. m - 1 /\ DOMAIN v \subseteq Nat
    BY <1>4, <1>20
  <1>22. acc'.calls = v /\ stream' = stream /\ StreamTyped' /\ Texts' /\ Finished'
    BY <1>1, <1>6, <1>10, <1>21, ChunkKeeps
  <1>23. Tools' = Tools /\ ~Stream!Blocks'
    BY <1>2, <1>22 DEF Tools, Stream!Blocks
  <1>24. Begun' = 1 .. m
    <2>1. Begun' = {d \in Tools : z[d] > 0}
      BY <1>10, <1>23 DEF Begun
    <2> QED BY <1>5, <1>9, <2>1
  <1>25. PICK o : o = [i \in 0 .. m - 1 |-> i + 1]
    OBVIOUS
  <1>26. OwnedBy(o)'
    <2>1. o \in [0 .. m - 1 -> 1 .. m] /\ \A i \in 0 .. m - 1 : o[i] = i + 1
      BY <1>4, <1>25
    <2>2. \A i, j \in 0 .. m - 1 : o[i] = o[j] => i = j
      BY <1>4, <2>1
    <2>3. \A d \in 1 .. m : \E i \in 0 .. m - 1 : o[i] = d
      <3>1. \A d \in 1 .. m : d - 1 \in 0 .. m - 1 /\ o[d - 1] = d
        BY <1>4, <2>1
      <3> QED BY <3>1
    <2>4. \A d, n : PartOf(d, n)' = PartOf(d, n)
      BY <1>22 DEF PartOf, Got
    <2>5. v = [i \in 0 .. m - 1 |-> PartOf(o[i], z[o[i]])]
      BY <1>20, <2>1
    <2>6. acc'.calls = [i \in DOMAIN acc'.calls |-> PartOf(o[i], sent'.calls[o[i]])]
      BY <1>10, <1>21, <1>22, <2>5
    <2>7. DOMAIN acc'.calls = 0 .. m - 1 /\ stream'.style.by # "id"
      BY <1>1, <1>21, <1>22
    <2> HIDE DEF D, m
    <2> QED BY <1>24, <2>1, <2>2, <2>3, <2>4, <2>6, <2>7 DEF OwnedBy
  <1>27. Owned'
    BY <1>26 DEF Owned, OwnedBy
  <1>28. InTurn'
    BY <1>1, <1>9, <1>10, <1>22, <1>23 DEF InTurn
  <1>29. InBlocks'
    BY <1>23 DEF InBlocks
  <1> QED BY <1>22, <1>27, <1>28, <1>29 DEF StreamInv

-----------------------------------------------------------------------------
(* The invariant, and what a finished answer holds.                        *)

AssemblyInv == subject = "stream" => StreamInv

\* Each step of the stream keeps its invariant; what moves another client leaves it
\* alone.
LEMMA AssemblyStep ==
    ASSUME AssemblyInv, [RemoteNext]_allVars
    PROVE  AssemblyInv'
  <1>1. ASSUME subject = "stream", Stream!Next
        PROVE  StreamInv'
    <2> USE <1>1
    <2>1. StreamInv
      BY DEF AssemblyInv
    <2>2. ASSUME NEW c \in Stream!Calls, Stream!CallChunk(c)
          PROVE  StreamInv'
      BY <2>1, <2>2, CallKeeps
    <2>3. ASSUME NEW c \in Stream!Calls, Stream!BlockStarts(c) \/ Stream!BlockChunk(c)
          PROVE  StreamInv'
      BY <2>1, <2>3, BlockKeeps
    <2>4. ASSUME Stream!ArrayChunk
          PROVE  StreamInv'
      BY <2>1, <2>4, ArrayKeeps
    <2>5. ASSUME Stream!Text
          PROVE  StreamInv'
      BY <2>1, <2>5, TextKeeps
    <2>6. ASSUME Stream!Thought
          PROVE  StreamInv'
      BY <2>1, <2>6, ThoughtKeeps
    <2>7. ASSUME Stream!Finish
          PROVE  StreamInv'
      BY <2>1, <2>7, FinishKeeps
    <2>8. ASSUME Stream!Done \/ Stream!Truncated \/ Stream!Fails \/ Stream!Result
          PROVE  StreamInv'
      BY <2>1, <2>8, EndKeeps
    <2> QED BY <2>2, <2>3, <2>4, <2>5, <2>6, <2>7, <2>8 DEF Stream!Next
  <1>2. ASSUME stream' = stream, sent' = sent, acc' = acc, phase' = phase, reply' = reply, StreamInv
        PROVE  StreamInv'
    <2>1. StreamTyped'
      BY <1>2 DEF StreamInv, StreamTyped, Stream!TypeOK
    <2>2. Owned' /\ InBlocks' /\ InTurn'
      BY <1>2, CallsStay DEF StreamInv
    <2>3. Texts'
      BY <1>2 DEF StreamInv, Texts, Stream!Blocks
    <2>4. Stream!AllSent' = Stream!AllSent
      BY <1>2 DEF Stream!AllSent, Stream!Pending
    <2>5. Finished'
      BY <1>2, <2>4 DEF StreamInv, Finished
    <2> QED BY <2>1, <2>2, <2>3, <2>5 DEF StreamInv
  <1>3. /\ subject' = subject
        /\ \/ subject = "stream" /\ Stream!Next
           \/ stream' = stream /\ sent' = sent /\ acc' = acc /\ phase' = phase /\ reply' = reply
    BY DEF RemoteNext, allVars, assembly
  <1> QED BY <1>1, <1>2, <1>3 DEF AssemblyInv

\* The invariant of the stream holds in every behaviour of the clients.
THEOREM AssemblyInvariance == RemoteSpec => []AssemblyInv
  <1>1. RemoteInit => AssemblyInv
    BY StreamStarts DEF RemoteInit, AssemblyInv
  <1>2. AssemblyInv /\ [RemoteNext]_allVars => AssemblyInv'
    BY AssemblyStep
  <1> QED BY <1>1, <1>2, PTL DEF RemoteSpec

\* When everything was sent, what was received of each call is the call.
LEMMA WholeCalls ==
    ASSUME StreamInv, Stream!AllSent
    PROVE  /\ Stream!Cardinality(DOMAIN acc.calls) = stream.calls
           /\ {acc.calls[i] : i \in DOMAIN acc.calls} = {Stream!Sent(c) : c \in 1 .. stream.calls}
  <1> DEFINE D == DOMAIN acc.calls
  <1>1. /\ \A c \in Tools : c \in Nat /\ c >= 1 /\ sent.calls[c] \in Nat /\ sent.calls[c] <= Pieces
        /\ Tools \subseteq Stream!Calls /\ Pieces \in Nat /\ Pieces > 0
        /\ stream.calls \in 0 .. MaxTools /\ MaxTools \in Nat
        /\ stream.style.ids \in {"cut", "always", "once"}
        /\ stream.style.sigs \in {"none", "cut", "grown", "always"}
    BY AStyle DEF StreamInv
  <1>2. \A c \in Tools : sent.calls[c] = Pieces
    <2> SUFFICES ASSUME NEW c \in Tools
                 PROVE  sent.calls[c] = Pieces
      OBVIOUS
    <2>1. ~Stream!Pending(c) /\ c <= stream.calls
      BY <1>1 DEF Stream!AllSent, Tools
    <2> QED BY <1>1, <2>1 DEF Stream!Pending
  <1>3. Begun = Tools
    BY <1>1, <1>2 DEF Begun
  <1>4. IsFiniteSet(Tools) /\ Cardinality(Tools) = stream.calls
    <2>1. 1 \in Int /\ stream.calls \in Int /\ (IF 1 > stream.calls THEN 0 ELSE stream.calls - 1 + 1) = stream.calls
      BY <1>1
    <2> QED BY <2>1, FS_Interval DEF Tools
  <1>5. \A c : Stream!Whole(c) = Opening(c, Pieces)
    BY DEF Stream!Whole, Opening
  <1>6. ASSUME ~Stream!Blocks, NEW c \in Tools
        PROVE  PartOf(c, Pieces) = Stream!Sent(c)
    <2>1. \A m \in {"cut", "always", "once", "grown"} : Got(c, Pieces, m) = Opening(c, Pieces)
      BY <1>1 DEF Got
    <2>2. Got(c, Pieces, "none") = <<>>
      BY DEF Got
    <2>3. Got(c, Pieces, stream.style.ids) = Opening(c, Pieces)
      BY <1>1, <2>1
    <2>4. Got(c, Pieces, stream.style.sigs) = IF stream.style.sigs = "none" THEN <<>> ELSE Opening(c, Pieces)
      BY <1>1, <2>1, <2>2
    <2> QED BY <1>5, <1>6, <2>3, <2>4 DEF PartOf, Stream!Sent
  <1>7. Stream!Cardinality(D) = Cardinality(D)
    BY DEF Stream!Cardinality, Cardinality, Stream!IsFiniteSet, IsFiniteSet
  <1>8. CASE ~Stream!Blocks
    <2>1. PICK own : OwnedBy(own)
      BY <1>8 DEF StreamInv, Owned
    <2>2. /\ own \in [D -> Tools]
          /\ \A i, j \in D : own[i] = own[j] => i = j
          /\ \A c \in Tools : \E i \in D : own[i] = c
      BY <1>3, <2>1 DEF OwnedBy
    <2>3. \A i \in D : acc.calls[i] = Stream!Sent(own[i])
      <3> SUFFICES ASSUME NEW i \in D
                   PROVE  acc.calls[i] = Stream!Sent(own[i])
        OBVIOUS
      <3>1. acc.calls[i] = PartOf(own[i], sent.calls[own[i]])
        BY <2>1 DEF OwnedBy
      <3>2. own[i] \in Tools
        BY <2>2
      <3> QED BY <1>2, <1>6, <1>8, <3>1, <3>2
    <2>4. own \in Bijection(D, Tools)
      BY <2>2, Fun_IsBij
    <2>5. ExistsBijection(Tools, D)
      BY <2>4, Fun_ExistsBij, Fun_ExistsBijSymmetric
    <2>6. Cardinality(D) = stream.calls
      BY <1>4, <2>5, FS_Bijection
    <2>7. {acc.calls[i] : i \in D} = {Stream!Sent(c) : c \in Tools}
      <3>1. \A i \in D : own[i] \in Tools /\ acc.calls[i] = Stream!Sent(own[i])
        BY <2>2, <2>3
      <3>2. \A c \in Tools : \E i \in D : acc.calls[i] = Stream!Sent(c)
        BY <2>2, <2>3
      <3> HIDE DEF D
      <3> QED BY <3>1, <3>2
    <2> QED BY <1>7, <2>6, <2>7 DEF Tools
  <1>9. CASE Stream!Blocks
    <2>1. /\ D \subseteq Tools /\ Begun \subseteq D
          /\ acc.calls = [c \in D |-> [id |-> Opening(c, Pieces), args |-> Opening(c, sent.calls[c]), sig |-> <<>>]]
      BY <1>9 DEF StreamInv, InBlocks
    <2>2. D = Tools
      BY <1>3, <2>1
    <2>3. \A c \in Tools : acc.calls[c] = Stream!Sent(c)
      <3> SUFFICES ASSUME NEW c \in Tools
                   PROVE  acc.calls[c] = Stream!Sent(c)
        OBVIOUS
      <3>1. acc.calls[c] = [id |-> Opening(c, Pieces), args |-> Opening(c, sent.calls[c]), sig |-> <<>>]
        BY <2>1, <2>2
      <3> QED BY <1>2, <1>5, <1>9, <3>1 DEF Stream!Sent
    <2>4. {acc.calls[i] : i \in Tools} = {Stream!Sent(c) : c \in Tools}
      BY <2>3
    <2> QED BY <1>4, <1>7, <2>2, <2>4 DEF Tools
  <1> QED BY <1>8, <1>9

\* However the provider cut its answer, and in whatever order the chunks came, the
\* finished answer that is returned holds each call once and whole, the text, and the
\* thought of an answer with calls (deepseek.py _StreamAccumulator and
\* _AnthropicStreamAccumulator).
THEOREM AssemblyIsWhole == RemoteSpec => []AssembledIsSent
  <1>1. AssemblyInv => AssembledIsSent
    <2> SUFFICES ASSUME StreamInv
                 PROVE  Stream!TypeOK /\ Stream!AssembledIsSent
      BY DEF AssemblyInv, AssembledIsSent
    <2>1. Stream!TypeOK
      BY DEF StreamInv, StreamTyped
    <2>2. ASSUME phase = "returned", reply.finish
          PROVE  /\ Stream!Cardinality(DOMAIN reply.calls) = stream.calls
                 /\ {reply.calls[i] : i \in DOMAIN reply.calls} = {Stream!Sent(c) : c \in 1 .. stream.calls}
                 /\ reply.text = Stream!Whole(0)
                 /\ stream.calls > 0 => reply.thought = Stream!Whole(0)
                 /\ Stream!Blocks => reply.thoughtSig = Stream!Whole(0)
      <3>1. reply = [acc EXCEPT !.thought = IF DOMAIN acc.calls = {} THEN <<>> ELSE @]
        BY <2>2 DEF StreamInv, Finished
      <3>2. /\ reply.calls = acc.calls /\ reply.text = acc.text /\ reply.thoughtSig = acc.thoughtSig
            /\ reply.finish = acc.finish /\ (DOMAIN acc.calls # {} => reply.thought = acc.thought)
        <4>1. acc = Accumulator(acc.calls, acc.text, acc.thought, acc.thoughtSig, acc.events, acc.finish)
          BY DEF StreamInv, StreamTyped, Accumulator
        <4>2. reply = Accumulator(acc.calls, acc.text, IF DOMAIN acc.calls = {} THEN <<>> ELSE acc.thought,
                                  acc.thoughtSig, acc.events, acc.finish)
          <5> DEFINE v == IF DOMAIN acc.calls = {} THEN <<>> ELSE acc.thought
          <5>1. reply = [acc EXCEPT !.thought = v]
            BY <3>1
          <5>2. ASSUME NEW a, NEW c, NEW t, NEW h, NEW s, NEW e, NEW f, NEW w, a = Accumulator(c, t, h, s, e, f)
                PROVE  [a EXCEPT !.thought = w] = Accumulator(c, t, w, s, e, f)
            BY <5>2 DEF Accumulator
          <5> HIDE DEF v
          <5>3. reply = Accumulator(acc.calls, acc.text, v, acc.thoughtSig, acc.events, acc.finish)
            BY <4>1, <5>1, <5>2
          <5> QED BY <5>3 DEF v
        <4> QED BY <4>2 DEF Accumulator
      <3>3. Stream!AllSent
        BY <2>2, <3>2 DEF StreamInv, Finished
      <3>4. /\ Stream!Cardinality(DOMAIN acc.calls) = stream.calls
            /\ {acc.calls[i] : i \in DOMAIN acc.calls} = {Stream!Sent(c) : c \in 1 .. stream.calls}
        BY <3>3, WholeCalls
      <3>5. sent.text = Pieces /\ sent.thought = Pieces
        BY <3>3 DEF Stream!AllSent
      <3>6. Stream!Whole(0) = Opening(0, Pieces)
        BY DEF Stream!Whole, Opening
      <3>7. /\ reply.text = Stream!Whole(0) /\ acc.thought = Stream!Whole(0)
            /\ Stream!Blocks => reply.thoughtSig = Stream!Whole(0)
        BY <3>2, <3>5, <3>6 DEF StreamInv, Texts
      <3>8. stream.calls > 0 => DOMAIN acc.calls # {}
        <4>1. Stream!Cardinality({}) = 0
          <5>1. Stream!Cardinality({}) = Cardinality({})
            BY DEF Stream!Cardinality, Cardinality, Stream!IsFiniteSet, IsFiniteSet
          <5> QED BY <5>1, FS_EmptySet
        <4> SUFFICES ASSUME stream.calls > 0, DOMAIN acc.calls = {}
                     PROVE  FALSE
          OBVIOUS
        <4>2. stream.calls = 0
          BY <3>4, <4>1
        <4> QED BY <4>2
      <3> QED BY <3>2, <3>4, <3>7, <3>8
    <2> QED BY <2>1, <2>2 DEF Stream!AssembledIsSent
  <1> QED BY <1>1, AssemblyInvariance, PTL

=============================================================================
