--------------------------- MODULE AgentLoopProofs ---------------------------
(***************************************************************************)
(* What a run of an agent promises (AgentLoop), for every set of tasks,    *)
(* every budget and every sequence of calls a provider may come up with.   *)
(*                                                                         *)
(* The inductive invariant says of each place where the worker awaits what *)
(* the conversation looks like there: between requests every call has its  *)
(* result (Conversing), while calls are taken one by one the last reply is *)
(* open and the batch is the rest of its calls (Calling).  From this the   *)
(* call at a gate, the call a person approved and the call that runs are   *)
(* the same call (Gated, Executed).  Conversations are sequences of any    *)
(* length, so the lemmas about Append, Front and \o come first.            *)
(***************************************************************************)
EXTENDS AgentLoop, SequenceTheorems, TLAPS

-----------------------------------------------------------------------------
(* The inductive invariant.                                                *)

\* What a checkpoint tells of n follow-ups, and the archives it names.
Checkpoint(n) == [told : SUBSET (1 .. n), archives : SUBSET (SUBSET (1 .. n))]

\* The messages of a run with n follow-ups, by what they refer to.
AnyMessage(n) ==
    [role : {"system", "user"}, ref : {0}] \cup [role : {"checkpoint"}, ref : Checkpoint(n)] \cup [role : {"followup"}, ref : 1 .. n]
    \cup [role : {"assistant"}, ref : Seq(Call)] \cup [role : {"note"}, ref : {"slides"}]
    \cup [role : {"tool"}, ref : [call : Call, ok : BOOLEAN]]

Gate == [kind : {"approval", "human"}, call : Call, taken : BOOLEAN, answer : BOOLEAN \cup {None}]

\* An entry of the log.
Entry == [call : Call, end : Ends \cup {"denied"}]

\* The types of the variables.
Typed ==
    /\ task \in Tasks /\ pc \in Waiting
    /\ status \in {"queued", "running", "waiting", "waiting_user", "completed", "failed", "cancelled"}
    /\ messages \in Seq(AnyMessage(task.followUps))
    /\ ledger \subseteq 1 .. task.followUps /\ applied \subseteq 1 .. task.followUps
    /\ archives \subseteq SUBSET (1 .. task.followUps)
    /\ batch \in Seq(Call) /\ seen \subseteq Kind /\ queue \in Seq(1 .. task.followUps)
    /\ preview \in [verified : BOOLEAN, failed : BOOLEAN]
    /\ gate = None \/ gate \in Gate
    /\ stop \in BOOLEAN
    /\ used \in [turns : Nat, sent : 0 .. task.followUps, compactions : Nat, report : BOOLEAN]
    /\ log \in Seq(Entry)

\* The budgets of the host's recoveries: one that is overdrawn ends the run.
Budgeted ==
    /\ tries \in [empty : 0 .. Attempts + 1, json : 0 .. Attempts + 1, functions : 0 .. Attempts + 1,
                  total : 0 .. TotalAttempts, output : 0 .. OutputAttempts + 1,
                  preview : 0 .. OutputAttempts + 1]
    /\ pc \notin {"failing", "cleanup", "done"} =>
          /\ tries.empty <= Attempts /\ tries.json <= Attempts /\ tries.functions <= Attempts
          /\ tries.output <= OutputAttempts /\ tries.preview <= OutputAttempts

Talking == {"propose", "advise", "decide", "top", "chat", "retry"}
Turning == {"call", "offered", "asked", "handed", "run"}

\* The first n messages answer each other: the results of a reply follow it,
\* and belong to it.
Paired(ms, n) ==
    /\ \A i \in 1 .. n : ms[i].role = "assistant" =>
          \A j \in 1 .. Len(ms[i].ref) :
              i + j <= n /\ ms[i + j].role = "tool" /\ ms[i + j].ref.call = ms[i].ref[j]
    /\ \A i \in 1 .. n : ms[i].role = "tool" =>
          \E j \in 1 .. i - 1 : ms[j].role = "assistant" /\ i <= j + Len(ms[j].ref)

\* The reply at i is being answered: its results so far, its calls still to come.
Open(ms, b, i) ==
    /\ i \in 1 .. Len(ms) /\ ms[i].role = "assistant"
    /\ Paired(ms, i - 1)
    /\ Len(ms[i].ref) = Len(ms) - i + Len(b)
    /\ \A j \in 1 .. Len(ms) - i : ms[i + j].role = "tool" /\ ms[i + j].ref.call = ms[i].ref[j]
    /\ \A j \in 1 .. Len(b) : b[j] = ms[i].ref[Len(ms) - i + j]

\* A conversation as a provider takes it: compaction keeps its first message.
Conversing(ms) == ms # <<>> /\ ms[1].role = "system" /\ Paired(ms, Len(ms))

\* An open reply and those before it, with the turn of its calls.
Calling(ms, b, turn) ==
    /\ ms # <<>> /\ ms[1].role = "system"
    /\ \E i \in 1 .. Len(ms) : Open(ms, b, i) /\ \A j \in 1 .. Len(ms[i].ref) : ms[i].ref[j].turn = turn

\* The conversation at each place of the run.
Shape ==
    /\ pc = "setup" => messages = <<>> /\ applied = {}
    /\ pc \in Talking => Conversing(messages)
    /\ pc = "retry" => messages[Len(messages)].role = "assistant"
    /\ pc \in Turning => Calling(messages, batch, used.turns)
    /\ pc \in Turning \ {"call"} => batch # <<>>

\* The request a gate holds is the call under way, and an answer that lets it
\* go on is an approval of this call.
Gated ==
    /\ gate # None => pc \in {"asked", "handed"}
    /\ pc \in {"asked", "handed"} =>
          /\ gate \in Gate /\ gate.call = NextCall
          /\ gate.answer # None /\ gate.answer => gate.call \in granted
    /\ pc = "asked" => gate.kind = "approval"
    /\ pc = "handed" => gate.kind = "human"

\* The calls of the last reply among messages.
CallsOf(ms) == LET i == CHOOSE i \in DOMAIN ms : ms[i].role = "assistant"
                          /\ \A j \in i + 1 .. Len(ms) : ms[j].role # "assistant"
               IN ToSet(ms[i].ref)

\* What lets the tool of a call run in the reply under way: the reply is not
\* mixed, and the call is a delegation or the first of its kind.
Admitted(c) == /\ ~MixedBatch
               /\ c.kind = "delegate" \/ c.kind \in seen
               /\ task.planner => Risk(c.kind) = "safe"

\* The calls executed in the reply under way were admitted, each but a
\* delegation the first of its kind, and so is the call that is about to run.
Executed ==
    /\ ExecutedOnlyIfAllowed
    /\ \A i \in DOMAIN log : log[i].call.turn <= used.turns
    /\ pc \in Turning => \A i \in DOMAIN log : log[i].call.turn = used.turns =>
          log[i].call \in CurrentCalls /\ Admitted(log[i].call)
    /\ pc \in {"asked", "run"} =>
          /\ Admitted(NextCall)
          /\ \A i \in DOMAIN log : log[i].call.turn = used.turns /\ log[i].call.kind = NextCall.kind
                => NextCall.kind = "delegate"
    /\ pc = "run" /\ Required(NextCall.kind) => NextCall \in granted

\* After the last change of the files the browser showed the page, failed or
\* was denied.
Tested == \E i \in DOMAIN log :
             /\ log[i].call.kind \in Browsing /\ log[i].end # "ok"
             /\ \A j \in i .. Len(log) : ~(log[j].call.kind = "write" /\ log[j].end = "ok")

\* What the loop remembers of the preview is true, and it completes a page only
\* by what it remembers, or by the change of a setting.
Previewed ==
    /\ preview.verified \/ preview.failed => Tested
    /\ (pc = "final" \/ status = "completed") /\ task.page /\ ~task.planner
          => Tested \/ \E i \in DOMAIN log : log[i].call.kind = "settings"
    /\ status = "completed" => pc \in {"closing", "cleanup", "done"}

\* The checkpoints among messages name archives that were written.
Named(ms, as) == \A i \in DOMAIN ms : ms[i].role = "checkpoint" => ms[i].ref.archives \subseteq as

\* The inductive invariant.
IInv == /\ Typed /\ Budgeted /\ Shape /\ Gated
        /\ FollowUpsKept /\ Named(messages, archives) /\ Executed /\ Previewed

-----------------------------------------------------------------------------
(* Sequences.                                                              *)

\* A sequence without its last element.
LEMMA FrontIs ==
    ASSUME NEW S, NEW s \in Seq(S), s # <<>>
    PROVE  /\ Len(s) \in Nat \ {0}
           /\ Front(s) \in Seq(S) /\ Len(Front(s)) = Len(s) - 1
           /\ \A i \in 1 .. Len(s) - 1 : Front(s)[i] = s[i]
<1> DEFINE n == Len(s) - 1
<1>1. Len(s) \in Nat \ {0} /\ n \in Int /\ n >= 0
  BY EmptySeq
<1>2. Front(s) = SubSeq(s, 1, n)
  BY DEF Front
<1>3. \A i \in 1 .. n : s[i] \in S
  BY <1>1
<1> HIDE DEF n
<1>4. /\ SubSeq(s, 1, n) \in Seq(S)
      /\ Len(SubSeq(s, 1, n)) = IF 1 <= n THEN n-1+1 ELSE 0
      /\ \A i \in 1 .. n-1+1 : SubSeq(s, 1, n)[i] = s[1+i-1]
  BY <1>1, <1>3, SubSeqProperties, Z3
<1>5. /\ Len(Front(s)) = n /\ Front(s) \in Seq(S)
      /\ \A i \in 1 .. n : Front(s)[i] = s[i]
  BY <1>1, <1>2, <1>4
<1>6. QED
  BY <1>1, <1>5 DEF n


\* The elements of two sequences put together.
LEMMA ConcatIs ==
    ASSUME NEW S, NEW s1 \in Seq(S), NEW s2 \in Seq(S)
    PROVE  /\ s1 \o s2 \in Seq(S)
           /\ Len(s1 \o s2) = Len(s1) + Len(s2)
           /\ \A i \in 1 .. Len(s1) : (s1 \o s2)[i] = s1[i]
           /\ \A i \in 1 .. Len(s2) : (s1 \o s2)[Len(s1) + i] = s2[i]
OBVIOUS

\* The elements of a sequence.
LEMMA ElementsOf ==
    ASSUME NEW S, NEW s \in Seq(S)
    PROVE  ToSet(s) \subseteq S
<1>1. DOMAIN s = 1 .. Len(s) /\ \A i \in 1 .. Len(s) : s[i] \in S
  BY LenProperties
<1>2. QED
  BY <1>1 DEF ToSet

\* What the kinds of messages look like.
LEMMA MessageTypes ==
    ASSUME NEW n \in Nat
    PROVE  /\ Message("system", 0) \in AnyMessage(n) /\ Message("user", 0) \in AnyMessage(n)
           /\ \A c \in Checkpoint(n) : Message("checkpoint", c) \in AnyMessage(n)
           /\ Message("note", "slides") \in AnyMessage(n)
           /\ \A f \in 1 .. n : Message("followup", f) \in AnyMessage(n)
           /\ \A calls \in Seq(Call) : Message("assistant", calls) \in AnyMessage(n)
           /\ \A c \in Call, ok \in BOOLEAN : Result(c, ok) \in AnyMessage(n)
BY DEF Message, Result, AnyMessage

\* The follow-ups taken from a queue, as messages.
LEMMA FollowUpsType ==
    ASSUME NEW n \in Nat, NEW q \in Seq(1 .. n)
    PROVE  /\ [i \in DOMAIN q |-> Message("followup", q[i])] \in Seq(AnyMessage(n))
           /\ Len([i \in DOMAIN q |-> Message("followup", q[i])]) = Len(q)
<1> DEFINE fs == [i \in DOMAIN q |-> Message("followup", q[i])]
<1>1. DOMAIN q = 1 .. Len(q) /\ Len(q) \in Nat
  BY LenProperties
<1>2. fs \in [1 .. Len(q) -> AnyMessage(n)]
  BY <1>1, MessageTypes
<1> HIDE DEF fs
<1>3. fs \in Seq(AnyMessage(n)) /\ Len(fs) = Len(q)
  BY <1>1, <1>2
<1>4. QED
  BY <1>3 DEF fs

\* A conversation with the follow-ups of a queue at its end.
Joined(ms, q) == ms \o [i \in DOMAIN q |-> Message("followup", q[i])]

\* The conversation, and after it the follow-ups.
LEMMA JoinedIs ==
    ASSUME NEW n \in Nat, NEW ms \in Seq(AnyMessage(n)), NEW q \in Seq(1 .. n)
    PROVE  /\ Len(ms) \in Nat /\ Len(q) \in Nat
           /\ Joined(ms, q) \in Seq(AnyMessage(n))
           /\ Len(Joined(ms, q)) = Len(ms) + Len(q)
           /\ \A i \in 1 .. Len(ms) : Joined(ms, q)[i] = ms[i]
           /\ \A i \in 1 .. Len(q) : Joined(ms, q)[Len(ms) + i] = Message("followup", q[i])
<1> DEFINE fs == [i \in DOMAIN q |-> Message("followup", q[i])]
<1>1. /\ fs \in Seq(AnyMessage(n)) /\ Len(fs) = Len(q) /\ DOMAIN q = 1 .. Len(q)
      /\ \A i \in 1 .. Len(q) : fs[i] = Message("followup", q[i])
  BY FollowUpsType, LenProperties
<1>2. Joined(ms, q) = ms \o fs
  BY DEF Joined
<1>3. Len(ms) \in Nat /\ Len(q) \in Nat
  BY LenProperties
<1> HIDE DEF fs
<1>4. /\ ms \o fs \in Seq(AnyMessage(n))
      /\ Len(ms \o fs) = Len(ms) + Len(fs)
      /\ \A i \in 1 .. Len(ms) : (ms \o fs)[i] = ms[i]
      /\ \A i \in 1 .. Len(fs) : (ms \o fs)[Len(ms) + i] = fs[i]
  <2> DEFINE S == AnyMessage(n)
  <2>1. fs \in Seq(S) /\ ms \in Seq(S)
    BY <1>1
  <2> HIDE DEF S
  <2>2. /\ ms \o fs \in Seq(S) /\ Len(ms \o fs) = Len(ms) + Len(fs)
        /\ \A i \in 1 .. Len(ms) : (ms \o fs)[i] = ms[i]
        /\ \A i \in 1 .. Len(fs) : (ms \o fs)[Len(ms) + i] = fs[i]
    BY <2>1, ConcatIs
  <2>3. QED
    BY <2>2 DEF S
<1>5. QED
  BY <1>1, <1>2, <1>3, <1>4

-----------------------------------------------------------------------------
(* Type correctness.                                                       *)

\* What the fields of a task are.
LEMMA TaskIs ==
    ASSUME Typed
    PROVE  /\ task.followUps \in Nat /\ task.planner \in BOOLEAN /\ task.mobile \in BOOLEAN
           /\ task.contract \in {"none", "json", "functions"}
           /\ \A kinds \in task.batches : kinds \in Seq(Kind)
BY TaskAssumption DEF Typed, Task

\* The follow-ups among messages.
LEMMA FollowUpsOfType ==
    ASSUME NEW n \in Nat, NEW ms \in Seq(AnyMessage(n))
    PROVE  FollowUpsOf(ms) \subseteq 1 .. n
<1>1. \A i \in DOMAIN ms : ms[i].role = "followup" => ms[i].ref \in 1 .. n
  <2>1. \A m \in AnyMessage(n) : m.role = "followup" => m.ref \in 1 .. n
    BY DEF AnyMessage
  <2>2. QED
    BY <2>1
<1>2. QED
  BY <1>1 DEF FollowUpsOf

\* A compaction leaves the first message and a checkpoint that names all archives.
LEMMA CompactIs ==
    ASSUME Typed, NEW ms \in Seq(AnyMessage(task.followUps)), ms # <<>>, Compact(ms)
    PROVE  /\ ledger' \subseteq 1 .. task.followUps
           /\ archives' = archives \cup {FollowUpsOf(ms)} /\ archives' \subseteq SUBSET (1 .. task.followUps)
           /\ messages' \in Seq(AnyMessage(task.followUps))
           /\ \E c \in Checkpoint(task.followUps) :
                 c.archives = archives' /\ messages' = <<ms[1], Message("checkpoint", c)>>
<1> DEFINE n == task.followUps
<1>1. n \in Nat
  BY TaskIs
<1>2. PICK cut \in 0 .. n, hidden \in 0 .. n :
         /\ ledger' = {f \in ledger \cup FollowUpsOf(ms) : f > cut}
         /\ messages' = <<ms[1], Message("checkpoint", [told |-> {f \in ledger' : f > hidden},
                                                       archives |-> archives'])>>
  BY DEF Compact
<1>3. FollowUpsOf(ms) \subseteq 1 .. n
  BY <1>1, FollowUpsOfType
<1>4. ledger' \subseteq 1 .. n
  BY <1>2, <1>3 DEF Typed
<1>5. archives' = archives \cup {FollowUpsOf(ms)} /\ archives' \subseteq SUBSET (1 .. n)
  BY <1>3 DEF Typed, Compact, Archived
<1> DEFINE c == [told |-> {f \in ledger' : f > hidden}, archives |-> archives']
<1>6. c \in Checkpoint(n) /\ c.archives = archives' /\ messages' = <<ms[1], Message("checkpoint", c)>>
  BY <1>2, <1>4, <1>5 DEF Checkpoint
<1> HIDE DEF c
<1>7. ms[1] \in AnyMessage(n) /\ Message("checkpoint", c) \in AnyMessage(n)
  <2>1. 1 \in 1 .. Len(ms)
    BY LenProperties, EmptySeq
  <2> DEFINE S == AnyMessage(n)
  <2>2. ms \in Seq(S)
    OBVIOUS
  <2> HIDE DEF S
  <2>3. ms[1] \in S
    BY <2>1, <2>2
  <2>4. QED
    BY <1>1, <1>6, <2>3, MessageTypes DEF S
<1>8. messages' \in Seq(AnyMessage(n))
  BY <1>6, <1>7
<1>9. QED
  BY <1>4, <1>5, <1>6, <1>8

\* The calls of a reply.
LEMMA CallsType ==
    ASSUME NEW kinds \in Seq(Kind), NEW n \in Nat
    PROVE  /\ [i \in DOMAIN kinds |-> [turn |-> n, at |-> i, kind |-> kinds[i]]] \in Seq(Call)
           /\ Len([i \in DOMAIN kinds |-> [turn |-> n, at |-> i, kind |-> kinds[i]]]) = Len(kinds)
<1> DEFINE cs == [i \in DOMAIN kinds |-> [turn |-> n, at |-> i, kind |-> kinds[i]]]
<1>1. DOMAIN kinds = 1 .. Len(kinds) /\ Len(kinds) \in Nat
  BY LenProperties
<1>2. cs \in [1 .. Len(kinds) -> Call]
  BY <1>1 DEF Call
<1> HIDE DEF cs
<1>3. cs \in Seq(Call) /\ Len(cs) = Len(kinds)
  BY <1>1, <1>2
<1>4. QED
  BY <1>3 DEF cs

\* An answer appends a result and takes the call from the batch.
LEMMA AnsweredType ==
    ASSUME Typed, batch # <<>>, NEW ok \in BOOLEAN, Answered(ok)
    PROVE  /\ messages' \in Seq(AnyMessage(task.followUps))
           /\ batch' \in Seq(Call)
           /\ NextCall \in Call
<1>1. NextCall \in Call /\ Tail(batch) \in Seq(Call)
  BY HeadTailProperties DEF Typed, NextCall
<1>2. Result(NextCall, ok) \in AnyMessage(task.followUps)
  BY <1>1, MessageTypes, TaskIs
<1>3. QED
  BY <1>1, <1>2, AppendProperties DEF Typed, Answered

\* A message of the host or of the provider, without calls, keeps the types.
LEMMA SaidType ==
    ASSUME Typed
    PROVE  /\ Append(messages, Message("assistant", <<>>)) \in Seq(AnyMessage(task.followUps))
           /\ <<Message("system", 0), Message("user", 0)>> \in Seq(AnyMessage(task.followUps))
<1>1. <<>> \in Seq(Call)
  BY EmptySeq
<1>2. Message("assistant", <<>>) \in AnyMessage(task.followUps)
  BY <1>1, MessageTypes, TaskIs
<1>3. Append(messages, Message("assistant", <<>>)) \in Seq(AnyMessage(task.followUps))
  BY <1>2, AppendProperties DEF Typed
<1>4. /\ Message("system", 0) \in AnyMessage(task.followUps)
      /\ Message("user", 0) \in AnyMessage(task.followUps)
  BY TaskIs, MessageTypes
<1>5. QED
  BY <1>3, <1>4

\* An entry more in the log.
LEMMA EntryAdded ==
    ASSUME Typed, NEW c \in Call, NEW end \in Ends \cup {"denied"}
    PROVE  Append(log, [call |-> c, end |-> end]) \in Seq(Entry)
<1> DEFINE e == [call |-> c, end |-> end]
<1>1. e \in Entry
  BY DEF Entry
<1> HIDE DEF e
<1>2. QED
  BY <1>1, AppendProperties DEF Typed, e

\* The steps of the worker keep the types.
LEMMA WorkerTyped ==
    ASSUME Typed, Shape, Gated, Worker
    PROVE  Typed'
<1> DEFINE M == Seq(AnyMessage(task.followUps))
<1> USE DEF turnState, budgets, team, history
<1>1. CASE Setup \/ Propose \/ Decide \/ \E m \in Member : AskMember(m) \/ Advise(m)
  BY <1>1, SaidType DEF Setup, Started, Propose, Decide, AskMember, Advise, FailSetup, Works, Typed, Waiting
<1>2. CASE LoopHead
  <2>1. messages \in M /\ messages # <<>>
    BY <1>2 DEF LoopHead, Works, Typed, Shape, Talking, Conversing
  <2>2. /\ Drained \in M /\ Drained # <<>>
        /\ ToSet(queue) \subseteq 1 .. task.followUps
    <3>1. /\ Drained \in M /\ Len(Drained) = Len(messages) + Len(queue)
          /\ Len(messages) \in Nat /\ Len(queue) \in Nat
      BY <2>1, JoinedIs, TaskIs DEF Drained, Joined, Typed
    <3>2. Len(messages) # 0
      BY <2>1, EmptySeq
    <3>3. Drained # <<>>
      BY <3>1, <3>2
    <3>4. ToSet(queue) \subseteq 1 .. task.followUps
      BY ElementsOf DEF Typed
    <3>5. QED
      BY <3>1, <3>3, <3>4
  <2>3. /\ messages' \in M /\ ledger' \subseteq 1 .. task.followUps
        /\ archives' \subseteq SUBSET (1 .. task.followUps)
    <3>1. Compact(Drained) \/ (messages' = Drained /\ UNCHANGED <<ledger, archives>>)
      BY <1>2 DEF LoopHead, ArchiveFails
    <3>2. QED
      BY <2>2, <3>1, CompactIs DEF Typed
  <2>4. used' \in [turns : Nat, sent : 0 .. task.followUps, compactions : Nat, report : BOOLEAN]
    <3>1. PICK report \in {used.report, task.mobile} :
             \/ used' = [used EXCEPT !.report = report]
             \/ used' = [used EXCEPT !.compactions = @ + 1, !.report = report]
      BY <1>2 DEF LoopHead
    <3>2. report \in BOOLEAN
      BY <3>1, TaskIs DEF Typed
    <3> DEFINE u == [used EXCEPT !.compactions = @ + 1]
    <3>3. u \in [turns : Nat, sent : 0 .. task.followUps, compactions : Nat, report : BOOLEAN]
      <4>1. used \in [turns : Nat, sent : 0 .. task.followUps, compactions : Nat, report : BOOLEAN]
        BY DEF Typed
      <4>2. QED
        BY <4>1
    <3>4. used' = [used EXCEPT !.report = report] \/ used' = [u EXCEPT !.report = report]
      BY <3>1
    <3> HIDE DEF u
    <3>5. QED
      BY <3>2, <3>3, <3>4 DEF Typed
  <2>5. QED
    BY <1>2, <2>2, <2>3, <2>4 DEF LoopHead, Works, Typed, Waiting, Fail, ArchiveFails
<1>3. CASE Overflow
  <2>1. /\ messages' \in M /\ ledger' \subseteq 1 .. task.followUps
        /\ archives' \subseteq SUBSET (1 .. task.followUps)
    <3>1. messages # <<>>
      BY <1>3 DEF Overflow, Works, Shape, Talking, Conversing
    <3>2. Compact(messages) \/ UNCHANGED <<messages, ledger, archives>>
      BY <1>3 DEF Overflow, ArchiveFails
    <3>3. QED
      BY <3>1, <3>2, CompactIs DEF Typed
  <2>2. QED
    BY <1>3, <2>1 DEF Overflow, Works, Typed, Waiting, Fail, ArchiveFails
<1>4. CASE ProviderFails
  BY <1>4 DEF ProviderFails, Works, Typed, Waiting, Fail
<1>5. CASE AnswerOvertaken
  <2>1. Append(messages, Message("assistant", <<>>)) \in M
    BY SaidType
  <2>2. messages' \in M /\ ToSet(queue) \subseteq 1 .. task.followUps
    <3> DEFINE ms == Append(messages, Message("assistant", <<>>))
    <3>1. messages' = Joined(ms, queue)
      BY <1>5 DEF AnswerOvertaken, Joined
    <3> HIDE DEF ms
    <3>2. QED
      BY <2>1, <3>1, JoinedIs, TaskIs, ElementsOf DEF Typed, ms
  <2>3. QED
    BY <1>5, <2>2, EmptySeq DEF AnswerOvertaken, Works, Typed, Waiting
<1>6. ASSUME NEW text \in Texts, Text(text) PROVE Typed'
  <2>1. messages' \in M
    BY <1>6, SaidType DEF Text, Handoff, EmptyReply, BrokenContract, MissingArtifact, MissingPreview,
         BadSlides, Accept, Replied
  <2>2. UNCHANGED <<task, ledger, archives, batch, seen, queue, preview, gate, stop, used, history>>
    BY <1>6 DEF Text, Handoff, EmptyReply, BrokenContract, MissingArtifact, MissingPreview,
         BadSlides, Accept
  <2>3. status' \in {status, "failed"} /\ pc' \in {"top", "retry", "failing", "final"}
    BY <1>6 DEF Text, Handoff, EmptyReply, BrokenContract, MissingArtifact, MissingPreview,
         BadSlides, Accept, Recover, RetryOutput, Fail
  <2>4. QED
    BY <2>1, <2>2, <2>3 DEF Typed, Waiting
<1>7. CASE Retry
  <2>1. messages \in M /\ messages # <<>>
    BY <1>7 DEF Retry, Works, Typed, Shape, Talking, Conversing
  <2>2. Front(messages) \in M
    BY <2>1, FrontIs
  <2>3. \A ms \in M : Append(ms, Message("note", "slides")) \in M
    BY AppendProperties, MessageTypes, TaskIs
  <2>4. messages' \in M
    <3> DEFINE kept == IF plan.pop THEN Front(messages) ELSE messages
    <3>1. messages' = Append(kept, Message("note", "slides")) \/ messages' = kept
      BY <1>7 DEF Retry
    <3>2. kept \in M
      BY <2>1, <2>2
    <3> HIDE DEF kept
    <3>3. QED
      BY <2>3, <3>1, <3>2
  <2>5. QED
    BY <1>7, <2>4 DEF Retry, Works, Typed, Waiting
<1>8. CASE Complete \/ Close \/ ReportFailure \/ Cleanup
  BY <1>8 DEF Complete, Close, ReportFailure, Cleanup, Works, Typed, Waiting
<1>9. ASSUME NEW kinds \in task.batches, ToolReply(kinds) PROVE Typed'
  <2> DEFINE calls == [i \in DOMAIN kinds |-> [turn |-> used.turns + 1, at |-> i, kind |-> kinds[i]]]
  <2>1. calls \in Seq(Call)
    <3>1. used.turns + 1 \in Nat /\ kinds \in Seq(Kind)
      BY TaskIs DEF Typed
    <3>2. QED
      BY <3>1, CallsType
  <2>2. Append(messages, Message("assistant", calls)) \in M
    <3> HIDE DEF calls
    <3> QED BY <2>1, MessageTypes, TaskIs, AppendProperties DEF Typed
  <2>3. /\ messages' = Append(messages, Message("assistant", calls))
        /\ \/ batch' = calls /\ seen' = {}
           \/ batch' = batch /\ seen' = seen
        /\ pc' \in {"failing", "call"} /\ status' \in {status, "failed"}
        /\ UNCHANGED <<task, ledger, archives, queue, preview, plan, gate, stop, history>>
        /\ used' = [used EXCEPT !.turns = @ + 1]
    BY <1>9 DEF ToolReply, Fail
  <2> HIDE DEF calls
  <2>4. used' \in [turns : Nat, sent : 0 .. task.followUps, compactions : Nat, report : BOOLEAN]
    <3>1. used \in [turns : Nat, sent : 0 .. task.followUps, compactions : Nat, report : BOOLEAN]
      BY DEF Typed
    <3>2. QED
      BY <2>3, <3>1
  <2>5. QED
    BY <2>1, <2>2, <2>3, <2>4 DEF Typed, Waiting
<1>10. CASE HostAnswers
  <2>1. PICK ok \in BOOLEAN : Answered(ok)
    BY <1>10 DEF HostAnswers
  <2>2. /\ messages' \in M /\ batch' \in Seq(Call) /\ NextCall \in Call
    BY <1>10, <2>1, AnsweredType DEF HostAnswers
  <2>3. seen' \subseteq Kind
    BY <1>10, <2>2 DEF HostAnswers, Call, Typed
  <2>4. QED
    BY <1>10, <2>2, <2>3 DEF HostAnswers, Works, Typed, Waiting
<1>11. ASSUME batch # <<>> PROVE NextCall \in Call
  BY <1>11, HeadTailProperties DEF Typed, NextCall
<1>12. CASE StartTool
  BY <1>11, <1>12 DEF StartTool, Works, Typed, Waiting, Call
<1>13. CASE AskApproval
  <2>1. gate' \in Gate
    BY <1>11, <1>13 DEF AskApproval, Gate
  <2>2. QED
    BY <1>11, <1>13, <2>1 DEF AskApproval, Works, Typed, Waiting, Call
<1>14. CASE OfferHuman
  BY <1>14 DEF OfferHuman, Works, Typed, Waiting, Kind
<1>15. CASE RegisterHuman
  <2>1. gate' \in Gate
    BY <1>11, <1>15 DEF RegisterHuman, Works, Shape, Turning, Gate
  <2>2. QED
    BY <1>15, <2>1 DEF RegisterHuman, Works, Typed, Waiting
<1>16. CASE ApprovalDecided
  <2>1. \/ pc' = "run" /\ UNCHANGED <<messages, batch>>
        \/ pc' = "call" /\ Answered(FALSE)
    BY <1>16 DEF ApprovalDecided
  <2>2. batch # <<>>
    BY <1>16 DEF ApprovalDecided, Works, Shape, Turning
  <2>3. pc' \in Waiting /\ messages' \in M /\ batch' \in Seq(Call)
    BY <2>1, <2>2, AnsweredType DEF Typed, Waiting
  <2>4. log' \in Seq(Entry)
    <3>1. log' = log \/ log' = Append(log, [call |-> NextCall, end |-> "denied"])
      BY <1>16 DEF ApprovalDecided
    <3>2. log \in Seq(Entry) /\ Append(log, [call |-> NextCall, end |-> "denied"]) \in Seq(Entry)
      <4>1. NextCall \in Call
        BY <1>11, <2>2
      <4>2. log \in Seq(Entry)
        BY DEF Typed
      <4>3. QED
        BY <4>1, <4>2, EntryAdded
    <3>3. QED
      BY <3>1, <3>2
  <2>5. preview' \in [verified : BOOLEAN, failed : BOOLEAN]
    BY <1>16 DEF ApprovalDecided, PreviewAfter, Typed
  <2>6. QED
    BY <1>16, <2>3, <2>4, <2>5 DEF ApprovalDecided, Typed
<1>17. CASE HumanDecided
  <2>1. gate.answer \in BOOLEAN /\ batch # <<>>
    BY <1>17 DEF HumanDecided, Works, Shape, Turning, Gated, Gate
  <2>2. messages' \in M /\ batch' \in Seq(Call)
    BY <1>17, <2>1, AnsweredType DEF HumanDecided
  <2>3. QED
    BY <1>17, <2>2 DEF HumanDecided, Typed, Waiting
<1>18. CASE BatchDone \/ Interrupted
  BY <1>18 DEF BatchDone, Interrupted, Works, Typed, Waiting
<1>19. ASSUME NEW end \in Ends, ToolReturns(end) PROVE Typed'
  <2>1. batch # <<>>
    BY <1>19 DEF ToolReturns, Works, Shape, Turning
  <2>2. \/ pc' = "call" /\ Answered(end # "failed") /\ UNCHANGED status
        \/ pc' = "closing" /\ status' = "completed" /\ UNCHANGED <<messages, batch>>
    BY <1>19 DEF ToolReturns
  <2>3. pc' \in Waiting /\ messages' \in M /\ batch' \in Seq(Call)
    <3>1. (end # "failed") \in BOOLEAN
      OBVIOUS
    <3>2. QED
      BY <2>1, <2>2, <3>1, AnsweredType DEF Typed, Waiting
  <2>4. log' \in Seq(Entry)
    BY <1>11, <1>19, <2>1, EntryAdded DEF ToolReturns
  <2>5. preview' \in [verified : BOOLEAN, failed : BOOLEAN]
    BY <1>19 DEF ToolReturns, PreviewAfter, Typed
  <2>6. QED
    BY <1>19, <2>2, <2>3, <2>4, <2>5 DEF ToolReturns, Typed
<1>20. QED
  BY <1>1, <1>2, <1>3, <1>4, <1>5, <1>6, <1>7, <1>8, <1>9, <1>10, <1>12, <1>13, <1>14,
     <1>15, <1>16, <1>17, <1>18, <1>19 DEF Worker

\* The steps of the user keep the types.
LEMMA UserTyped ==
    ASSUME Typed, User
    PROVE  Typed'
<1> USE DEF turnState, budgets, team, history
<1>1. CASE Steer
  <2>1. used.sent + 1 \in 1 .. task.followUps /\ used.sent + 1 \in 0 .. task.followUps
    BY <1>1, TaskIs DEF Steer, Typed
  <2>2. used' \in [turns : Nat, sent : 0 .. task.followUps, compactions : Nat, report : BOOLEAN]
    <3>1. used \in [turns : Nat, sent : 0 .. task.followUps, compactions : Nat, report : BOOLEAN]
      BY DEF Typed
    <3>2. QED
      BY <1>1, <2>1, <3>1 DEF Steer
  <2>3. queue' \in Seq(1 .. task.followUps)
    BY <1>1, <2>1, AppendProperties DEF Steer, Typed
  <2>4. QED
    BY <1>1, <2>2, <2>3 DEF Steer, Typed
<1>2. CASE TakeOver
  BY <1>2 DEF TakeOver, Typed, Gate
<1>3. CASE Stop
  BY <1>3 DEF Stop, Typed, Gate
<1>4. ASSUME NEW yes \in BOOLEAN, DecideApproval(yes) \/ CompleteHuman(yes) PROVE Typed'
  BY <1>4 DEF DecideApproval, CompleteHuman, Typed, Gate
<1>5. QED
  BY <1>1, <1>2, <1>3, <1>4 DEF User

-----------------------------------------------------------------------------
(* The budgets of the recoveries.                                          *)


\* The ranges of the counters, with at most n repairs of a kind and at most o
\* checks of the output and p of the preview.
Counters(n, o, p) == [empty : 0 .. n, json : 0 .. n, functions : 0 .. n,
                      total : 0 .. TotalAttempts, output : 0 .. o, preview : 0 .. p]

\* The counters without the repairs of each kind.
LEMMA ResetIs ==
    ASSUME NEW n \in Nat, NEW o \in Nat, NEW p \in Nat, NEW t \in Counters(n, o, p)
    PROVE  /\ ResetConsecutive(t) \in Counters(0, o, p) /\ ResetConsecutive(t).total = t.total
           /\ [ResetConsecutive(t) EXCEPT !.total = 0] \in Counters(0, o, p)
<1> DEFINE t1 == [t EXCEPT !.empty = 0]
           t2 == [t1 EXCEPT !.json = 0]
           t3 == [t2 EXCEPT !.functions = 0]
<1>1. ResetConsecutive(t) = t3
  BY DEF ResetConsecutive
<1>2. t1 \in Counters(n, o, p) /\ t1.empty = 0 /\ t1.total = t.total
  BY DEF Counters
<1> HIDE DEF t1
<1>3. t2 \in Counters(n, o, p) /\ t2.empty = 0 /\ t2.json = 0 /\ t2.total = t.total
  BY <1>2 DEF Counters
<1> HIDE DEF t2
<1>4. t3 \in Counters(n, o, p) /\ t3.empty = 0 /\ t3.json = 0 /\ t3.functions = 0 /\ t3.total = t.total
  BY <1>3 DEF Counters
<1> HIDE DEF t3
<1>5. t3 \in Counters(0, o, p)
  BY <1>4 DEF Counters
<1>6. [t3 EXCEPT !.total = 0] \in Counters(0, o, p)
  BY <1>5, LoopAssumption DEF Counters
<1>7. QED
  BY <1>1, <1>4, <1>5, <1>6

\* A recovery of one category keeps the counters in their ranges.
LEMMA RecoverBudgeted ==
    ASSUME Budgeted, pc = "chat", NEW c \in {"empty", "json", "functions"}, NEW pop, Recover(c, pop)
    PROVE  Budgeted'
<1> DEFINE attempt == tries[c] + 1
           reset == ResetConsecutive(tries)
           counted == [reset EXCEPT ![c] = attempt]
           C(n) == Counters(n, OutputAttempts, OutputAttempts)
<1>1. /\ tries \in C(Attempts) /\ Attempts \in Nat /\ OutputAttempts \in Nat
      /\ tries.total \in 0 .. TotalAttempts /\ TotalAttempts \in Nat
  BY LoopAssumption DEF Budgeted, Counters
<1>2. attempt \in 1 .. Attempts + 1
  <2>1. CASE c = "empty" BY <1>1, <2>1 DEF Counters
  <2>2. CASE c = "json" BY <1>1, <2>2 DEF Counters
  <2>3. CASE c = "functions" BY <1>1, <2>3 DEF Counters
  <2>4. QED BY <2>1, <2>2, <2>3
<1>3. reset \in C(0) /\ reset.total = tries.total
  BY <1>1, ResetIs
<1>4. /\ attempt > Attempts \/ tries.total >= TotalAttempts => tries' = counted /\ pc' = "failing"
      /\ ~(attempt > Attempts \/ tries.total >= TotalAttempts) =>
            tries' = [counted EXCEPT !.total = @ + 1]
  BY DEF Recover, Fail
<1> HIDE DEF attempt, reset
<1>5. \A n \in Nat : attempt \in 0 .. n => counted \in C(n) /\ counted.total = tries.total
  BY <1>3 DEF Counters
<1> HIDE DEF counted
<1>6. CASE attempt > Attempts \/ tries.total >= TotalAttempts
  <2>1. tries' \in C(Attempts + 1) /\ pc' = "failing"
    BY <1>1, <1>2, <1>4, <1>5, <1>6
  <2>2. QED
    BY <1>1, <2>1 DEF Budgeted, Counters
<1>7. CASE ~(attempt > Attempts \/ tries.total >= TotalAttempts)
  <2>1. /\ attempt \in 0 .. Attempts /\ counted.total + 1 \in 0 .. TotalAttempts
        /\ counted \in C(Attempts)
    BY <1>1, <1>2, <1>5, <1>7
  <2>2. tries' \in C(Attempts)
    BY <1>4, <1>7, <2>1 DEF Counters
  <2>3. QED
    BY <1>1, <2>2 DEF Budgeted, Counters
<1>8. QED
  BY <1>6, <1>7

\* So does a check of the output or of the preview, which has one try more.
LEMMA CheckBudgeted ==
    ASSUME Budgeted, pc = "chat", NEW note, NEW reason,
           \/ RetryOutput(note, reason)
           \/ /\ tries' = [tries EXCEPT !.preview = @ + 1]
              /\ tries.preview >= OutputAttempts => pc' = "failing"
    PROVE  Budgeted'
<1>1. tries \in Counters(Attempts, OutputAttempts, OutputAttempts)
      /\ Attempts \in Nat /\ OutputAttempts \in Nat
  BY LoopAssumption DEF Budgeted, Counters
<1>2. CASE RetryOutput(note, reason)
  <2>1. /\ tries' = [tries EXCEPT !.output = @ + 1]
        /\ tries.output < OutputAttempts \/ pc' = "failing"
    BY <1>2 DEF RetryOutput, Fail
  <2>2. tries' \in Counters(Attempts, OutputAttempts + 1, OutputAttempts)
    BY <1>1, <2>1 DEF Counters
  <2>3. tries.output < OutputAttempts => tries' \in Counters(Attempts, OutputAttempts, OutputAttempts)
    BY <1>1, <2>1 DEF Counters
  <2>4. QED
    BY <1>1, <2>1, <2>2, <2>3 DEF Budgeted, Counters
<1>3. CASE /\ tries' = [tries EXCEPT !.preview = @ + 1]
           /\ tries.preview >= OutputAttempts => pc' = "failing"
  <2>1. tries' \in Counters(Attempts, OutputAttempts, OutputAttempts + 1)
    BY <1>1, <1>3 DEF Counters
  <2>2. tries.preview < OutputAttempts => tries' \in Counters(Attempts, OutputAttempts, OutputAttempts)
    BY <1>1, <1>3 DEF Counters
  <2>3. tries.preview < OutputAttempts \/ pc' = "failing"
    BY <1>1, <1>3 DEF Counters
  <2>4. QED
    BY <1>1, <2>1, <2>2, <2>3 DEF Budgeted, Counters
<1>4. QED
  BY <1>2, <1>3

\* Every step keeps the counters in their ranges.
LEMMA NextBudgeted ==
    ASSUME Typed, Budgeted, [Next]_vars
    PROVE  Budgeted'
<1> USE DEF turnState, budgets, team, history
<1>1. ASSUME UNCHANGED tries, pc \in {"failing", "cleanup", "done"} => pc' \in {"failing", "cleanup", "done"}
      PROVE  Budgeted'
  BY <1>1 DEF Budgeted
<1>2. ASSUME tries' = ResetConsecutive(tries) \/ tries' = [ResetConsecutive(tries) EXCEPT !.total = 0],
             pc \notin {"failing", "cleanup", "done"}
      PROVE  Budgeted'
  <2>1. tries \in Counters(Attempts, OutputAttempts, OutputAttempts) /\ Attempts \in Nat /\ OutputAttempts \in Nat
    BY <1>2, LoopAssumption DEF Budgeted, Counters
  <2>2. tries' \in Counters(0, OutputAttempts, OutputAttempts)
    <3>1. /\ ResetConsecutive(tries) \in Counters(0, OutputAttempts, OutputAttempts)
          /\ [ResetConsecutive(tries) EXCEPT !.total = 0] \in Counters(0, OutputAttempts, OutputAttempts)
      BY <2>1, ResetIs
    <3>2. CASE tries' = ResetConsecutive(tries)
      BY <3>1, <3>2
    <3>3. CASE tries' = [ResetConsecutive(tries) EXCEPT !.total = 0]
      BY <3>1, <3>3
    <3>4. QED
      BY <1>2, <3>2, <3>3
  <2>3. QED
    BY <2>1, <2>2 DEF Budgeted, Counters
<1>3. ASSUME NEW text \in Texts, Text(text) PROVE Budgeted'
  <2>1. CASE Handoff(text) \/ Accept(text)
    BY <1>2, <2>1 DEF Handoff, Accept, Delivered, Final, Works
  <2>2. CASE EmptyReply(text)
    BY <2>2, RecoverBudgeted DEF EmptyReply, Final, Works
  <2>3. CASE BrokenContract(text)
    <3>1. task.contract \in {"json", "functions"} /\ Recover(task.contract, task.contract = "json") /\ pc = "chat"
      BY <2>3, TaskIs DEF BrokenContract, Final, Works
    <3>2. QED
      BY <3>1, RecoverBudgeted
  <2>4. CASE MissingArtifact(text) \/ BadSlides(text)
    BY <2>4, CheckBudgeted DEF MissingArtifact, BadSlides, Delivered, Final, Works
  <2>5. CASE MissingPreview(text)
    <3>1. /\ tries' = [tries EXCEPT !.preview = @ + 1] /\ pc = "chat"
          /\ tries.preview < OutputAttempts \/ pc' = "failing"
      BY <2>5 DEF MissingPreview, Fail, Delivered, Final, Works
    <3>2. tries.preview >= OutputAttempts => pc' = "failing"
      BY <3>1, LoopAssumption DEF Budgeted
    <3>3. QED
      BY <3>1, <3>2, CheckBudgeted
  <2>6. QED
    BY <1>3, <2>1, <2>2, <2>3, <2>4, <2>5 DEF Text
<1>4. CASE LoopHead
  BY <1>1, <1>2, <1>4 DEF LoopHead, Works
<1>5. CASE AnswerOvertaken
  BY <1>2, <1>5 DEF AnswerOvertaken, Works
<1>6. ASSUME NEW kinds \in task.batches, ToolReply(kinds) PROVE Budgeted'
  BY <1>1, <1>2, <1>6 DEF ToolReply, Works
<1>7. CASE UNCHANGED vars \/ User
  BY <1>1, <1>7 DEF vars, User, Steer, TakeOver, Stop, DecideApproval, CompleteHuman
<1>8. CASE Setup \/ Propose \/ Decide \/ \E m \in Member : AskMember(m) \/ Advise(m)
  BY <1>1, <1>8 DEF Setup, Started, Propose, Decide, AskMember, Advise, Works
<1>9. CASE Overflow \/ ProviderFails \/ Retry \/ Complete \/ Close \/ ReportFailure \/ Cleanup \/ Interrupted
  BY <1>1, <1>9 DEF Overflow, ProviderFails, Retry, Complete, Close, ReportFailure, Cleanup, Interrupted, Works
<1>10. CASE HostAnswers \/ StartTool \/ AskApproval \/ OfferHuman \/ RegisterHuman
  BY <1>1, <1>10 DEF HostAnswers, StartTool, AskApproval, OfferHuman, RegisterHuman, Works
<1>11. CASE ApprovalDecided \/ HumanDecided \/ BatchDone \/ \E end \in Ends : ToolReturns(end)
  BY <1>1, <1>11 DEF ApprovalDecided, HumanDecided, BatchDone, ToolReturns, Works
<1>12. QED
  BY <1>3, <1>4, <1>5, <1>6, <1>7, <1>8, <1>9, <1>10, <1>11 DEF Next, Worker

-----------------------------------------------------------------------------
(* Conversations, as sequences of messages.                                *)

Messages(n) == Seq(AnyMessage(n))

\* The roles and the calls of messages.
LEMMA MessageIs ==
    ASSUME NEW n \in Nat, NEW m \in AnyMessage(n)
    PROVE  /\ m.role = "assistant" => m.ref \in Seq(Call) /\ Len(m.ref) \in Nat
           /\ m.role = "followup" => m.ref \in 1 .. n
BY LenProperties DEF AnyMessage

\* What follows a paired conversation and neither calls nor answers leaves it so.
LEMMA PairedExtends ==
    ASSUME NEW ms, NEW as, NEW n \in Nat, NEW k \in Nat, n <= k, Paired(ms, n),
           \A i \in 1 .. n : as[i] = ms[i],
           \A i \in 1 .. n : ms[i].role = "assistant" => Len(ms[i].ref) \in Nat,
           \A i \in n + 1 .. k : as[i].role # "tool" /\ (as[i].role = "assistant" => Len(as[i].ref) = 0)
    PROVE  Paired(as, k)
<1>1. \A i \in 1 .. k : i \in 1 .. n \/ i \in n + 1 .. k
  OBVIOUS
<1>2. \A i \in 1 .. k : as[i].role = "assistant" =>
          \A j \in 1 .. Len(as[i].ref) :
              i + j <= k /\ as[i + j].role = "tool" /\ as[i + j].ref.call = as[i].ref[j]
  <2> SUFFICES ASSUME NEW i \in 1 .. k, as[i].role = "assistant", NEW j \in 1 .. Len(as[i].ref)
               PROVE  i + j <= k /\ as[i + j].role = "tool" /\ as[i + j].ref.call = as[i].ref[j]
    OBVIOUS
  <2>1. CASE i \in n + 1 .. k
    <3>1. Len(as[i].ref) = 0
      BY <2>1
    <3>2. QED
      BY <3>1
  <2>2. CASE i \in 1 .. n
    <3>1. as[i] = ms[i] /\ Len(as[i].ref) \in Nat
      BY <2>2
    <3>2. j \in Nat /\ j >= 1 /\ i \in Nat /\ i >= 1
      BY <2>2, <3>1
    <3>3. i + j <= n /\ ms[i + j].role = "tool" /\ ms[i + j].ref.call = ms[i].ref[j]
      BY <2>2, <3>1, <3>2 DEF Paired
    <3>4. i + j \in 1 .. n
      BY <3>2, <3>3
    <3>5. as[i + j] = ms[i + j]
      BY <3>4
    <3>6. QED
      BY <3>1, <3>2, <3>3, <3>5
  <2>3. QED
    BY <1>1, <2>1, <2>2
<1>3. \A i \in 1 .. k : as[i].role = "tool" =>
          \E j \in 1 .. i - 1 : as[j].role = "assistant" /\ i <= j + Len(as[j].ref)
  <2> SUFFICES ASSUME NEW i \in 1 .. k, as[i].role = "tool"
               PROVE  \E j \in 1 .. i - 1 : as[j].role = "assistant" /\ i <= j + Len(as[j].ref)
    OBVIOUS
  <2>1. i \in 1 .. n /\ as[i] = ms[i]
    BY <1>1
  <2>2. PICK j \in 1 .. i - 1 : ms[j].role = "assistant" /\ i <= j + Len(ms[j].ref)
    BY <2>1 DEF Paired
  <2>3. as[j] = ms[j]
    <3>1. j \in 1 .. n
      BY <2>1
    <3>2. QED
      BY <3>1
  <2>4. QED
    BY <2>2, <2>3
<1>4. QED
  BY <1>2, <1>3 DEF Paired

\* The calls of the messages of a conversation can be counted.
LEMMA CallsCounted ==
    ASSUME NEW n \in Nat, NEW ms \in Messages(n), NEW i \in 1 .. Len(ms), ms[i].role = "assistant"
    PROVE  ms[i].ref \in Seq(Call) /\ Len(ms[i].ref) \in Nat
<1>1. ms[i] \in AnyMessage(n)
  BY DEF Messages
<1>2. QED
  BY <1>1, MessageIs

\* A message that neither calls nor answers, at the end.
LEMMA PairedAppend ==
    ASSUME NEW n \in Nat, NEW ms \in Messages(n), NEW m \in AnyMessage(n), Paired(ms, Len(ms)),
           m.role # "tool", m.role = "assistant" => m.ref = <<>>
    PROVE  Paired(Append(ms, m), Len(Append(ms, m)))
<1> DEFINE as == Append(ms, m)
           k == Len(ms)
<1>1. /\ k \in Nat /\ Len(as) = k + 1 /\ as[k + 1] = m
      /\ \A i \in 1 .. k : as[i] = ms[i]
  BY AppendProperties, LenProperties DEF Messages
<1>2. m.role = "assistant" => Len(m.ref) = 0
  BY EmptySeq
<1>3. \A i \in 1 .. k : ms[i].role = "assistant" => Len(ms[i].ref) \in Nat
  BY CallsCounted
<1> HIDE DEF as, k
<1>4. \A i \in k + 1 .. k + 1 : as[i].role # "tool" /\ (as[i].role = "assistant" => Len(as[i].ref) = 0)
  <2>1. ASSUME NEW i \in k + 1 .. k + 1 PROVE as[i] = m
    <3>1. i = k + 1
      BY <1>1
    <3>2. QED
      BY <1>1, <3>1
  <2>2. QED
    BY <1>2, <2>1
<1>5. k + 1 \in Nat /\ k <= k + 1 /\ Paired(ms, k)
  BY <1>1 DEF k
<1>6. Paired(as, k + 1)
  BY <1>1, <1>3, <1>4, <1>5, PairedExtends
<1>7. QED
  BY <1>1, <1>6 DEF as

\* Follow-ups, at the end.
LEMMA PairedJoined ==
    ASSUME NEW n \in Nat, NEW ms \in Messages(n), NEW q \in Seq(1 .. n), Paired(ms, Len(ms))
    PROVE  Paired(Joined(ms, q), Len(Joined(ms, q)))
<1> DEFINE js == Joined(ms, q)
<1>1. /\ Len(ms) \in Nat /\ Len(q) \in Nat /\ Len(js) = Len(ms) + Len(q)
      /\ \A i \in 1 .. Len(ms) : js[i] = ms[i]
      /\ \A i \in 1 .. Len(q) : js[Len(ms) + i] = Message("followup", q[i])
  BY JoinedIs DEF Messages
<1> HIDE DEF js
<1>2. \A i \in Len(ms) + 1 .. Len(js) : js[i].role # "tool" /\ (js[i].role = "assistant" => Len(js[i].ref) = 0)
  <2> SUFFICES ASSUME NEW i \in Len(ms) + 1 .. Len(js) PROVE js[i].role = "followup"
    OBVIOUS
  <2> DEFINE d == i - Len(ms)
  <2>1. d \in 1 .. Len(q) /\ Len(ms) + d = i
    BY <1>1
  <2> HIDE DEF d
  <2>2. js[Len(ms) + d] = Message("followup", q[d])
    BY <1>1, <2>1
  <2>3. QED
    BY <2>1, <2>2 DEF Message
<1>3. \A i \in 1 .. Len(ms) : ms[i].role = "assistant" => Len(ms[i].ref) \in Nat
  BY CallsCounted
<1>4. Len(js) \in Nat /\ Len(ms) <= Len(js)
  BY <1>1
<1>5. QED
  BY <1>1, <1>2, <1>3, <1>4, PairedExtends DEF js

\* A reply without calls can be dropped.
LEMMA PairedFront ==
    ASSUME NEW n \in Nat, NEW ms \in Messages(n), ms # <<>>, Paired(ms, Len(ms)),
           ms[Len(ms)].role = "assistant"
    PROVE  Paired(Front(ms), Len(Front(ms))) /\ Len(Front(ms)) \in Nat
<1> DEFINE fs == Front(ms)
           k == Len(ms) - 1
<1>1. /\ k \in Nat /\ Len(ms) = k + 1 /\ Len(fs) = k
      /\ \A i \in 1 .. k : fs[i] = ms[i]
  BY FrontIs DEF Messages
<1> HIDE DEF fs, k
<1>2. \A i \in 1 .. k + 1 : ms[i].role = "assistant" => Len(ms[i].ref) \in Nat
  BY <1>1, CallsCounted
<1>3. Len(ms[k + 1].ref) = 0
  <2>1. SUFFICES ASSUME Len(ms[k + 1].ref) # 0 PROVE FALSE
    OBVIOUS
  <2>2. 1 \in 1 .. Len(ms[k + 1].ref) /\ k + 1 \in 1 .. Len(ms)
    BY <1>1, <1>2, <2>1
  <2>3. k + 1 + 1 <= Len(ms)
    BY <1>1, <2>2 DEF Paired
  <2>4. QED
    BY <1>1, <2>3
<1>4. Paired(ms, k)
  <2>1. \A i \in 1 .. k : ms[i].role = "assistant" =>
            \A j \in 1 .. Len(ms[i].ref) :
                i + j <= k /\ ms[i + j].role = "tool" /\ ms[i + j].ref.call = ms[i].ref[j]
    <3> SUFFICES ASSUME NEW i \in 1 .. k, ms[i].role = "assistant", NEW j \in 1 .. Len(ms[i].ref)
                 PROVE  i + j <= k /\ ms[i + j].role = "tool" /\ ms[i + j].ref.call = ms[i].ref[j]
      OBVIOUS
    <3>1. i \in 1 .. k + 1 /\ i \in Nat /\ j \in Nat
      BY <1>1, <1>2
    <3>2. i + j <= k + 1 /\ ms[i + j].role = "tool" /\ ms[i + j].ref.call = ms[i].ref[j]
      BY <1>1, <3>1 DEF Paired
    <3>3. i + j # k + 1
      BY <1>1, <3>2
    <3>4. QED
      BY <1>1, <3>1, <3>2, <3>3
  <2>2. \A i \in 1 .. k : ms[i].role = "tool" =>
            \E j \in 1 .. i - 1 : ms[j].role = "assistant" /\ i <= j + Len(ms[j].ref)
    BY <1>1 DEF Paired
  <2>3. QED
    BY <2>1, <2>2 DEF Paired
<1>5. \A i \in 1 .. k : ms[i].role = "assistant" => Len(ms[i].ref) \in Nat
  BY <1>1, <1>2
<1>6. Paired(fs, k)
  BY <1>1, <1>4, <1>5, PairedExtends
<1>7. QED
  BY <1>1, <1>6 DEF fs

\* A new reply is open: none of its calls is answered.
LEMMA OpenReply ==
    ASSUME NEW n \in Nat, NEW ms \in Messages(n), Paired(ms, Len(ms)), NEW calls \in Seq(Call)
    PROVE  LET as == Append(ms, Message("assistant", calls))
           IN Len(as) \in Nat /\ Len(as) > 0 /\ Open(as, calls, Len(as)) /\ as[Len(as)].ref = calls
<1> DEFINE m == Message("assistant", calls)
           as == Append(ms, m)
           k == Len(ms)
<1>1. m \in AnyMessage(n) /\ m.role = "assistant" /\ m.ref = calls
  BY MessageTypes DEF Message
<1> HIDE DEF m
<1>2. /\ k \in Nat /\ Len(as) = k + 1 /\ as[k + 1] = m
      /\ \A i \in 1 .. k : as[i] = ms[i]
  BY <1>1, AppendProperties, LenProperties DEF Messages
<1>3. \A i \in 1 .. k : ms[i].role = "assistant" => Len(ms[i].ref) \in Nat
  BY CallsCounted
<1>4. Paired(ms, k) /\ Len(calls) \in Nat
  BY LenProperties
<1> HIDE DEF as, k
<1>5. Paired(as, k)
  <2>1. k <= k /\ \A i \in k + 1 .. k : FALSE
    BY <1>2
  <2>2. QED
    BY <1>2, <1>3, <1>4, <2>1, PairedExtends
<1>6. /\ k + 1 \in 1 .. Len(as) /\ as[k + 1].role = "assistant" /\ k + 1 - 1 = k
      /\ Len(as[k + 1].ref) = Len(as) - (k + 1) + Len(calls)
      /\ Len(as) - (k + 1) = 0
  BY <1>1, <1>2, <1>4
<1>7. \A j \in 1 .. Len(calls) : calls[j] = as[k + 1].ref[Len(as) - (k + 1) + j]
  <2> SUFFICES ASSUME NEW j \in 1 .. Len(calls) PROVE calls[j] = as[k + 1].ref[Len(as) - (k + 1) + j]
    OBVIOUS
  <2>1. Len(as) - (k + 1) + j = j
    BY <1>2, <1>4, <1>6
  <2>2. as[k + 1].ref = calls
    BY <1>1, <1>2
  <2>3. QED
    BY <2>1, <2>2
<1>8. Open(as, calls, k + 1)
  <2>2. \A j \in 1 .. Len(as) - (k + 1) : FALSE
    BY <1>2
  <2>3. /\ k + 1 \in 1 .. Len(as) /\ as[k + 1].role = "assistant"
        /\ Len(as[k + 1].ref) = Len(as) - (k + 1) + Len(calls)
    BY <1>6
  <2>4. \A j \in 1 .. Len(as) - (k + 1) :
            as[k + 1 + j].role = "tool" /\ as[k + 1 + j].ref.call = as[k + 1].ref[j]
    BY <2>2
  <2> DEFINE p == k + 1
  <2>5. /\ p \in 1 .. Len(as) /\ as[p].role = "assistant"
        /\ Len(as[p].ref) = Len(as) - p + Len(calls)
        /\ p - 1 = k
    BY <1>2, <2>3
  <2>6. \A j \in 1 .. Len(as) - p : as[p + j].role = "tool" /\ as[p + j].ref.call = as[p].ref[j]
    BY <2>4
  <2>7. \A j \in 1 .. Len(calls) : calls[j] = as[p].ref[Len(as) - p + j]
    BY <1>7
  <2> HIDE DEF p
  <2>8. Open(as, calls, p)
    BY <1>5, <2>5, <2>6, <2>7 DEF Open
  <2>9. QED
    BY <2>8 DEF p
<1>9. Len(as) \in Nat /\ Len(as) > 0 /\ Open(as, calls, Len(as)) /\ as[Len(as)].ref = calls
  <2>1. Len(as) = k + 1 /\ as[k + 1].ref = calls /\ k + 1 \in Nat /\ k + 1 > 0
    BY <1>1, <1>2
  <2>2. QED
    BY <1>8, <2>1
<1>10. QED
  BY <1>9 DEF as, m

\* A result answers the next call.
LEMMA OpenAnswer ==
    ASSUME NEW n \in Nat, NEW ms \in Messages(n), NEW b \in Seq(Call), b # <<>>,
           NEW i \in 1 .. Len(ms), Open(ms, b, i), NEW ok \in BOOLEAN
    PROVE  LET as == Append(ms, Result(Head(b), ok))
           IN /\ i \in 1 .. Len(as) /\ Open(as, Tail(b), i) /\ as[i] = ms[i]
              /\ \A j \in 1 .. Len(ms) : as[j] = ms[j]
              /\ Len(as) = Len(ms) + 1 /\ Len(ms) \in Nat
<1> DEFINE m == Result(Head(b), ok)
           as == Append(ms, m)
           k == Len(ms)
           l == Len(b)
           t == Tail(b)
<1>1. /\ Head(b) = b[1] /\ l \in Nat /\ l > 0 /\ Len(t) = l - 1 /\ Head(b) \in Call
      /\ \A j \in 1 .. l - 1 : t[j] = b[j + 1]
  BY HeadTailProperties, EmptySeq
<1>2. m \in AnyMessage(n) /\ m.role = "tool" /\ m.ref.call = b[1]
  BY <1>1, MessageTypes DEF Message, Result
<1> HIDE DEF m
<1>3. /\ k \in Nat /\ Len(as) = k + 1 /\ as[k + 1] = m
      /\ \A j \in 1 .. k : as[j] = ms[j]
  BY <1>2, AppendProperties, LenProperties DEF Messages
<1>4. \A j \in 1 .. k : ms[j].role = "assistant" => Len(ms[j].ref) \in Nat
  BY CallsCounted
<1>5. /\ ms[i].role = "assistant" /\ Paired(ms, i - 1) /\ Len(ms[i].ref) = k - i + l
      /\ \A j \in 1 .. k - i : ms[i + j].role = "tool" /\ ms[i + j].ref.call = ms[i].ref[j]
      /\ \A j \in 1 .. l : b[j] = ms[i].ref[k - i + j]
      /\ i \in 1 .. k
  BY DEF Open
<1> HIDE DEF as, k, l, t
<1>6. Paired(as, i - 1)
  <2> DEFINE p == i - 1
  <2>1. /\ p \in Nat /\ p <= p /\ \A j \in 1 .. p : j \in 1 .. k
        /\ \A j \in p + 1 .. p : FALSE
    BY <1>3, <1>5
  <2>2. Paired(ms, p)
    BY <1>5
  <2> HIDE DEF p
  <2>3. Paired(as, p)
    BY <1>3, <1>4, <2>1, <2>2, PairedExtends
  <2>4. QED
    BY <2>3 DEF p
<1>7. as[i] = ms[i] /\ i \in 1 .. k + 1 /\ i \in Nat
  <2>1. i \in Nat /\ i \in 1 .. k
    BY <1>3, <1>5
  <2>2. as[i] = ms[i]
    BY <1>3, <2>1
  <2>3. i \in 1 .. k + 1
    BY <1>3, <2>1
  <2>4. QED
    BY <2>1, <2>2, <2>3
<1>8. Len(ms[i].ref) = (k + 1) - i + (l - 1)
  BY <1>1, <1>3, <1>5, <1>7
<1>9. \A j \in 1 .. (k + 1) - i : as[i + j].role = "tool" /\ as[i + j].ref.call = ms[i].ref[j]
  <2> SUFFICES ASSUME NEW j \in 1 .. (k + 1) - i
               PROVE  as[i + j].role = "tool" /\ as[i + j].ref.call = ms[i].ref[j]
    OBVIOUS
  <2>1. CASE j \in 1 .. k - i
    <3>1. i + j \in 1 .. k
      BY <1>3, <1>7, <2>1
    <3>2. as[i + j] = ms[i + j]
      BY <1>3, <3>1
    <3>3. QED
      BY <1>5, <2>1, <3>2
  <2>2. CASE j = k + 1 - i
    <3>1. i + j = k + 1 /\ k - i + 1 = j /\ 1 \in 1 .. l
      BY <1>1, <1>3, <1>7, <2>2
    <3>2. as[i + j] = m /\ b[1] = ms[i].ref[j]
      BY <1>3, <1>5, <3>1
    <3>3. QED
      BY <1>2, <3>2
  <2>3. j \in 1 .. k - i \/ j = k + 1 - i
    BY <1>3, <1>7
  <2>4. QED
    BY <2>1, <2>2, <2>3
<1>10. \A j \in 1 .. l - 1 : t[j] = ms[i].ref[(k + 1) - i + j]
  <2> SUFFICES ASSUME NEW j \in 1 .. l - 1 PROVE t[j] = ms[i].ref[(k + 1) - i + j]
    OBVIOUS
  <2>1. j + 1 \in 1 .. l /\ k - i + (j + 1) = (k + 1) - i + j
    BY <1>1, <1>3, <1>7
  <2>2. t[j] = b[j + 1] /\ b[j + 1] = ms[i].ref[k - i + (j + 1)]
    BY <1>1, <1>5, <2>1
  <2>3. QED
    BY <2>1, <2>2
<1>11. Open(as, t, i)
  BY <1>1, <1>3, <1>5, <1>6, <1>7, <1>8, <1>9, <1>10 DEF Open
<1>12. QED
  BY <1>3, <1>7, <1>11 DEF as, m, t, k

\* A reply without calls to come is paired with its results.
LEMMA OpenDone ==
    ASSUME NEW n \in Nat, NEW ms \in Messages(n), NEW i \in 1 .. Len(ms), Open(ms, <<>>, i)
    PROVE  Paired(ms, Len(ms))
<1> DEFINE k == Len(ms)
<1>1. \A j \in 1 .. k : ms[j].role = "assistant" => Len(ms[j].ref) \in Nat
  BY CallsCounted
<1>2. /\ k \in Nat /\ i \in 1 .. k /\ i \in Nat /\ Paired(ms, i - 1) /\ ms[i].role = "assistant"
      /\ Len(ms[i].ref) = k - i
      /\ \A j \in 1 .. k - i : ms[i + j].role = "tool" /\ ms[i + j].ref.call = ms[i].ref[j]
  BY LenProperties, EmptySeq DEF Open, Messages
<1> HIDE DEF k
<1>3. \A j \in i + 1 .. k : ms[j].role = "tool"
  <2> SUFFICES ASSUME NEW j \in i + 1 .. k PROVE ms[j].role = "tool"
    OBVIOUS
  <2> DEFINE d == j - i
  <2>1. d \in 1 .. k - i /\ i + d = j
    BY <1>2
  <2> HIDE DEF d
  <2>2. ms[i + d].role = "tool"
    BY <1>2, <2>1
  <2>3. QED
    BY <2>1, <2>2
<1>4. \A j \in 1 .. k : j \in 1 .. i - 1 \/ j = i \/ j \in i + 1 .. k
  BY <1>2
<1>5. \A j \in 1 .. k : ms[j].role = "assistant" =>
          \A h \in 1 .. Len(ms[j].ref) :
              j + h <= k /\ ms[j + h].role = "tool" /\ ms[j + h].ref.call = ms[j].ref[h]
  <2> SUFFICES ASSUME NEW j \in 1 .. k, ms[j].role = "assistant", NEW h \in 1 .. Len(ms[j].ref)
               PROVE  j + h <= k /\ ms[j + h].role = "tool" /\ ms[j + h].ref.call = ms[j].ref[h]
    OBVIOUS
  <2>1. j \in Nat /\ h \in Nat /\ h >= 1
    BY <1>1, <1>2
  <2>2. CASE j \in 1 .. i - 1
    <3>1. j + h <= i - 1 /\ ms[j + h].role = "tool" /\ ms[j + h].ref.call = ms[j].ref[h]
      BY <1>2, <2>2 DEF Paired
    <3>2. QED
      BY <1>2, <2>1, <2>2, <3>1
  <2>3. CASE j = i
    BY <1>2, <2>1, <2>3
  <2>4. QED
    BY <1>3, <1>4, <2>2, <2>3
<1>6. \A j \in 1 .. k : ms[j].role = "tool" =>
          \E h \in 1 .. j - 1 : ms[h].role = "assistant" /\ j <= h + Len(ms[h].ref)
  <2> SUFFICES ASSUME NEW j \in 1 .. k, ms[j].role = "tool"
               PROVE  \E h \in 1 .. j - 1 : ms[h].role = "assistant" /\ j <= h + Len(ms[h].ref)
    OBVIOUS
  <2>1. CASE j \in 1 .. i - 1
    BY <1>2, <2>1 DEF Paired
  <2>2. CASE j \in i + 1 .. k
    <3>1. i \in 1 .. j - 1 /\ j <= i + Len(ms[i].ref)
      BY <1>2, <2>2
    <3>2. QED
      BY <1>2, <3>1
  <2>3. QED
    BY <1>2, <1>4, <2>1, <2>2
<1>7. QED
  BY <1>5, <1>6 DEF Paired, k

\* A message at the end of a conversation.
LEMMA ConversingAppend ==
    ASSUME NEW n \in Nat, NEW ms \in Messages(n), Conversing(ms), NEW m \in AnyMessage(n),
           m.role # "tool", m.role = "assistant" => m.ref = <<>>
    PROVE  /\ Append(ms, m) \in Messages(n) /\ Conversing(Append(ms, m))
           /\ Append(ms, m)[Len(Append(ms, m))] = m
<1>1. Paired(Append(ms, m), Len(Append(ms, m)))
  BY PairedAppend DEF Conversing
<1>2. /\ Append(ms, m) \in Messages(n) /\ Append(ms, m) # <<>> /\ Append(ms, m)[Len(Append(ms, m))] = m
      /\ \A i \in 1 .. Len(ms) : Append(ms, m)[i] = ms[i]
  BY AppendProperties DEF Messages
<1>3. 1 \in 1 .. Len(ms)
  BY LenProperties, EmptySeq DEF Messages, Conversing
<1>4. QED
  BY <1>1, <1>2, <1>3 DEF Conversing

\* Follow-ups at the end of a conversation.
LEMMA ConversingJoined ==
    ASSUME NEW n \in Nat, NEW ms \in Messages(n), Conversing(ms), NEW q \in Seq(1 .. n)
    PROVE  Joined(ms, q) \in Messages(n) /\ Conversing(Joined(ms, q))
<1>1. Paired(Joined(ms, q), Len(Joined(ms, q)))
  BY PairedJoined DEF Conversing
<1>2. /\ Joined(ms, q) \in Messages(n) /\ Len(Joined(ms, q)) = Len(ms) + Len(q)
      /\ \A i \in 1 .. Len(ms) : Joined(ms, q)[i] = ms[i]
      /\ Len(ms) \in Nat /\ Len(q) \in Nat
  BY JoinedIs DEF Messages
<1>3. 1 \in 1 .. Len(ms)
  BY LenProperties, EmptySeq DEF Messages, Conversing
<1>4. Joined(ms, q) # <<>>
  BY <1>2, <1>3, EmptySeq
<1>5. QED
  BY <1>1, <1>2, <1>3, <1>4 DEF Conversing

\* A reply without calls dropped from the end of a conversation.
LEMMA ConversingFront ==
    ASSUME NEW n \in Nat, NEW ms \in Messages(n), Conversing(ms), ms[Len(ms)].role = "assistant"
    PROVE  Front(ms) \in Messages(n) /\ Conversing(Front(ms))
<1>1. Paired(Front(ms), Len(Front(ms)))
  BY PairedFront DEF Conversing
<1>2. /\ Front(ms) \in Messages(n) /\ Len(Front(ms)) = Len(ms) - 1 /\ Len(ms) \in Nat \ {0}
      /\ \A i \in 1 .. Len(ms) - 1 : Front(ms)[i] = ms[i]
  BY FrontIs DEF Messages, Conversing
<1>3. Len(ms) # 1
  BY DEF Conversing
<1>4. Front(ms) # <<>> /\ Front(ms)[1] = ms[1]
  BY <1>2, <1>3, EmptySeq
<1>5. QED
  BY <1>1, <1>2, <1>4 DEF Conversing

\* A compacted conversation has no calls and no results.
LEMMA ConversingCompacted ==
    ASSUME Typed, NEW ms \in Messages(task.followUps), Conversing(ms), Compact(ms)
    PROVE  Conversing(messages')
<1>1. PICK c \in Checkpoint(task.followUps) : messages' = <<ms[1], Message("checkpoint", c)>>
  BY CompactIs DEF Messages, Conversing
<1>2. ms[1].role = "system"
  BY DEF Conversing
<1>3. QED
  BY <1>1, <1>2 DEF Conversing, Paired, Message

\* A reply with calls.
LEMMA CallingReply ==
    ASSUME NEW n \in Nat, NEW ms \in Messages(n), Conversing(ms), NEW calls \in Seq(Call), NEW turn,
           \A j \in 1 .. Len(calls) : calls[j].turn = turn
    PROVE  Calling(Append(ms, Message("assistant", calls)), calls, turn)
<1> DEFINE as == Append(ms, Message("assistant", calls))
<1>1. Len(as) \in Nat /\ Len(as) > 0 /\ Open(as, calls, Len(as)) /\ as[Len(as)].ref = calls
  BY OpenReply DEF Conversing
<1>2. as # <<>> /\ \A i \in 1 .. Len(ms) : as[i] = ms[i]
  BY MessageTypes, AppendProperties DEF Messages
<1>3. 1 \in 1 .. Len(ms)
  BY LenProperties, EmptySeq DEF Messages, Conversing
<1> HIDE DEF as
<1>4. Len(as) \in 1 .. Len(as)
  <2>1. \A k \in Nat : k > 0 => k \in 1 .. k
    OBVIOUS
  <2>2. QED
    BY <1>1, <2>1
<1>5. as[1].role = "system"
  BY <1>2, <1>3 DEF Conversing
<1>6. Calling(as, calls, turn)
  BY <1>1, <1>2, <1>4, <1>5 DEF Calling
<1>7. QED
  BY <1>6 DEF as

\* A result of the next call.
LEMMA CallingAnswer ==
    ASSUME NEW n \in Nat, NEW ms \in Messages(n), NEW b \in Seq(Call), b # <<>>, NEW turn,
           Calling(ms, b, turn), NEW ok \in BOOLEAN
    PROVE  Calling(Append(ms, Result(Head(b), ok)), Tail(b), turn)
<1> DEFINE as == Append(ms, Result(Head(b), ok))
<1>1. PICK i \in 1 .. Len(ms) : Open(ms, b, i) /\ \A j \in 1 .. Len(ms[i].ref) : ms[i].ref[j].turn = turn
  BY DEF Calling
<1>2. /\ i \in 1 .. Len(as) /\ Open(as, Tail(b), i) /\ as[i] = ms[i]
      /\ \A j \in 1 .. Len(ms) : as[j] = ms[j]
      /\ Len(as) = Len(ms) + 1 /\ Len(ms) \in Nat
  BY <1>1, OpenAnswer
<1> HIDE DEF as
<1>3. 1 \in 1 .. Len(ms) /\ Len(as) # 0
  BY <1>2
<1>4. as # <<>> /\ as[1].role = "system"
  BY <1>2, <1>3, EmptySeq DEF Calling
<1>5. Calling(as, Tail(b), turn)
  BY <1>1, <1>2, <1>4 DEF Calling
<1>6. QED
  BY <1>5 DEF as

\* All calls answered.
LEMMA CallingDone ==
    ASSUME NEW n \in Nat, NEW ms \in Messages(n), NEW turn, Calling(ms, <<>>, turn)
    PROVE  Conversing(ms)
BY OpenDone DEF Calling, Conversing

-----------------------------------------------------------------------------
(* The conversation of the run.                                            *)

\* Every step keeps the shape of the conversation.
LEMMA NextShape ==
    ASSUME Typed, Shape, Gated, [Next]_vars
    PROVE  Shape'
<1> DEFINE n == task.followUps
<1>1. n \in Nat /\ messages \in Messages(n) /\ batch \in Seq(Call) /\ queue \in Seq(1 .. n) /\ used.turns \in Nat
  BY TaskIs DEF Typed, Messages
<1> HIDE DEF n
<1> USE DEF turnState, budgets, team, history
<1>2. ASSUME UNCHANGED <<messages, batch, applied>>, used'.turns = used.turns,
             pc' # "setup" \/ pc' = pc,
             pc' \in Talking => pc \in Talking, pc' = "retry" => pc = "retry",
             pc' \in Turning => pc \in Turning, pc' \in Turning \ {"call"} => batch # <<>>
      PROVE  Shape'
  BY <1>2 DEF Shape, Talking, Turning
<1>3. ASSUME pc' \notin Turning \cup {"setup"}, pc' \in Talking => Conversing(messages'),
             pc' = "retry" => messages'[Len(messages')].role = "assistant"
      PROVE  Shape'
  BY <1>3 DEF Shape
<1>4. ASSUME pc' = "call", Calling(messages', batch', used'.turns)
      PROVE  Shape'
  BY <1>4 DEF Shape, Talking, Turning
<1>5. ASSUME pc \in Turning, batch # <<>>, NEW ok \in BOOLEAN, Answered(ok), pc' = "call", used' = used
      PROVE  Shape'
  <2>1. Calling(messages', batch', used'.turns)
    BY <1>1, <1>5, CallingAnswer DEF Shape, Answered, NextCall
  <2>2. QED
    BY <1>4, <1>5, <2>1
<1>6. CASE Setup
  <2>1. CASE pc' = "done"
    BY <1>3, <2>1 DEF Talking, Turning
  <2>2. CASE pc' \in {"propose", "top"} /\ messages' = <<Message("system", 0), Message("user", 0)>>
    <3>1. Conversing(messages')
      BY <2>2 DEF Conversing, Paired, Message
    <3>2. QED
      BY <1>3, <2>2, <3>1 DEF Turning
  <2>3. QED
    BY <1>6, <2>1, <2>2 DEF Setup, Started, FailSetup
<1>7. CASE LoopHead
  <2>1. Conversing(messages) /\ Drained = Joined(messages, queue)
    BY <1>7 DEF LoopHead, Works, Shape, Talking, Drained, Joined
  <2>2. Drained \in Messages(n) /\ Conversing(Drained)
    BY <1>1, <2>1, ConversingJoined
  <2>3. Compact(Drained) => Conversing(messages')
    BY <1>1, <2>2, ConversingCompacted DEF n
  <2>4. (messages' = Drained \/ Compact(Drained)) /\ pc' \in {"chat", "failing"}
    BY <1>7 DEF LoopHead, Fail, ArchiveFails
  <2>5. QED
    BY <1>3, <2>2, <2>3, <2>4 DEF Talking, Turning
<1>8. CASE Overflow
  <2>1. Conversing(messages)
    BY <1>8 DEF Overflow, Works, Shape, Talking
  <2>2. Compact(messages) => Conversing(messages')
    BY <1>1, <2>1, ConversingCompacted DEF n
  <2>3. (messages' = messages \/ Compact(messages)) /\ pc' \in {"top", "failing"}
    BY <1>8 DEF Overflow, Fail, ArchiveFails
  <2>4. QED
    BY <1>3, <2>1, <2>2, <2>3 DEF Talking, Turning
<1>9. ASSUME Conversing(messages)
      PROVE  LET as == Append(messages, Message("assistant", <<>>))
             IN as \in Messages(n) /\ Conversing(as) /\ as[Len(as)].role = "assistant"
  <2>1. /\ Message("assistant", <<>>) \in AnyMessage(n) /\ Message("assistant", <<>>).role = "assistant"
        /\ Message("assistant", <<>>).ref = <<>>
    BY <1>1, MessageTypes, EmptySeq DEF Message
  <2> DEFINE m == Message("assistant", <<>>)
  <2>2. m \in AnyMessage(n) /\ m.role # "tool" /\ m.ref = <<>> /\ m.role = "assistant"
    BY <2>1
  <2> HIDE DEF m
  <2>3. /\ Append(messages, m) \in Messages(n) /\ Conversing(Append(messages, m))
        /\ Append(messages, m)[Len(Append(messages, m))] = m
    BY <1>1, <1>9, <2>2, ConversingAppend
  <2>4. QED
    BY <2>2, <2>3 DEF m
<1>10. CASE AnswerOvertaken
  <2> DEFINE as == Append(messages, Message("assistant", <<>>))
  <2>1. as \in Messages(n) /\ Conversing(as)
    BY <1>9, <1>10 DEF AnswerOvertaken, Works, Shape, Talking
  <2>2. messages' = Joined(as, queue) /\ pc' = "top"
    BY <1>10 DEF AnswerOvertaken, Joined
  <2> HIDE DEF as
  <2>3. Conversing(messages')
    BY <1>1, <2>1, <2>2, ConversingJoined
  <2>4. QED
    BY <1>3, <2>2, <2>3 DEF Turning
<1>11. ASSUME NEW text \in Texts, Text(text) PROVE Shape'
  <2> DEFINE as == Append(messages, Message("assistant", <<>>))
  <2>1. pc = "chat" /\ messages' = as
    BY <1>11 DEF Text, Handoff, EmptyReply, BrokenContract, MissingArtifact, MissingPreview,
         BadSlides, Accept, Delivered, Final, Works, Replied
  <2>2. pc' \in {"top", "retry", "failing", "final"}
    BY <1>11 DEF Text, Handoff, EmptyReply, BrokenContract, MissingArtifact, MissingPreview,
         BadSlides, Accept, Recover, RetryOutput, Fail
  <2>3. Conversing(as) /\ as[Len(as)].role = "assistant"
    BY <1>9, <2>1 DEF Shape, Talking
  <2> HIDE DEF as
  <2>4. QED
    BY <1>3, <2>1, <2>2, <2>3 DEF Turning
<1>12. CASE Retry
  <2> DEFINE kept == IF plan.pop THEN Front(messages) ELSE messages
  <2>1. Conversing(messages) /\ messages[Len(messages)].role = "assistant" /\ pc' = "top"
    BY <1>12 DEF Retry, Works, Shape, Talking
  <2>2. kept \in Messages(n) /\ Conversing(kept)
    BY <1>1, <2>1, ConversingFront
  <2>3. messages' \in {kept, Append(kept, Message("note", "slides"))}
    BY <1>12 DEF Retry
  <2> HIDE DEF kept
  <2>4. Conversing(Append(kept, Message("note", "slides")))
    <3> DEFINE m == Message("note", "slides")
    <3>1. m \in AnyMessage(n) /\ m.role = "note"
      BY <1>1, MessageTypes DEF Message
    <3> HIDE DEF m
    <3>2. Conversing(Append(kept, m))
      BY <1>1, <2>2, <3>1, ConversingAppend
    <3>3. QED
      BY <3>2 DEF m
  <2>5. Conversing(messages')
    BY <2>2, <2>3, <2>4
  <2>6. QED
    BY <1>3, <2>1, <2>5 DEF Turning
<1>13. ASSUME NEW kinds \in task.batches, ToolReply(kinds) PROVE Shape'
  <2> DEFINE turn == used.turns + 1
             calls == [i \in DOMAIN kinds |-> [turn |-> turn, at |-> i, kind |-> kinds[i]]]
  <2>1. turn \in Nat /\ kinds \in Seq(Kind)
    BY TaskIs DEF Typed
  <2>2. calls \in Seq(Call) /\ DOMAIN kinds = 1 .. Len(kinds) /\ Len(calls) = Len(kinds)
    BY <2>1, CallsType, LenProperties
  <2>3. \A j \in 1 .. Len(calls) : calls[j].turn = turn
    BY <2>2
  <2>4. /\ messages' = Append(messages, Message("assistant", calls)) /\ Conversing(messages)
        /\ used'.turns = turn
        /\ pc' = "failing" \/ (pc' = "call" /\ batch' = calls)
    BY <1>13 DEF ToolReply, Works, Shape, Talking, Fail, Typed
  <2> HIDE DEF calls, turn
  <2>5. Calling(messages', calls, turn)
    BY <1>1, <2>2, <2>3, <2>4, CallingReply
  <2>6. CASE pc' = "failing"
    BY <1>3, <2>6 DEF Talking, Turning
  <2>7. CASE pc' = "call" /\ batch' = calls
    BY <1>4, <2>4, <2>5, <2>7
  <2>8. QED
    BY <2>4, <2>6, <2>7
<1>14. CASE HostAnswers
  <2>1. PICK ok \in BOOLEAN : Answered(ok)
    BY <1>14 DEF HostAnswers
  <2>2. QED
    BY <1>5, <1>14, <2>1 DEF HostAnswers, Works, Turning
<1>15. CASE ApprovalDecided
  <2>1. pc \in Turning /\ batch # <<>>
    BY <1>15 DEF ApprovalDecided, Works, Shape, Turning
  <2>2. CASE pc' = "run" /\ UNCHANGED <<messages, batch>>
    BY <1>2, <1>15, <2>1, <2>2 DEF ApprovalDecided, Turning, Talking
  <2>3. CASE pc' = "call" /\ Answered(FALSE)
    BY <1>5, <1>15, <2>1, <2>3 DEF ApprovalDecided
  <2>4. QED
    BY <1>15, <2>2, <2>3 DEF ApprovalDecided
<1>16. CASE HumanDecided
  <2>1. gate.answer \in BOOLEAN /\ batch # <<>> /\ pc \in Turning
    BY <1>16 DEF HumanDecided, Works, Shape, Turning, Gated, Gate
  <2>2. QED
    BY <1>5, <1>16, <2>1 DEF HumanDecided
<1>17. CASE BatchDone
  <2>1. Conversing(messages)
    BY <1>1, <1>17, CallingDone DEF BatchDone, Works, Shape, Turning
  <2>2. QED
    BY <1>3, <1>17, <2>1 DEF BatchDone, Turning
<1>18. ASSUME NEW end \in Ends, ToolReturns(end) PROVE Shape'
  <2>1. pc \in Turning /\ batch # <<>> /\ used' = used
    BY <1>18 DEF ToolReturns, Works, Shape, Turning
  <2>2. CASE pc' = "call" /\ Answered(end # "failed")
    <3>1. (end # "failed") \in BOOLEAN
      OBVIOUS
    <3>2. QED
      BY <1>5, <2>1, <2>2, <3>1
  <2>3. CASE pc' = "closing"
    BY <1>3, <2>3 DEF Turning, Talking
  <2>4. QED
    BY <1>18, <2>2, <2>3 DEF ToolReturns
<1>19. CASE UNCHANGED vars \/ User
  <2>1. UNCHANGED <<messages, batch, applied, pc>>
    BY <1>19 DEF vars, User, Steer, TakeOver, Stop, DecideApproval, CompleteHuman
  <2>2. used'.turns = used.turns
    BY <1>19 DEF vars, User, Steer, TakeOver, Stop, DecideApproval, CompleteHuman, Typed
  <2>3. QED
    BY <2>1, <2>2 DEF Shape
<1>20. CASE Propose \/ Decide \/ \E m \in Member : AskMember(m) \/ Advise(m)
  BY <1>2, <1>20 DEF Propose, Decide, AskMember, Advise, FailSetup, Works, Talking, Turning
<1>21. CASE ProviderFails \/ Complete \/ Close \/ ReportFailure \/ Cleanup \/ Interrupted
  BY <1>3, <1>21 DEF ProviderFails, Complete, Close, ReportFailure, Cleanup, Interrupted, Fail, Talking, Turning
<1>22. CASE StartTool \/ AskApproval \/ OfferHuman \/ RegisterHuman
  BY <1>2, <1>22 DEF StartTool, AskApproval, OfferHuman, RegisterHuman, Works, Talking, Turning, Shape
<1>23. QED
  BY <1>6, <1>7, <1>8, <1>10, <1>11, <1>12, <1>13, <1>14, <1>15, <1>16, <1>17, <1>18, <1>19, <1>20,
     <1>21, <1>22 DEF Next, Worker

-----------------------------------------------------------------------------
(* The gates.                                                              *)

\* Every step keeps the request of a gate and the call under way together.
LEMMA NextGated ==
    ASSUME Typed, Shape, Gated, [Next]_vars
    PROVE  Gated'
<1> USE DEF turnState, budgets, team, history
<1>1. ASSUME UNCHANGED <<gate, pc, batch>>, granted \subseteq granted'
      PROVE  Gated'
  <2>1. NextCall' = NextCall
    BY <1>1 DEF NextCall
  <2>2. QED
    BY <1>1, <2>1 DEF Gated
<1>2. ASSUME gate' = None \/ (gate' = gate /\ pc \notin {"asked", "handed"}), pc' \notin {"asked", "handed"}
      PROVE  Gated'
  BY <1>2 DEF Gated
<1>3. ASSUME gate # None, UNCHANGED <<pc, batch>>, granted \subseteq granted',
             NEW yes \in BOOLEAN, NEW t \in BOOLEAN, gate.answer = None,
             gate' = [gate EXCEPT !.answer = yes], yes => gate.call \in granted'
      PROVE  Gated'
  <2>1. NextCall' = NextCall /\ gate \in Gate /\ pc \in {"asked", "handed"} /\ gate.call = NextCall
    BY <1>3 DEF NextCall, Gated
  <2>2. gate' \in Gate /\ gate'.answer = yes /\ gate'.call = gate.call /\ gate'.kind = gate.kind
    BY <1>3, <2>1 DEF Gate
  <2>3. QED
    BY <1>3, <2>1, <2>2 DEF Gated
<1>4. CASE AskApproval
  <2>1. pc' = "asked" /\ UNCHANGED batch /\ batch # <<>>
        /\ gate' = [kind |-> "approval", call |-> NextCall, taken |-> FALSE, answer |-> None]
    BY <1>4 DEF AskApproval
  <2>2. NextCall \in Call
    BY <2>1, HeadTailProperties DEF Typed, NextCall
  <2>3. gate' \in Gate /\ gate'.call = NextCall /\ gate'.answer = None /\ gate'.kind = "approval"
    BY <2>1, <2>2 DEF Gate
  <2>4. NextCall' = NextCall
    BY <2>1 DEF NextCall
  <2>5. QED
    BY <2>1, <2>3, <2>4 DEF Gated
<1>5. CASE RegisterHuman
  <2>1. pc' = "handed" /\ UNCHANGED batch /\ batch # <<>>
        /\ gate' = [kind |-> "human", call |-> NextCall, taken |-> FALSE, answer |-> None]
    BY <1>5 DEF RegisterHuman, Works, Shape, Turning
  <2>2. NextCall \in Call
    BY <2>1, HeadTailProperties DEF Typed, NextCall
  <2>3. gate' \in Gate /\ gate'.call = NextCall /\ gate'.answer = None /\ gate'.kind = "human"
    BY <2>1, <2>2 DEF Gate
  <2>4. NextCall' = NextCall
    BY <2>1 DEF NextCall
  <2>5. QED
    BY <2>1, <2>3, <2>4 DEF Gated
<1>6. CASE Setup \/ Propose \/ Decide \/ \E m \in Member : AskMember(m) \/ Advise(m)
  BY <1>2, <1>6 DEF Setup, Started, Propose, Decide, AskMember, Advise, FailSetup, Works
<1>7. CASE LoopHead \/ Overflow \/ ProviderFails \/ AnswerOvertaken \/ Retry \/ Complete \/ Close
  BY <1>2, <1>7 DEF LoopHead, Overflow, ArchiveFails, ProviderFails, AnswerOvertaken, Retry, Complete, Close, Fail, Works
<1>8. ASSUME NEW text \in Texts, Text(text) PROVE Gated'
  BY <1>2, <1>8 DEF Text, Handoff, EmptyReply, BrokenContract, MissingArtifact, MissingPreview,
     BadSlides, Accept, Delivered, Final, Works, Recover, RetryOutput, Fail
<1>9. ASSUME NEW kinds \in task.batches, ToolReply(kinds) PROVE Gated'
  BY <1>2, <1>9 DEF ToolReply, Works, Fail
<1>10. CASE HostAnswers \/ StartTool \/ OfferHuman \/ BatchDone \/ \E end \in Ends : ToolReturns(end)
  BY <1>2, <1>10 DEF HostAnswers, StartTool, OfferHuman, BatchDone, ToolReturns, Works
<1>11. CASE ApprovalDecided \/ HumanDecided
  BY <1>2, <1>11 DEF ApprovalDecided, HumanDecided
<1>12. CASE ReportFailure \/ Cleanup \/ Interrupted
  BY <1>2, <1>12 DEF ReportFailure, Cleanup, Interrupted, Works
<1>13. CASE UNCHANGED vars \/ Steer
  BY <1>1, <1>13 DEF vars, Steer
<1>14. ASSUME NEW yes \in BOOLEAN, DecideApproval(yes) \/ CompleteHuman(yes) PROVE Gated'
  BY <1>3, <1>14 DEF DecideApproval, CompleteHuman
<1>15. CASE TakeOver
  <2>1. /\ gate # None /\ UNCHANGED <<pc, batch, granted>> /\ gate' = [gate EXCEPT !.taken = TRUE]
    BY <1>15 DEF TakeOver
  <2>2. NextCall' = NextCall /\ gate \in Gate
    BY <2>1 DEF NextCall, Gated
  <2>3. /\ gate' \in Gate /\ gate'.answer = gate.answer /\ gate'.call = gate.call /\ gate'.kind = gate.kind
    BY <2>1, <2>2 DEF Gate
  <2>4. QED
    BY <2>1, <2>2, <2>3 DEF Gated
<1>16. CASE Stop
  <2>1. UNCHANGED <<pc, batch, granted>>
    BY <1>16 DEF Stop
  <2>2. CASE gate # None /\ gate.answer = None /\ gate' = [gate EXCEPT !.answer = FALSE]
    BY <1>3, <2>1, <2>2
  <2>3. CASE gate' = gate
    BY <1>1, <2>1, <2>3
  <2>4. QED
    BY <1>16, <2>2, <2>3 DEF Stop
<1>17. QED
  BY <1>4, <1>5, <1>6, <1>7, <1>8, <1>9, <1>10, <1>11, <1>12, <1>13, <1>14, <1>15, <1>16 DEF Next, Worker, User

-----------------------------------------------------------------------------
(* The follow-ups.                                                         *)

\* A message from which a follow-up can be read.
Shows(m, f) == \/ m.role = "followup" /\ m.ref = f
               \/ m.role = "checkpoint" /\ \E a \in m.ref.archives : f \in a

\* A follow-up within reach of messages.
Holds(ms, f) == \E i \in DOMAIN ms : Shows(ms[i], f)

\* A message more loses no follow-up.
LEMMA HoldsAppend ==
    ASSUME NEW n \in Nat, NEW ms \in Messages(n), NEW m \in AnyMessage(n), NEW f, Holds(ms, f)
    PROVE  Holds(Append(ms, m), f)
<1>1. PICK i \in 1 .. Len(ms) : Shows(ms[i], f)
  BY LenProperties DEF Holds, Messages
<1>2. /\ Append(ms, m)[i] = ms[i] /\ Append(ms, m) \in Messages(n) /\ Len(Append(ms, m)) = Len(ms) + 1
      /\ Len(ms) \in Nat
  BY AppendProperties, LenProperties DEF Messages
<1>3. DOMAIN Append(ms, m) = 1 .. Len(ms) + 1
  BY <1>2, LenProperties DEF Messages
<1>4. i \in 1 .. Len(ms) + 1
  BY <1>2
<1>5. QED
  BY <1>1, <1>2, <1>3, <1>4 DEF Holds

\* The follow-ups of a queue join those of the conversation.
LEMMA HoldsJoined ==
    ASSUME NEW n \in Nat, NEW ms \in Messages(n), NEW q \in Seq(1 .. n), NEW f,
           Holds(ms, f) \/ f \in ToSet(q)
    PROVE  Holds(Joined(ms, q), f)
<1> DEFINE js == Joined(ms, q)
<1>1. /\ Len(ms) \in Nat /\ Len(q) \in Nat /\ js \in Messages(n) /\ Len(js) = Len(ms) + Len(q)
      /\ \A i \in 1 .. Len(ms) : js[i] = ms[i]
      /\ \A i \in 1 .. Len(q) : js[Len(ms) + i] = Message("followup", q[i])
  BY JoinedIs DEF Messages
<1> HIDE DEF js
<1>2. DOMAIN js = 1 .. Len(ms) + Len(q)
  BY <1>1, LenProperties DEF Messages
<1>3. CASE Holds(ms, f)
  <2>1. PICK i \in 1 .. Len(ms) : Shows(ms[i], f)
    BY <1>3, LenProperties DEF Holds, Messages
  <2>2. i \in 1 .. Len(ms) + Len(q)
    BY <1>1
  <2>3. QED
    BY <1>1, <1>2, <2>1, <2>2 DEF Holds, js
<1>4. CASE f \in ToSet(q)
  <2>1. PICK i \in 1 .. Len(q) : q[i] = f
    BY <1>4, LenProperties DEF ToSet
  <2>2. Len(ms) + i \in 1 .. Len(ms) + Len(q)
    BY <1>1
  <2>3. js[Len(ms) + i] = Message("followup", f)
    BY <1>1, <2>1
  <2>4. QED
    BY <1>2, <2>2, <2>3 DEF Holds, Shows, Message, js
<1>5. QED
  BY <1>3, <1>4

\* The reply that a retry drops is no follow-up.
LEMMA HoldsFront ==
    ASSUME NEW n \in Nat, NEW ms \in Messages(n), ms # <<>>, ms[Len(ms)].role = "assistant", NEW f, Holds(ms, f)
    PROVE  Holds(Front(ms), f)
<1>1. PICK i \in 1 .. Len(ms) : Shows(ms[i], f)
  BY LenProperties DEF Holds, Messages
<1>2. /\ Len(ms) \in Nat \ {0} /\ Front(ms) \in Messages(n) /\ Len(Front(ms)) = Len(ms) - 1
      /\ \A j \in 1 .. Len(ms) - 1 : Front(ms)[j] = ms[j]
  BY FrontIs DEF Messages
<1>3. i # Len(ms)
  BY <1>1 DEF Shows
<1>4. i \in 1 .. Len(ms) - 1
  BY <1>2, <1>3
<1>5. DOMAIN Front(ms) = 1 .. Len(ms) - 1
  BY <1>2, LenProperties DEF Messages
<1>6. QED
  BY <1>1, <1>2, <1>4, <1>5 DEF Holds

\* The names of archives in a longer and in a shorter conversation.
LEMMA NamedAppend ==
    ASSUME NEW n \in Nat, NEW ms \in Messages(n), NEW m \in AnyMessage(n), m.role # "checkpoint",
           NEW as, Named(ms, as)
    PROVE  Named(Append(ms, m), as)
<1>1. /\ Len(ms) \in Nat /\ Len(Append(ms, m)) = Len(ms) + 1 /\ Append(ms, m) \in Messages(n)
      /\ Append(ms, m)[Len(ms) + 1] = m /\ \A i \in 1 .. Len(ms) : Append(ms, m)[i] = ms[i]
  BY AppendProperties, LenProperties DEF Messages
<1>2. DOMAIN Append(ms, m) = 1 .. Len(ms) + 1 /\ DOMAIN ms = 1 .. Len(ms)
  BY <1>1, LenProperties DEF Messages
<1>3. \A i \in 1 .. Len(ms) + 1 : i \in 1 .. Len(ms) \/ i = Len(ms) + 1
  BY <1>1
<1>4. QED
  BY <1>1, <1>2, <1>3 DEF Named

\* The follow-ups of a queue name no archives.
LEMMA NamedJoined ==
    ASSUME NEW n \in Nat, NEW ms \in Messages(n), NEW q \in Seq(1 .. n), NEW as, Named(ms, as)
    PROVE  Named(Joined(ms, q), as)
<1> DEFINE js == Joined(ms, q)
<1>1. /\ Len(ms) \in Nat /\ Len(q) \in Nat /\ js \in Messages(n) /\ Len(js) = Len(ms) + Len(q)
      /\ \A i \in 1 .. Len(ms) : js[i] = ms[i]
      /\ \A i \in 1 .. Len(q) : js[Len(ms) + i] = Message("followup", q[i])
  BY JoinedIs DEF Messages
<1> HIDE DEF js
<1>2. DOMAIN js = 1 .. Len(ms) + Len(q) /\ DOMAIN ms = 1 .. Len(ms)
  BY <1>1, LenProperties DEF Messages
<1>3. \A i \in 1 .. Len(ms) + Len(q) : i \in 1 .. Len(ms) \/ js[i].role = "followup"
  <2> SUFFICES ASSUME NEW i \in 1 .. Len(ms) + Len(q), i \notin 1 .. Len(ms) PROVE js[i].role = "followup"
    OBVIOUS
  <2> DEFINE d == i - Len(ms)
  <2>1. d \in 1 .. Len(q) /\ Len(ms) + d = i
    BY <1>1
  <2> HIDE DEF d
  <2>2. js[Len(ms) + d] = Message("followup", q[d])
    BY <1>1, <2>1
  <2>3. js[Len(ms) + d].role = "followup"
    BY <2>2 DEF Message
  <2>4. QED
    BY <2>1, <2>3
<1>4. Named(js, as)
  BY <1>1, <1>2, <1>3 DEF Named
<1>5. QED
  BY <1>4 DEF js

\* A conversation without its last message.
LEMMA NamedFront ==
    ASSUME NEW n \in Nat, NEW ms \in Messages(n), ms # <<>>, NEW as, Named(ms, as)
    PROVE  Named(Front(ms), as)
<1>1. /\ Len(ms) \in Nat \ {0} /\ Front(ms) \in Messages(n) /\ Len(Front(ms)) = Len(ms) - 1
      /\ \A j \in 1 .. Len(ms) - 1 : Front(ms)[j] = ms[j]
  BY FrontIs DEF Messages
<1>2. DOMAIN Front(ms) = 1 .. Len(ms) - 1 /\ DOMAIN ms = 1 .. Len(ms)
  BY <1>1, LenProperties DEF Messages
<1>3. \A j \in 1 .. Len(ms) - 1 : j \in 1 .. Len(ms)
  BY <1>1
<1>4. QED
  BY <1>1, <1>2, <1>3 DEF Named

\* What a compaction archives its checkpoint names, with all that the
\* checkpoints before it named.
LEMMA HoldsCompact ==
    ASSUME Typed, NEW ms \in Messages(task.followUps), ms # <<>>, Named(ms, archives), Compact(ms)
    PROVE  Named(messages', archives') /\ \A f : Holds(ms, f) => Holds(messages', f)
<1>1. PICK c \in Checkpoint(task.followUps) :
         c.archives = archives' /\ messages' = <<ms[1], Message("checkpoint", c)>>
  BY CompactIs DEF Messages
<1>2. archives' = archives \cup {FollowUpsOf(ms)}
  BY CompactIs DEF Messages
<1>3. /\ DOMAIN messages' = 1 .. 2 /\ messages'[1] = ms[1] /\ messages'[2].role = "checkpoint"
      /\ messages'[2].ref.archives = archives'
  BY <1>1 DEF Message
<1>4. 1 \in DOMAIN ms
  BY LenProperties, EmptySeq DEF Messages
<1>5. Named(messages', archives')
  <2>1. ms[1].role = "checkpoint" => ms[1].ref.archives \subseteq archives'
    BY <1>2, <1>4 DEF Named
  <2>2. \A i \in 1 .. 2 : i = 1 \/ i = 2
    OBVIOUS
  <2>3. QED
    BY <1>3, <2>1, <2>2 DEF Named
<1>6. ASSUME NEW f, Holds(ms, f) PROVE \E a \in archives' : f \in a
  <2>1. PICK i \in DOMAIN ms : Shows(ms[i], f)
    BY <1>6 DEF Holds
  <2>2. CASE ms[i].role = "followup" /\ ms[i].ref = f
    BY <1>2, <2>2 DEF FollowUpsOf
  <2>3. CASE ms[i].role = "checkpoint" /\ \E a \in ms[i].ref.archives : f \in a
    BY <1>2, <2>3 DEF Named
  <2>4. QED
    BY <2>1, <2>2, <2>3 DEF Shows
<1>7. 2 \in 1 .. 2
  OBVIOUS
<1>8. \A f : Holds(ms, f) => Holds(messages', f)
  BY <1>3, <1>6, <1>7 DEF Holds, Shows
<1>9. QED
  BY <1>5, <1>8

\* Every step keeps the follow-ups that were taken within reach.
LEMMA NextFollowUps ==
    ASSUME Typed, Shape, Gated, FollowUpsKept, Named(messages, archives), [Next]_vars
    PROVE  FollowUpsKept' /\ Named(messages, archives)'
<1> DEFINE n == task.followUps
           Kept == FollowUpsKept' /\ Named(messages, archives)'
<1>1. n \in Nat /\ messages \in Messages(n) /\ batch \in Seq(Call) /\ queue \in Seq(1 .. n)
  BY TaskIs DEF Typed, Messages
<1> USE DEF turnState, budgets, team, history
<1>2. \A f \in applied : Holds(messages, f)
  BY DEF FollowUpsKept, Holds, Shows
<1>3. ASSUME \A f \in applied' : Holds(messages', f), Named(messages', archives')
      PROVE  Kept
  BY <1>3 DEF FollowUpsKept, Holds, Shows, Named
<1> SUFFICES Kept
  OBVIOUS
<1> HIDE DEF n, Kept
<1>4. ASSUME UNCHANGED <<messages, archives, applied>>
      PROVE  Kept
  BY <1>2, <1>3, <1>4
<1>5. ASSUME NEW m \in AnyMessage(n), m.role # "checkpoint", messages' = Append(messages, m),
             UNCHANGED <<archives, applied>>
      PROVE  Kept
  BY <1>1, <1>2, <1>3, <1>5, HoldsAppend, NamedAppend
<1>6. ASSUME batch # <<>>, NEW ok \in BOOLEAN, Answered(ok), UNCHANGED <<archives, applied>>
      PROVE  Kept
  <2>1. Result(NextCall, ok) \in AnyMessage(n) /\ Result(NextCall, ok).role = "tool"
    BY <1>1, <1>6, HeadTailProperties, MessageTypes DEF NextCall, Result, Message
  <2>2. QED
    BY <1>5, <1>6, <2>1 DEF Answered
<1>7. Message("assistant", <<>>) \in AnyMessage(n) /\ Message("assistant", <<>>).role = "assistant"
  BY <1>1, MessageTypes, EmptySeq DEF Message
<1>8. CASE Setup
  <2>1. CASE UNCHANGED <<messages, archives, applied>>
    BY <1>4, <2>1
  <2>2. CASE messages' = <<Message("system", 0), Message("user", 0)>> /\ pc = "setup" /\ applied' = applied
    BY <1>3, <2>2 DEF Shape, Named, Message
  <2>3. QED
    BY <1>8, <2>1, <2>2 DEF Setup, Started, FailSetup, Works
<1>9. ASSUME NEW ms \in Messages(n), ms # <<>>, Compact(ms), Named(ms, archives), \A f \in applied' : Holds(ms, f)
      PROVE  Kept
  BY <1>3, <1>9, HoldsCompact DEF n
<1>10. CASE LoopHead
  <2>1. Drained = Joined(messages, queue) /\ applied' = applied \cup ToSet(queue)
    BY <1>10 DEF LoopHead, Drained, Joined
  <2>2. /\ Drained \in Messages(n) /\ Named(Drained, archives)
        /\ \A f \in applied' : Holds(Drained, f)
    BY <1>1, <1>2, <2>1, HoldsJoined, NamedJoined, JoinedIs DEF Messages
  <2>3. Compact(Drained) \/ (messages' = Drained /\ archives' = archives)
    BY <1>10 DEF LoopHead, ArchiveFails
  <2>4. Drained # <<>>
    <3>1. messages # <<>> /\ Len(Drained) = Len(messages) + Len(queue) /\ Len(messages) \in Nat /\ Len(queue) \in Nat
      BY <1>1, <1>10, <2>1, JoinedIs DEF LoopHead, Works, Shape, Talking, Conversing, Messages
    <3>2. Len(messages) # 0
      BY <1>1, <3>1, EmptySeq DEF Messages
    <3>3. QED
      BY <3>1, <3>2
  <2>5. QED
    BY <1>3, <1>9, <2>2, <2>3, <2>4
<1>11. CASE Overflow
  <2>1. messages # <<>> /\ applied' = applied /\ (Compact(messages) \/ UNCHANGED <<messages, archives>>)
    BY <1>11 DEF Overflow, ArchiveFails, Works, Shape, Talking, Conversing
  <2>2. QED
    BY <1>1, <1>2, <1>4, <1>9, <2>1
<1>12. CASE AnswerOvertaken
  <2> DEFINE as == Append(messages, Message("assistant", <<>>))
  <2>1. as \in Messages(n) /\ Named(as, archives) /\ \A f \in applied : Holds(as, f)
    <3>1. as \in Messages(n)
      BY <1>1, <1>7, AppendProperties DEF Messages
    <3>2. Named(as, archives)
      BY <1>1, <1>7, NamedAppend
    <3>3. \A f \in applied : Holds(as, f)
      BY <1>1, <1>2, <1>7, HoldsAppend
    <3>4. QED
      BY <3>1, <3>2, <3>3
  <2>2. messages' = Joined(as, queue) /\ applied' = applied \cup ToSet(queue) /\ archives' = archives
    BY <1>12 DEF AnswerOvertaken, Joined
  <2> HIDE DEF as
  <2>3. QED
    BY <1>1, <1>3, <2>1, <2>2, HoldsJoined, NamedJoined
<1>13. ASSUME NEW text \in Texts, Text(text) PROVE Kept
  <2>1. messages' = Append(messages, Message("assistant", <<>>)) /\ UNCHANGED <<archives, applied>>
    BY <1>13 DEF Text, Handoff, EmptyReply, BrokenContract, MissingArtifact, MissingPreview,
         BadSlides, Accept, Replied
  <2>2. QED
    BY <1>5, <1>7, <2>1
<1>14. CASE Retry
  <2> DEFINE kept == IF plan.pop THEN Front(messages) ELSE messages
             note == Message("note", "slides")
  <2>1. messages # <<>> /\ messages[Len(messages)].role = "assistant"
    BY <1>14 DEF Retry, Works, Shape, Talking, Conversing
  <2>2. kept \in Messages(n) /\ Named(kept, archives) /\ \A f \in applied : Holds(kept, f)
    BY <1>1, <1>2, <2>1, HoldsFront, NamedFront, FrontIs DEF Messages
  <2>3. messages' \in {kept, Append(kept, note)} /\ UNCHANGED <<archives, applied>>
    BY <1>14 DEF Retry
  <2>4. note \in AnyMessage(n) /\ note.role # "checkpoint"
    BY <1>1, MessageTypes DEF Message
  <2> HIDE DEF kept, note
  <2>5. Named(Append(kept, note), archives) /\ \A f \in applied : Holds(Append(kept, note), f)
    BY <1>1, <2>2, <2>4, HoldsAppend, NamedAppend
  <2>6. QED
    BY <1>3, <2>2, <2>3, <2>5
<1>15. ASSUME NEW kinds \in task.batches, ToolReply(kinds) PROVE Kept
  <2> DEFINE turn == used.turns + 1
             calls == [i \in DOMAIN kinds |-> [turn |-> turn, at |-> i, kind |-> kinds[i]]]
  <2>1. turn \in Nat /\ kinds \in Seq(Kind)
    BY TaskIs DEF Typed
  <2>2. calls \in Seq(Call)
    BY <2>1, CallsType
  <2>3. messages' = Append(messages, Message("assistant", calls)) /\ UNCHANGED <<archives, applied>>
    BY <1>15 DEF ToolReply
  <2> HIDE DEF calls
  <2>4. Message("assistant", calls) \in AnyMessage(n) /\ Message("assistant", calls).role = "assistant"
    BY <1>1, <2>2, MessageTypes DEF Message
  <2>5. QED
    BY <1>5, <2>3, <2>4
<1>16. CASE HostAnswers
  <2>1. PICK ok \in BOOLEAN : Answered(ok)
    BY <1>16 DEF HostAnswers
  <2>2. QED
    BY <1>6, <1>16, <2>1 DEF HostAnswers
<1>17. CASE ApprovalDecided \/ HumanDecided
  <2>1. batch # <<>> /\ UNCHANGED <<archives, applied>>
    BY <1>17 DEF ApprovalDecided, HumanDecided, Works, Shape, Turning
  <2>2. UNCHANGED messages \/ \E ok \in BOOLEAN : Answered(ok)
    BY <1>17 DEF ApprovalDecided, HumanDecided, Works, Gated, Gate
  <2>3. QED
    BY <1>4, <1>6, <2>1, <2>2
<1>18. ASSUME NEW end \in Ends, ToolReturns(end) PROVE Kept
  <2>1. /\ batch # <<>> /\ UNCHANGED <<archives, applied>> /\ (end # "failed") \in BOOLEAN
        /\ Answered(end # "failed") \/ UNCHANGED messages
    BY <1>18 DEF ToolReturns, Works, Shape, Turning
  <2>2. QED
    BY <1>4, <1>6, <2>1
<1>19. CASE Propose \/ Decide \/ (\E m \in Member : AskMember(m) \/ Advise(m)) \/ ProviderFails \/ Complete \/ Close
  BY <1>4, <1>19 DEF Propose, Decide, AskMember, Advise, ProviderFails, Complete, Close
<1>20. CASE StartTool \/ AskApproval \/ OfferHuman \/ RegisterHuman \/ BatchDone
            \/ ReportFailure \/ Cleanup \/ Interrupted
  BY <1>4, <1>20 DEF StartTool, AskApproval, OfferHuman, RegisterHuman, BatchDone, ReportFailure, Cleanup, Interrupted
<1>21. CASE UNCHANGED vars \/ User
  BY <1>4, <1>21 DEF vars, User, Steer, TakeOver, Stop, DecideApproval, CompleteHuman
<1>22. QED
  BY <1>8, <1>10, <1>11, <1>12, <1>13, <1>14, <1>15, <1>16, <1>17, <1>18, <1>19, <1>20, <1>21
     DEF Next, Worker

-----------------------------------------------------------------------------
(* The tools executed.                                                     *)

\* The open reply is the last one, so its calls are the current ones.
LEMMA CallsOfOpen ==
    ASSUME NEW n \in Nat, NEW ms \in Messages(n), NEW b, NEW i \in 1 .. Len(ms), Open(ms, b, i)
    PROVE  CallsOf(ms) = ToSet(ms[i].ref)
<1> DEFINE k == Len(ms)
           L(j) == ms[j].role = "assistant" /\ \A l \in j + 1 .. k : ms[l].role # "assistant"
<1>1. k \in Nat /\ DOMAIN ms = 1 .. k /\ i \in 1 .. k
  BY LenProperties DEF Messages
<1>2. ms[i].role = "assistant" /\ \A j \in 1 .. k - i : ms[i + j].role = "tool"
  BY DEF Open
<1>3. \A l \in i + 1 .. k : ms[l].role # "assistant"
  <2> SUFFICES ASSUME NEW l \in i + 1 .. k PROVE ms[l].role # "assistant"
    OBVIOUS
  <2> DEFINE d == l - i
  <2>1. d \in 1 .. k - i /\ i + d = l
    BY <1>1
  <2> HIDE DEF d
  <2>2. ms[i + d].role = "tool"
    BY <1>2, <2>1
  <2>3. QED
    BY <2>1, <2>2
<1>4. L(i)
  BY <1>2, <1>3
<1>5. \A j \in 1 .. k : L(j) => j = i
  <2> SUFFICES ASSUME NEW j \in 1 .. k, L(j) PROVE j = i
    OBVIOUS
  <2>1. ~(j < i)
    <3>1. j < i => i \in j + 1 .. k
      BY <1>1
    <3>2. QED
      BY <1>2, <3>1
  <2>2. ~(i < j)
    <3>1. i < j => j \in i + 1 .. k
      BY <1>1
    <3>2. QED
      BY <1>3, <3>1
  <2>3. QED
    BY <1>1, <2>1, <2>2
<1>6. CallsOf(ms) = LET c == CHOOSE j \in 1 .. k : L(j) IN ToSet(ms[c].ref)
  BY <1>1 DEF CallsOf
<1> HIDE DEF L
<1>7. (CHOOSE j \in 1 .. k : L(j)) = i
  BY <1>1, <1>4, <1>5
<1>8. QED
  BY <1>6, <1>7

\* The call under way is one of the current reply, and of the current turn.
LEMMA NextIsCurrent ==
    ASSUME Typed, Shape, pc \in Turning, batch # <<>>
    PROVE  NextCall \in Call /\ NextCall \in CurrentCalls /\ NextCall.turn = used.turns
<1> DEFINE n == task.followUps
<1>1. n \in Nat /\ messages \in Messages(n) /\ batch \in Seq(Call) /\ Len(batch) \in Nat \ {0}
  BY TaskIs, LenProperties, EmptySeq DEF Typed, Messages
<1>2. NextCall \in Call /\ NextCall = batch[1] /\ 1 \in 1 .. Len(batch)
  BY <1>1, HeadTailProperties DEF NextCall
<1>3. PICK i \in 1 .. Len(messages) :
         Open(messages, batch, i) /\ \A j \in 1 .. Len(messages[i].ref) : messages[i].ref[j].turn = used.turns
  BY DEF Shape, Calling
<1> DEFINE j == Len(messages) - i + 1
           calls == messages[i].ref
<1>4. /\ Len(messages) \in Nat /\ calls \in Seq(Call) /\ Len(calls) \in Nat
      /\ Len(calls) = Len(messages) - i + Len(batch) /\ batch[1] = calls[Len(messages) - i + 1]
  BY <1>1, <1>2, <1>3, CallsCounted, LenProperties DEF Open, Messages
<1>5. j \in 1 .. Len(calls) /\ batch[1] = calls[j]
  BY <1>1, <1>4
<1>6. CurrentCalls = ToSet(calls)
  <2>1. CallsOf(messages) = ToSet(calls)
    BY <1>1, <1>3, CallsOfOpen
  <2>2. QED
    BY <2>1 DEF CallsOf, CurrentCalls
<1>7. calls[j] \in ToSet(calls)
  BY <1>4, <1>5, LenProperties DEF ToSet
<1>8. QED
  BY <1>2, <1>3, <1>5, <1>6, <1>7

\* An answer leaves the current calls as they are.
LEMMA AnsweredCalls ==
    ASSUME Typed, Shape, pc \in Turning, batch # <<>>, NEW ok \in BOOLEAN, Answered(ok)
    PROVE  CurrentCalls' = CurrentCalls
<1> DEFINE n == task.followUps
           as == Append(messages, Result(Head(batch), ok))
<1>1. n \in Nat /\ messages \in Messages(n) /\ batch \in Seq(Call)
  BY TaskIs DEF Typed, Messages
<1>2. messages' = as
  BY DEF Answered, NextCall
<1>3. PICK i \in 1 .. Len(messages) : Open(messages, batch, i)
  BY DEF Shape, Calling
<1>4. i \in 1 .. Len(as) /\ Open(as, Tail(batch), i) /\ as[i] = messages[i]
  BY <1>1, <1>3, OpenAnswer
<1>5. as \in Messages(n)
  <2>1. Head(batch) \in Call
    BY <1>1, HeadTailProperties
  <2>2. Result(Head(batch), ok) \in AnyMessage(n)
    BY <1>1, <2>1, MessageTypes
  <2>3. QED
    BY <1>1, <2>2, AppendProperties DEF Messages
<1> HIDE DEF as
<1>6. CallsOf(messages) = ToSet(messages[i].ref)
  BY <1>1, <1>3, CallsOfOpen
<1>7. CallsOf(as) = ToSet(as[i].ref)
  BY <1>1, <1>4, <1>5, CallsOfOpen
<1>8. CurrentCalls' = CallsOf(as) /\ CurrentCalls = CallsOf(messages)
  BY <1>2 DEF CurrentCalls, CallsOf
<1>9. QED
  BY <1>4, <1>6, <1>7, <1>8

\* Only a tool with effects needs an approval, and a reply that holds one beside
\* a delegation is mixed.
LEMMA MixedIs ==
    ASSUME NEW c \in CurrentCalls, NEW d \in CurrentCalls, d.kind = "delegate", Risk(c.kind) # "safe"
    PROVE  MixedBatch
<1>1. c.kind \notin {"delegate", "specialists", "observe"}
  BY DEF Risk, Makes
<1>2. QED
  BY <1>1 DEF MixedBatch

\* What was allowed stays allowed while no tool runs.
LEMMA AllowedStays ==
    ASSUME Executed, UNCHANGED <<task, log>>, granted \subseteq granted'
    PROVE  ExecutedOnlyIfAllowed'
BY DEF Executed, ExecutedOnlyIfAllowed, Required

\* What the log of the run becomes when a tool returns.
LEMMA LogAppended ==
    ASSUME Typed, NEW c \in Call, NEW end \in Ends \cup {"denied"}, log' = Append(log, [call |-> c, end |-> end])
    PROVE  /\ Len(log) \in Nat /\ Len(log') = Len(log) + 1
           /\ DOMAIN log = 1 .. Len(log) /\ DOMAIN log' = 1 .. Len(log) + 1
           /\ \A i \in 1 .. Len(log) : log'[i] = log[i]
           /\ log'[Len(log) + 1].call = c /\ log'[Len(log) + 1].end = end
<1> DEFINE S == Entry
           e == [call |-> c, end |-> end]
<1>1. log \in Seq(S) /\ e \in S /\ e.call = c /\ e.end = end
  BY DEF Typed, Entry
<1>2. log' = Append(log, e)
  OBVIOUS
<1> HIDE DEF S, e
<1>3. /\ Append(log, e) \in Seq(S) /\ Len(Append(log, e)) = Len(log) + 1
      /\ Append(log, e)[Len(log) + 1] = e /\ \A i \in 1 .. Len(log) : Append(log, e)[i] = log[i]
  BY <1>1, AppendProperties
<1>4. QED
  BY <1>1, <1>2, <1>3, LenProperties

\* The entries of the log hold calls.
LEMMA LogTyped ==
    ASSUME Typed
    PROVE  \A i \in DOMAIN log : log[i].call \in Call /\ log[i].end \in Ends \cup {"denied"}
<1> DEFINE S == Entry
<1>1. log \in Seq(S)
  BY DEF Typed
<1>2. \A e \in S : e.call \in Call /\ e.end \in Ends \cup {"denied"}
  BY DEF Entry
<1> HIDE DEF S
<1>3. \A i \in DOMAIN log : log[i] \in S
  BY <1>1, LenProperties
<1>4. QED
  BY <1>2, <1>3

\* The tools executed are of turns taken so far.
LEMMA LogTurns ==
    ASSUME Typed, Executed
    PROVE  /\ used.turns \in Nat
           /\ \A i \in DOMAIN log : log[i].call.turn \in Nat /\ log[i].call.turn <= used.turns
<1>1. \A i \in DOMAIN log : log[i].call \in Call
  BY LogTyped
<1>2. \A c \in Call : c.turn \in Nat
  BY DEF Call
<1>3. QED
  BY <1>1, <1>2 DEF Typed, Executed

\* The end of the call under way, its denial too, keeps what was executed allowed.
LEMMA ReturnAllowed ==
    ASSUME Typed, Shape, Gated, Executed, pc \in {"asked", "run"}, UNCHANGED <<task, granted>>,
           NEW end \in Ends \cup {"denied"}, pc = "asked" => end = "denied",
           log' = Append(log, [call |-> NextCall, end |-> end])
    PROVE  /\ ExecutedOnlyIfAllowed'
           /\ \A i \in DOMAIN log' : log'[i].call.turn <= used.turns
           /\ \A i \in DOMAIN log' : log'[i].call.turn = used.turns =>
                 log'[i].call \in CurrentCalls /\ Admitted(log'[i].call)
<1> DEFINE c == NextCall
           k == Len(log)
           lg == Append(log, [call |-> c, end |-> end])
<1>1. /\ batch # <<>> /\ log' = lg /\ UNCHANGED <<task, granted>>
      /\ used.turns \in Nat /\ pc \in Turning
  BY DEF Shape, Turning, Typed
<1>2. c \in Call /\ c \in CurrentCalls /\ c.turn = used.turns
  BY <1>1, NextIsCurrent
<1>3. /\ k \in Nat /\ DOMAIN log = 1 .. k /\ DOMAIN lg = 1 .. k + 1
      /\ \A i \in 1 .. k : lg[i] = log[i]
      /\ lg[k + 1].call = c /\ lg[k + 1].end = end
  BY <1>1, <1>2, LogAppended
<1>4. Admitted(c) /\ (end # "denied" /\ Required(c.kind) => c \in granted)
      /\ \A i \in DOMAIN log : log[i].call.turn = used.turns /\ log[i].call.kind = c.kind => c.kind = "delegate"
  BY <1>1 DEF Executed
<1>5. /\ ExecutedOnlyIfAllowed
      /\ \A i \in DOMAIN log : log[i].call.turn <= used.turns
      /\ \A i \in DOMAIN log : log[i].call.turn = used.turns =>
            log[i].call \in CurrentCalls /\ Admitted(log[i].call)
  BY <1>1 DEF Executed
<1> HIDE DEF c, k, lg
<1>6. \A i \in 1 .. k + 1 : (i \in 1 .. k /\ lg[i] = log[i]) \/ (i = k + 1 /\ lg[i].call = c /\ lg[i].end = end)
  BY <1>3
<1>7. \A i \in DOMAIN lg : lg[i].call.turn <= used.turns
  BY <1>1, <1>2, <1>3, <1>5, <1>6
<1>8. \A i \in DOMAIN lg : lg[i].call.turn = used.turns =>
         lg[i].call \in CurrentCalls /\ Admitted(lg[i].call)
  BY <1>2, <1>3, <1>4, <1>5, <1>6
<1>9. Risk(c.kind) # "safe" => c.kind # "delegate"
  BY DEF Risk, Makes
<1>10. ASSUME NEW d \in CurrentCalls, Admitted(d), Risk(c.kind) # "safe" PROVE d.kind # "delegate"
  BY <1>2, <1>10, MixedIs DEF Admitted
<1>11. ASSUME NEW d \in CurrentCalls, Risk(d.kind) # "safe" PROVE c.kind # "delegate"
  BY <1>2, <1>4, <1>11, MixedIs DEF Admitted
<1>12. ASSUME NEW i \in DOMAIN lg
       PROVE  /\ lg[i].end # "denied" /\ Required(lg[i].call.kind) => lg[i].call \in granted
              /\ Risk(lg[i].call.kind) # "safe" =>
                    /\ ~task.planner
                    /\ \A j \in DOMAIN lg \ {i} : lg[j].call.turn = lg[i].call.turn
                          => lg[j].call.kind \notin {lg[i].call.kind, "delegate"}
  <2>1. CASE i = k + 1 /\ lg[i].call = c /\ lg[i].end = end
    <3>1. end # "denied" /\ Required(c.kind) => c \in granted
      BY <1>4
    <3>2. Risk(c.kind) # "safe" => ~task.planner
      BY <1>4 DEF Admitted
    <3>3. ASSUME Risk(c.kind) # "safe", NEW j \in DOMAIN lg \ {i}, lg[j].call.turn = c.turn
          PROVE  lg[j].call.kind \notin {c.kind, "delegate"}
      <4>1. j \in DOMAIN log /\ lg[j] = log[j]
        BY <1>3, <1>6, <2>1, <3>3
      <4>2. log[j].call \in CurrentCalls /\ Admitted(log[j].call)
        BY <1>2, <1>5, <3>3, <4>1
      <4>3. log[j].call.kind # "delegate"
        BY <1>10, <3>3, <4>2
      <4>4. log[j].call.kind # c.kind
        BY <1>2, <1>4, <1>9, <3>3, <4>1
      <4>5. QED
        BY <4>1, <4>3, <4>4
    <3>4. QED
      BY <2>1, <3>1, <3>2, <3>3
  <2>2. CASE i \in 1 .. k /\ lg[i] = log[i]
    <3>1. i \in DOMAIN log
      BY <1>3, <2>2
    <3>2. /\ log[i].end # "denied" /\ Required(log[i].call.kind) => log[i].call \in granted
          /\ Risk(log[i].call.kind) # "safe" => ~task.planner
      BY <1>5, <3>1 DEF ExecutedOnlyIfAllowed
    <3>3. ASSUME Risk(log[i].call.kind) # "safe", NEW j \in DOMAIN lg \ {i}, lg[j].call.turn = log[i].call.turn
          PROVE  lg[j].call.kind \notin {log[i].call.kind, "delegate"}
      <4>1. CASE j \in 1 .. k /\ lg[j] = log[j]
        <5>1. j \in DOMAIN log \ {i}
          BY <1>3, <3>3, <4>1
        <5>2. log[j].call.turn = log[i].call.turn => log[j].call.kind \notin {log[i].call.kind, "delegate"}
          BY <1>5, <3>1, <3>3, <5>1 DEF ExecutedOnlyIfAllowed
        <5>3. QED
          BY <3>3, <4>1, <5>2
      <4>2. CASE j = k + 1 /\ lg[j].call = c
        <5>1. log[i].call.turn = used.turns
          BY <1>2, <3>3, <4>2
        <5>2. log[i].call \in CurrentCalls
          BY <1>5, <3>1, <5>1
        <5>3. c.kind # "delegate"
          BY <1>11, <3>3, <5>2
        <5>4. log[i].call.kind # c.kind
          BY <1>4, <3>1, <5>1, <5>3
        <5>5. QED
          BY <4>2, <5>3, <5>4
      <4>3. QED
        BY <1>3, <1>6, <4>1, <4>2
    <3>4. QED
      BY <2>2, <3>2, <3>3
  <2>3. QED
    BY <1>3, <1>6, <2>1, <2>2
<1>13. ExecutedOnlyIfAllowed'
  BY <1>1, <1>12 DEF ExecutedOnlyIfAllowed, Required
<1>14. QED
  BY <1>1, <1>7, <1>8, <1>13

\* Every step keeps what was executed allowed.
LEMMA NextExecuted ==
    ASSUME Typed, Shape, Gated, Executed, [Next]_vars
    PROVE  Executed'
<1> USE DEF turnState, budgets, team, history
<1>1. ASSUME UNCHANGED <<task, log>>, granted \subseteq granted', used'.turns = used.turns,
             pc' \notin Turning
      PROVE  Executed'
  <2>1. \A i \in DOMAIN log' : log'[i].call.turn <= used'.turns
    BY <1>1, LogTurns
  <2>2. QED
    BY <1>1, <2>1, AllowedStays DEF Executed, Turning
<1>2. ASSUME UNCHANGED <<task, log>>, granted \subseteq granted', used' = used,
             pc \in Turning, pc' \in {"call", "offered", "handed"}, CurrentCalls' = CurrentCalls, seen \subseteq seen'
      PROVE  Executed'
  <2>1. MixedBatch' = MixedBatch
    BY <1>2 DEF MixedBatch
  <2>2. QED
    BY <1>2, <2>1, AllowedStays DEF Executed, Admitted
<1>3. ASSUME UNCHANGED <<task, log, messages, batch, used>>, granted' = granted,
             pc = "call", batch # <<>>, pc' \in {"asked", "run"}, seen \subseteq seen', Admitted(NextCall)',
             NextCall.kind = "delegate" \/ NextCall.kind \notin seen,
             pc' = "run" => ~Required(NextCall.kind)
      PROVE  Executed'
  <2>1. CurrentCalls' = CurrentCalls /\ NextCall' = NextCall
    BY <1>3 DEF CurrentCalls, NextCall
  <2>2. MixedBatch' = MixedBatch
    BY <2>1 DEF MixedBatch
  <2>3. /\ \A i \in DOMAIN log : log[i].call.turn <= used.turns
        /\ \A i \in DOMAIN log : log[i].call.turn = used.turns =>
              log[i].call \in CurrentCalls /\ Admitted(log[i].call)
    BY <1>3 DEF Executed, Turning
  <2>4. \A i \in DOMAIN log : log[i].call.turn = used.turns /\ log[i].call.kind = NextCall.kind
           => NextCall.kind = "delegate"
    BY <1>3, <2>3 DEF Admitted
  <2>5. ExecutedOnlyIfAllowed'
    BY <1>3, AllowedStays
  <2>6. pc' = "run" /\ Required(NextCall.kind)' => FALSE
    BY <1>3, <2>1 DEF Required
  <2>7. \A i \in DOMAIN log : log[i].call.turn = used.turns =>
              log[i].call \in CurrentCalls' /\ Admitted(log[i].call)'
    BY <1>3, <2>1, <2>2, <2>3 DEF Admitted
  <2>8. QED
    BY <1>3, <2>1, <2>3, <2>4, <2>5, <2>6, <2>7 DEF Executed
<1>4. ASSUME pc \in Turning, batch # <<>>, NEW ok \in BOOLEAN, Answered(ok), pc' = "call",
             UNCHANGED <<task, log, granted, used>>, seen \subseteq seen'
      PROVE  Executed'
  BY <1>2, <1>4, AnsweredCalls
<1>5. CASE Setup \/ Propose \/ Decide \/ \E m \in Member : AskMember(m) \/ Advise(m)
  <2>1. /\ UNCHANGED <<task, log, granted, used>> /\ pc' \notin Turning
    BY <1>5 DEF Setup, Started, Propose, Decide, AskMember, Advise, FailSetup, Works, Turning
  <2>2. QED
    BY <1>1, <2>1 DEF Typed
<1>6. CASE LoopHead
  <2>1. UNCHANGED <<task, log, granted>> /\ pc' \notin Turning
    BY <1>6 DEF LoopHead, ArchiveFails, Fail, Turning
  <2>2. used'.turns = used.turns
    BY <1>6 DEF LoopHead, Typed
  <2>3. QED
    BY <1>1, <2>1, <2>2 DEF Typed
<1>7. CASE Overflow \/ ProviderFails \/ AnswerOvertaken \/ Retry \/ Complete \/ Close
           \/ \E text \in Texts : Text(text)
  <2>1. UNCHANGED <<task, log, granted, used>> /\ pc' \notin Turning
    BY <1>7 DEF Overflow, ArchiveFails, ProviderFails, AnswerOvertaken, Retry, Complete, Close, Text, Handoff, EmptyReply,
       BrokenContract, MissingArtifact, MissingPreview, BadSlides, Accept, Recover, RetryOutput, Fail, Turning
  <2>2. QED
    BY <1>1, <2>1 DEF Typed
<1>8. CASE BatchDone \/ ReportFailure \/ Cleanup \/ Interrupted
  <2>1. UNCHANGED <<task, log, granted, used>> /\ pc' \notin Turning
    BY <1>8 DEF BatchDone, ReportFailure, Cleanup, Interrupted, Turning
  <2>2. QED
    BY <1>1, <2>1 DEF Typed
<1>9. ASSUME NEW kinds \in task.batches, ToolReply(kinds) PROVE Executed'
  <2>1. /\ UNCHANGED <<task, log, granted>> /\ used'.turns = used.turns + 1 /\ used.turns \in Nat
        /\ pc' \in {"call", "failing"}
    BY <1>9 DEF ToolReply, Fail, Typed
  <2>2. \A i \in DOMAIN log' : log'[i].call.turn <= used'.turns /\ log'[i].call.turn # used'.turns
    BY <2>1, LogTurns
  <2>3. QED
    BY <2>1, <2>2, AllowedStays DEF Executed
<1>10. CASE HostAnswers
  <2>1. PICK ok \in BOOLEAN : Answered(ok)
    BY <1>10 DEF HostAnswers
  <2>2. QED
    BY <1>4, <1>10, <2>1 DEF HostAnswers, Works, Turning
<1>11. CASE StartTool
  <2>1. /\ UNCHANGED <<task, log, messages, batch, used>> /\ granted' = granted
        /\ pc = "call" /\ batch # <<>> /\ pc' = "run" /\ seen \subseteq seen'
        /\ NextCall.kind = "delegate" \/ NextCall.kind \notin seen
        /\ ~Required(NextCall.kind)
    BY <1>11 DEF StartTool, Works, Passes, Required, Risk, Makes
  <2>2. MixedBatch' = MixedBatch /\ NextCall' = NextCall
    BY <2>1 DEF MixedBatch, CurrentCalls, NextCall
  <2>3. /\ ~MixedBatch
        /\ NextCall.kind = "delegate" \/ NextCall.kind \in seen'
        /\ task.planner => Risk(NextCall.kind) = "safe"
    BY <1>11 DEF StartTool, Passes, Risk, Makes
  <2>4. Admitted(NextCall)'
    BY <2>1, <2>2, <2>3 DEF Admitted
  <2>5. QED
    BY <1>3, <2>1, <2>4
<1>12. CASE AskApproval
  <2>1. /\ UNCHANGED <<task, log, messages, batch, used>> /\ granted' = granted
        /\ pc = "call" /\ batch # <<>> /\ pc' = "asked" /\ seen' = seen \cup {NextCall.kind}
        /\ NextCall.kind \notin seen /\ ~MixedBatch /\ (task.planner => Risk(NextCall.kind) = "safe")
    BY <1>12 DEF AskApproval, Works, Passes
  <2>2. MixedBatch' = MixedBatch /\ NextCall' = NextCall
    BY <2>1 DEF MixedBatch, CurrentCalls, NextCall
  <2>3. Admitted(NextCall)'
    BY <2>1, <2>2 DEF Admitted
  <2>4. QED
    BY <1>3, <2>1, <2>3
<1>13. CASE OfferHuman \/ RegisterHuman
  <2>1. /\ UNCHANGED <<task, log, messages, batch, used, granted>> /\ seen \subseteq seen'
        /\ pc \in Turning /\ pc' \in {"offered", "handed"}
    BY <1>13 DEF OfferHuman, RegisterHuman, Works, Turning
  <2>2. CurrentCalls' = CurrentCalls
    BY <2>1 DEF CurrentCalls
  <2>3. QED
    BY <1>2, <2>1, <2>2
<1>14. CASE ApprovalDecided
  <2>1. pc = "asked" /\ batch # <<>> /\ UNCHANGED <<task, granted, used, seen>> /\ pc \in Turning
    BY <1>14 DEF ApprovalDecided, Works, Shape, Turning
  <2>2. CASE pc' = "call" /\ Answered(FALSE) /\ log' = Append(log, [call |-> NextCall, end |-> "denied"])
    <3>1. /\ ExecutedOnlyIfAllowed'
          /\ \A i \in DOMAIN log' : log'[i].call.turn <= used.turns
          /\ \A i \in DOMAIN log' : log'[i].call.turn = used.turns =>
                log'[i].call \in CurrentCalls /\ Admitted(log'[i].call)
      BY <2>1, <2>2, ReturnAllowed
    <3>2. CurrentCalls' = CurrentCalls
      BY <2>1, <2>2, AnsweredCalls
    <3>3. MixedBatch' = MixedBatch
      BY <3>2 DEF MixedBatch
    <3>4. \A i \in DOMAIN log' : log'[i].call.turn = used'.turns =>
              log'[i].call \in CurrentCalls' /\ Admitted(log[i].call)'
      BY <2>1, <3>1, <3>2, <3>3 DEF Admitted
    <3>5. QED
      BY <2>1, <2>2, <3>1, <3>4 DEF Executed
  <2>3. CASE gate.answer /\ pc' = "run" /\ UNCHANGED <<messages, batch, log>>
    <3>1. gate.answer # None
      BY <1>14 DEF ApprovalDecided
    <3>2. NextCall \in granted
      BY <2>1, <2>3, <3>1 DEF Gated
    <3>3. CurrentCalls' = CurrentCalls /\ NextCall' = NextCall
      BY <2>3 DEF CurrentCalls, NextCall
    <3>4. MixedBatch' = MixedBatch
      BY <3>3 DEF MixedBatch
    <3>5. QED
      BY <2>1, <2>3, <3>2, <3>3, <3>4, AllowedStays DEF Executed, Admitted, Turning
  <2>4. QED
    BY <1>14, <2>2, <2>3 DEF ApprovalDecided
<1>15. CASE HumanDecided
  <2>1. gate.answer \in BOOLEAN /\ batch # <<>> /\ pc \in Turning
    BY <1>15 DEF HumanDecided, Works, Shape, Turning, Gated, Gate
  <2>2. QED
    BY <1>4, <1>15, <2>1 DEF HumanDecided
<1>16. ASSUME NEW end \in Ends, ToolReturns(end) PROVE Executed'
  <2>1. /\ pc = "run" /\ batch # <<>> /\ UNCHANGED <<task, used, seen, granted>> /\ pc \in Turning
        /\ (pc' = "call" /\ Answered(end # "failed")) \/ pc' = "closing"
        /\ log' = Append(log, [call |-> NextCall, end |-> end])
    BY <1>16 DEF ToolReturns, Works, Shape, Turning
  <2>2. /\ ExecutedOnlyIfAllowed'
        /\ \A i \in DOMAIN log' : log'[i].call.turn <= used.turns
        /\ \A i \in DOMAIN log' : log'[i].call.turn = used.turns =>
              log'[i].call \in CurrentCalls /\ Admitted(log'[i].call)
    BY <1>16, <2>1, ReturnAllowed
  <2>3. CASE pc' = "closing"
    BY <2>1, <2>2, <2>3 DEF Executed, Turning
  <2>4. CASE pc' = "call" /\ Answered(end # "failed")
    <3>1. CurrentCalls' = CurrentCalls
      <4>1. (end # "failed") \in BOOLEAN
        OBVIOUS
      <4>2. QED
        BY <2>1, <2>4, <4>1, AnsweredCalls
    <3>2. MixedBatch' = MixedBatch
      BY <3>1 DEF MixedBatch
    <3>3. \A i \in DOMAIN log' : log'[i].call.turn = used'.turns =>
              log'[i].call \in CurrentCalls' /\ Admitted(log[i].call)' 
      BY <2>1, <2>2, <3>1, <3>2 DEF Admitted
    <3>4. QED
      BY <2>1, <2>2, <2>4, <3>3 DEF Executed
  <2>5. QED
    BY <2>1, <2>3, <2>4
<1>17. CASE UNCHANGED vars \/ User
  <2>1. /\ UNCHANGED <<task, pc, log, messages, batch, seen>> /\ granted \subseteq granted'
        /\ used'.turns = used.turns
    BY <1>17 DEF vars, User, Steer, TakeOver, Stop, DecideApproval, CompleteHuman, Typed
  <2>2. CurrentCalls' = CurrentCalls /\ NextCall' = NextCall
    BY <2>1 DEF CurrentCalls, NextCall
  <2>3. MixedBatch' = MixedBatch
    BY <2>2 DEF MixedBatch
  <2>4. ExecutedOnlyIfAllowed'
    BY <2>1, AllowedStays
  <2>5. /\ Admitted(NextCall) => Admitted(NextCall)'
        /\ \A i \in DOMAIN log : Admitted(log[i].call) => Admitted(log[i].call)'
    BY <2>1, <2>2, <2>3 DEF Admitted
  <2>6. Required(NextCall.kind)' = Required(NextCall.kind)
    BY <2>1, <2>2 DEF Required
  <2>7. QED
    BY <2>1, <2>2, <2>4, <2>5, <2>6 DEF Executed
<1>18. QED
  BY <1>5, <1>6, <1>7, <1>8, <1>9, <1>10, <1>11, <1>12, <1>13, <1>14, <1>15, <1>16, <1>17 DEF Next, Worker

-----------------------------------------------------------------------------
(* The preview.                                                            *)

\* The end of a call keeps what the loop remembers of the preview true.
LEMMA ReturnPreviewed ==
    ASSUME Typed, Shape, Previewed, pc \in {"asked", "run"}, NEW end \in Ends \cup {"denied"},
           end = "shown" => NextCall.kind \in Browsing,
           log' = Append(log, [call |-> NextCall, end |-> end]), preview' = PreviewAfter(NextCall.kind, end)
    PROVE  preview'.verified \/ preview'.failed => Tested'
<1> DEFINE k == Len(log)
<1>1. batch # <<>> /\ pc \in Turning
  BY DEF Shape, Turning
<1>2. NextCall \in Call
  BY <1>1, NextIsCurrent
<1>3. /\ k \in Nat /\ Len(log') = k + 1
      /\ DOMAIN log = 1 .. k /\ DOMAIN log' = 1 .. k + 1
      /\ \A i \in 1 .. k : log'[i] = log[i]
      /\ log'[k + 1].call = NextCall /\ log'[k + 1].end = end
  BY <1>2, LogAppended
<1>4. preview' = PreviewAfter(NextCall.kind, end)
  OBVIOUS
<1> HIDE DEF k
<1>5. CASE NextCall.kind \in Browsing /\ end # "ok"
  <2>1. k + 1 \in DOMAIN log' /\ \A j \in k + 1 .. k + 1 : j = k + 1
    BY <1>3
  <2>2. NextCall.kind # "write"
    BY <1>5 DEF Browsing
  <2>3. QED
    BY <1>3, <1>5, <2>1, <2>2 DEF Tested
<1>6. CASE NextCall.kind = "write" /\ end = "ok"
  <2>1. preview' = [verified |-> FALSE, failed |-> FALSE]
    BY <1>4, <1>6 DEF PreviewAfter
  <2>2. QED
    BY <2>1
<1>7. CASE ~(NextCall.kind \in Browsing /\ end # "ok") /\ ~(NextCall.kind = "write" /\ end = "ok")
  <2>1. preview' = preview
    BY <1>4, <1>7 DEF PreviewAfter
  <2>2. ASSUME Tested PROVE Tested'
    <3>1. PICK i \in 1 .. k : /\ log[i].call.kind \in Browsing /\ log[i].end # "ok"
                              /\ \A j \in i .. Len(log) : ~(log[j].call.kind = "write" /\ log[j].end = "ok")
      BY <1>3, <2>2 DEF Tested
    <3>2. i \in DOMAIN log' /\ log'[i].call.kind \in Browsing /\ log'[i].end # "ok"
      BY <1>3, <3>1
    <3>3. \A j \in i .. k + 1 : ~(log'[j].call.kind = "write" /\ log'[j].end = "ok")
      <4> SUFFICES ASSUME NEW j \in i .. k + 1 PROVE ~(log'[j].call.kind = "write" /\ log'[j].end = "ok")
        OBVIOUS
      <4>1. j = k + 1 \/ (j \in i .. k /\ j \in 1 .. k)
        BY <1>3
      <4>2. CASE j = k + 1
        BY <1>3, <1>7, <4>2
      <4>3. CASE j \in i .. k /\ j \in 1 .. k
        <5>1. ~(log[j].call.kind = "write" /\ log[j].end = "ok")
          BY <3>1, <4>3 DEF k
        <5>2. QED
          BY <1>3, <4>3, <5>1
      <4>4. QED
        BY <4>1, <4>2, <4>3
    <3>4. QED
      BY <1>3, <3>2, <3>3 DEF Tested
  <2>3. QED
    BY <2>1, <2>2 DEF Previewed
<1>8. QED
  BY <1>5, <1>6, <1>7

\* Every step keeps what the loop remembers of the preview, and what a
\* completed run shows of it, true.
LEMMA NextPreviewed ==
    ASSUME Typed, Shape, Gated, Previewed, [Next]_vars
    PROVE  Previewed'
<1> USE DEF turnState, budgets, team, history
<1>1. ASSUME UNCHANGED <<task, log, preview>>,
             pc' = "final" \/ status' = "completed" => pc = "final" \/ status = "completed",
             status' = "completed" => pc' \in {"closing", "cleanup", "done"}
      PROVE  Previewed'
  BY <1>1 DEF Previewed, Tested
<1>2. pc \notin {"closing", "cleanup", "done"} => status # "completed"
  BY DEF Previewed
<1>3. CASE Setup \/ Propose \/ Decide \/ \E m \in Member : AskMember(m) \/ Advise(m)
  BY <1>1, <1>2, <1>3 DEF Setup, Started, Propose, Decide, AskMember, Advise, FailSetup, Works
<1>4. CASE LoopHead \/ Overflow \/ ProviderFails \/ AnswerOvertaken \/ Retry
  BY <1>1, <1>2, <1>4 DEF LoopHead, Overflow, ArchiveFails, ProviderFails, AnswerOvertaken, Retry, Works, Fail
<1>5. ASSUME NEW text \in Texts, Text(text) PROVE Previewed'
  <2>1. CASE Accept(text)
    <3>1. /\ UNCHANGED <<task, log, preview, status>> /\ pc = "chat"
          /\ task.page /\ ~task.planner => preview.verified \/ preview.failed
      BY <2>1 DEF Accept, Delivered, Final, Works, PreviewMissing, PreviewRequired
    <3>2. QED
      BY <1>2, <3>1 DEF Previewed, Tested
  <2>2. CASE ~Accept(text)
    <3>1. UNCHANGED <<task, log, preview>> /\ pc = "chat"
      BY <1>5 DEF Text, Handoff, EmptyReply, BrokenContract, MissingArtifact, MissingPreview,
         BadSlides, Accept, Delivered, Final, Works
    <3>2. pc' \in {"top", "retry", "failing"} /\ status' \in {status, "failed"}
      BY <1>5, <2>2 DEF Text, Handoff, EmptyReply, BrokenContract, MissingArtifact, MissingPreview,
         BadSlides, Recover, RetryOutput, Fail
    <3>3. QED
      BY <1>1, <1>2, <3>1, <3>2
  <2>3. QED
    BY <2>1, <2>2
<1>6. CASE Complete \/ Close \/ ReportFailure \/ Cleanup \/ Interrupted
  BY <1>1, <1>2, <1>6 DEF Complete, Close, ReportFailure, Cleanup, Interrupted, Works
<1>7. ASSUME NEW kinds \in task.batches, ToolReply(kinds) PROVE Previewed'
  BY <1>1, <1>2, <1>7 DEF ToolReply, Works, Fail
<1>8. CASE HostAnswers \/ StartTool \/ AskApproval \/ OfferHuman \/ RegisterHuman
           \/ HumanDecided \/ BatchDone
  BY <1>1, <1>2, <1>8 DEF HostAnswers, StartTool, AskApproval, OfferHuman, RegisterHuman,
     HumanDecided, BatchDone, Works
<1>12. CASE ApprovalDecided
  <2>1. /\ pc = "asked" /\ status # "completed" /\ status' = "running" /\ pc' \in {"run", "call"} /\ task' = task
    BY <1>2, <1>12 DEF ApprovalDecided, Works
  <2>2. CASE UNCHANGED <<preview, log>>
    BY <1>1, <2>1, <2>2
  <2>3. CASE /\ preview' = PreviewAfter(NextCall.kind, "denied")
             /\ log' = Append(log, [call |-> NextCall, end |-> "denied"])
    <3>1. preview'.verified \/ preview'.failed => Tested'
      BY <2>1, <2>3, ReturnPreviewed
    <3>2. QED
      BY <2>1, <3>1 DEF Previewed
  <2>4. QED
    BY <1>12, <2>2, <2>3 DEF ApprovalDecided
<1>9. ASSUME NEW end \in Ends, ToolReturns(end) PROVE Previewed'
  <2>1. /\ pc = "run" /\ batch # <<>> /\ pc \in Turning /\ status # "completed"
    BY <1>2, <1>9 DEF ToolReturns, Works, Shape, Turning
  <2>2. preview'.verified \/ preview'.failed => Tested'
    BY <1>9, <2>1, ReturnPreviewed DEF ToolReturns
  <2>3. CASE pc' = "call" /\ status' = status
    BY <2>1, <2>2, <2>3 DEF Previewed
  <2>4. CASE NextCall.kind = "settings" /\ pc' = "closing"
    <3>1. NextCall \in Call
      BY <2>1, NextIsCurrent
    <3>2. Len(log) + 1 \in DOMAIN log' /\ log'[Len(log) + 1].call = NextCall
      BY <1>9, <3>1, LogAppended DEF ToolReturns
    <3>3. QED
      BY <2>2, <2>4, <3>2 DEF Previewed
  <2>5. QED
    BY <1>9, <2>3, <2>4 DEF ToolReturns
<1>10. CASE UNCHANGED vars \/ User
  <2>1. UNCHANGED <<task, pc, status, log, preview>>
    BY <1>10 DEF vars, User, Steer, TakeOver, Stop, DecideApproval, CompleteHuman
  <2>2. QED
    BY <2>1 DEF Previewed, Tested
<1>11. QED
  BY <1>3, <1>4, <1>5, <1>6, <1>7, <1>8, <1>9, <1>10, <1>12 DEF Next, Worker

-----------------------------------------------------------------------------
(* The theorems.                                                           *)

\* The invariant holds before the run is set up.
LEMMA InitIInv == Init => IInv
<1> SUFFICES ASSUME Init PROVE IInv
  OBVIOUS
<1>1. Typed
  <2>1. task \in Task
    BY TaskAssumption DEF Init
  <2>2. task.followUps \in Nat
    BY <2>1 DEF Task
  <2>3. messages \in Seq(AnyMessage(task.followUps)) /\ batch \in Seq(Call) /\ queue \in Seq(1 .. task.followUps)
        /\ log \in Seq(Entry)
    BY EmptySeq DEF Init
  <2>4. used \in [turns : Nat, sent : 0 .. task.followUps, compactions : Nat, report : BOOLEAN]
    BY <2>2 DEF Init
  <2>5. QED
    BY <2>3, <2>4 DEF Init, Typed, Waiting
<1>2. Budgeted
  BY LoopAssumption DEF Init, Budgeted
<1>3. Shape
  BY DEF Init, Shape, Talking, Turning
<1>4. Gated /\ FollowUpsKept /\ Named(messages, archives) /\ Executed /\ Previewed
  BY EmptySeq DEF Init, Gated, FollowUpsKept, Named, Executed, ExecutedOnlyIfAllowed, Previewed, Turning
<1>5. QED
  BY <1>1, <1>2, <1>3, <1>4 DEF IInv

\* Every step keeps the invariant.
LEMMA NextIInv == IInv /\ [Next]_vars => IInv'
<1> SUFFICES ASSUME IInv, [Next]_vars PROVE IInv'
  OBVIOUS
<1>1. Typed'
  <2>1. CASE UNCHANGED vars
    BY <2>1 DEF IInv, Typed, vars, turnState, budgets, history
  <2>2. CASE Worker
    BY <2>2, WorkerTyped DEF IInv
  <2>3. CASE User
    BY <2>3, UserTyped DEF IInv
  <2>4. QED
    BY <2>1, <2>2, <2>3 DEF Next
<1>2. QED
  BY <1>1, NextBudgeted, NextShape, NextGated, NextFollowUps, NextExecuted, NextPreviewed DEF IInv

\* The invariant holds in every state of a run.
THEOREM Invariance == Spec => []IInv
BY InitIInv, NextIInv, PTL DEF Spec

\* The variables keep their types; with them the counters of the recoveries
\* never pass their budgets by more than the attempt that ends the run.
THEOREM TypeCorrect == Spec => []TypeOK
<1>1. IInv => TypeOK
  <2> SUFFICES ASSUME IInv PROVE TypeOK
    OBVIOUS
  <2>1. \A i \in DOMAIN messages : messages[i].role \in
          {"system", "user", "followup", "assistant", "tool", "note", "checkpoint"}
    <3>1. \A m \in AnyMessage(task.followUps) : m.role \in
             {"system", "user", "followup", "assistant", "tool", "note", "checkpoint"}
      BY DEF AnyMessage
    <3> DEFINE S == AnyMessage(task.followUps)
    <3>2. messages \in Seq(S)
      BY DEF IInv, Typed
    <3> HIDE DEF S
    <3>3. \A i \in DOMAIN messages : messages[i] \in S
      BY <3>2, LenProperties
    <3>4. QED
      BY <3>1, <3>3 DEF S
  <2>2. \A i \in DOMAIN log : log[i].call \in Call /\ log[i].end \in Ends \cup {"denied"}
    BY LogTyped DEF IInv
  <2>3. QED
    BY <2>1, <2>2, TaskAssumption DEF IInv, Typed, Budgeted, TypeOK
<1>2. QED
  BY <1>1, Invariance, PTL

\* ToolResultsComplete: the conversation of every request pairs each call with
\* its result, whatever was rejected, denied, retried, taken in or compacted.
THEOREM ToolResults == Spec => []ToolResultsComplete
<1>1. IInv => ToolResultsComplete
  <2> SUFFICES ASSUME IInv, pc = "chat"
               PROVE /\ \A i \in DOMAIN messages : messages[i].role = "assistant" =>
                           \A j \in DOMAIN messages[i].ref :
                               /\ i + j \in DOMAIN messages /\ messages[i + j].role = "tool"
                               /\ messages[i + j].ref.call = messages[i].ref[j]
                     /\ \A i \in DOMAIN messages : messages[i].role = "tool" =>
                           \E j \in 1 .. i - 1 : /\ messages[j].role = "assistant"
                                                 /\ i <= j + Len(messages[j].ref)
    BY DEF ToolResultsComplete
  <2> DEFINE n == task.followUps
             k == Len(messages)
  <2>1. n \in Nat /\ messages \in Messages(n) /\ Paired(messages, k)
    BY TaskIs DEF IInv, Typed, Shape, Talking, Conversing, Messages
  <2>2. DOMAIN messages = 1 .. k /\ k \in Nat
    BY <2>1, LenProperties DEF Messages
  <2>3. ASSUME NEW i \in 1 .. k, messages[i].role = "assistant", NEW j \in DOMAIN messages[i].ref
        PROVE  /\ i + j \in 1 .. k /\ messages[i + j].role = "tool"
               /\ messages[i + j].ref.call = messages[i].ref[j]
    <3>1. messages[i].ref \in Seq(Call) /\ Len(messages[i].ref) \in Nat
      BY <2>1, <2>3, CallsCounted
    <3>2. j \in 1 .. Len(messages[i].ref)
      BY <2>3, <3>1, LenProperties
    <3> HIDE DEF k
    <3>3. i + j <= k /\ messages[i + j].role = "tool" /\ messages[i + j].ref.call = messages[i].ref[j]
      BY <2>1, <2>3, <3>2 DEF Paired
    <3>4. i + j \in 1 .. k
      BY <2>2, <3>1, <3>2, <3>3
    <3>5. QED
      BY <3>3, <3>4
  <2>4. \A i \in 1 .. k : messages[i].role = "tool" =>
           \E j \in 1 .. i - 1 : messages[j].role = "assistant" /\ i <= j + Len(messages[j].ref)
    BY <2>1 DEF Paired
  <2>5. QED
    BY <2>2, <2>3, <2>4
<1>2. QED
  BY <1>1, Invariance, PTL

\* FollowUpsKept: a follow-up that was taken stays in the conversation or in an
\* archive that its checkpoint names, whatever retries, compactions and bounds
\* of the ledger do.
THEOREM FollowUps == Spec => []FollowUpsKept
<1>1. IInv => FollowUpsKept
  BY DEF IInv
<1>2. QED
  BY <1>1, Invariance, PTL

\* ExecutedOnlyIfAllowed: no tool with effects runs without the approval that
\* its policy or the call itself asks for, in the planning mode, twice in a reply or beside a delegation.
THEOREM Allowed == Spec => []ExecutedOnlyIfAllowed
<1>1. IInv => ExecutedOnlyIfAllowed
  BY DEF IInv, Executed
<1>2. QED
  BY <1>1, Invariance, PTL

\* PreviewedAfterLastChange: after the last change of a page reported done the
\* browser showed it, or a call of the browser failed or was denied.
THEOREM Preview == Spec => []PreviewedAfterLastChange
<1>1. IInv => PreviewedAfterLastChange
  <2> SUFFICES ASSUME IInv, status = "completed", task.page, ~task.planner,
                      \A i \in DOMAIN log : log[i].call.kind # "settings"
               PROVE  Tested
    BY DEF PreviewedAfterLastChange, Tested
  <2>1. QED
    BY DEF IInv, Previewed
<1>2. QED
  BY <1>1, Invariance, PTL

\* StopEndsSideEffects: after Stop no tool ends its work, no request stays in a
\* gate of a run that is over, and the run does not become completed.
THEOREM StopTheorem == Spec => StopEndsSideEffects
<1> DEFINE Silent == stop => /\ log' = log
                             /\ pc' = "done" => gate' = None
                             /\ status' = "completed" => status = "completed"
<1>1. IInv /\ [Next]_vars => [Silent]_vars
  <2> SUFFICES ASSUME IInv, [Next]_vars, stop
               PROVE  /\ log' = log
                      /\ pc' = "done" => gate' = None
                      /\ status' = "completed" => status = "completed"
    OBVIOUS
  <2> USE DEF turnState, budgets, team, history
  <2>1. pc = "done" \/ pc = "cleanup" => gate = None
    BY DEF IInv, Gated
  <2>2. CASE UNCHANGED vars
    BY <2>1, <2>2 DEF vars
  <2>3. CASE User
    <3>1. UNCHANGED <<log, pc, status>>
      BY <2>3 DEF User, Steer, TakeOver, Stop, DecideApproval, CompleteHuman
    <3>2. gate = None => gate' = None
      BY <2>3 DEF User, Steer, TakeOver, Stop, DecideApproval, CompleteHuman
    <3>3. QED
      BY <2>1, <3>1, <3>2
  <2>4. CASE Worker
    <3>1. Cleanup \/ Interrupted
      BY <2>4 DEF Worker, Setup, Started, Propose, Decide, AskMember, Advise, LoopHead, Overflow, ProviderFails,
         AnswerOvertaken, Text, Handoff, EmptyReply, BrokenContract, MissingArtifact, MissingPreview,
         BadSlides, Accept, Delivered, Final, Retry, Complete, Close, ToolReply, HostAnswers, StartTool,
         AskApproval, OfferHuman, RegisterHuman, ApprovalDecided, HumanDecided, BatchDone, ToolReturns,
         ReportFailure, Works
    <3>2. CASE Cleanup
      BY <2>1, <3>2 DEF Cleanup
    <3>3. CASE Interrupted
      BY <3>3 DEF Interrupted
    <3>4. QED
      BY <3>1, <3>2, <3>3
  <2>5. QED
    BY <2>2, <2>3, <2>4 DEF Next
<1>2. QED
  BY <1>1, Invariance, PTL DEF Spec, StopEndsSideEffects

=============================================================================
