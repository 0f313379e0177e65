--------------------------- MODULE StreamAssembly ---------------------------
(***************************************************************************)
(* One streamed model answer of deepseek.py: the server-sent events of a   *)
(* provider put together by _StreamAccumulator (OpenAI style) or by        *)
(* _AnthropicStreamAccumulator, from the first event to result().          *)
(*                                                                         *)
(* The provider is external.  Providers and relays cut a tool call into    *)
(* chunks in different ways; the style of a stream is fixed, the order of  *)
(* its chunks is not.  Every text, id, argument string and signature is a  *)
(* sequence of pieces <<owner, number>>.                                   *)
(***************************************************************************)
EXTENDS Naturals, Sequences, FiniteSets, SequencesExt

CONSTANTS
    MaxCalls, \* tool calls of the answer
    Cuts      \* how many chunks each tool call, text and thought is cut into

StreamAssumption == MaxCalls \in Nat /\ Cuts \in Nat \ {0}

VARIABLES
    stream, \* what the provider sends and how (external)
    sent,   \* chunks sent so far of each tool call, of the text, of the thought
    acc,    \* the accumulator
    phase,  \* of the request: "open", "ended", "failed", "returned"
    reply   \* the assembled message

vars == <<stream, sent, acc, phase, reply>>

Calls == 1..MaxCalls
Whole(owner) == [k \in 1..Cuts |-> <<owner, k>>]
NoCall == [id |-> <<>>, args |-> <<>>, sig |-> <<>>]
Empty == [calls |-> [i \in {} |-> NoCall], text |-> <<>>, thought |-> <<>>, thoughtSig |-> <<>>, events |-> 0,
          finish |-> FALSE]

\* Where a chunk of a tool call says what it belongs to, and what it repeats.
Styles ==
    [by : {"index"}, ids : {"cut", "always", "once"}, sigs : {"none", "cut", "grown", "always"}]
    \cup [by : {"array"}, ids : {"always", "once"}, sigs : {"none"}]
    \cup [by : {"id"}, ids : {"always"}, sigs : {"none"}]
    \cup [by : {"turn"}, ids : {"once"}, sigs : {"none"}]
    \cup [by : {"block"}, ids : {"once"}, sigs : {"cut"}]

TypeOK ==
    /\ stream \in [style : Styles, calls : 0..MaxCalls]
    /\ sent \in [calls : [Calls -> 0..Cuts], text : 0..Cuts, thought : 0..Cuts]
    /\ DOMAIN acc.calls \subseteq Nat
    /\ phase \in {"open", "ended", "failed", "returned"}

Init ==
    /\ stream \in [style : Styles, calls : 0..MaxCalls]
    /\ sent = [calls |-> [c \in Calls |-> 0], text |-> 0, thought |-> 0]
    /\ acc = Empty /\ phase = "open" /\ reply = Empty

-----------------------------------------------------------------------------
(* _StreamAccumulator.                                                     *)

\* The k-th chunk of call c.
Cut(owner, k, mode) ==
    CASE mode = "cut" -> <<<<owner, k>>>>
      [] mode = "grown" -> [j \in 1..k |-> <<owner, j>>]
      [] mode = "always" \/ (mode = "once" /\ k = 1) -> Whole(owner)
      [] OTHER -> <<>>
Chunk(c, k) ==
    [index |-> IF stream.style.by = "index" THEN {c - 1} ELSE {},
     id |-> Cut(c, k, stream.style.ids), args |-> <<<<c, k>>>>, sig |-> Cut(c, k, stream.style.sigs)]

\* An id that is known, else the next free place; a chunk without one continues the latest call.
Known(calls, chunk) == {i \in DOMAIN calls : calls[i].id = chunk.id}
FaultPlace(calls, chunk, ordinal, many) ==
    CASE chunk.index # {} -> CHOOSE i \in chunk.index : TRUE
      [] chunk.index = {} /\ many -> ordinal
      [] OTHER -> IF Known(calls, chunk) # {} THEN CHOOSE i \in Known(calls, chunk) : TRUE
                  ELSE Cardinality(DOMAIN calls)
Place(calls, chunk, ordinal, many) ==
    CASE chunk.index # {} -> CHOOSE i \in chunk.index : TRUE
      [] chunk.index = {} /\ many -> ordinal
      [] chunk.index = {} /\ ~many /\ chunk.id # <<>> ->
            IF Known(calls, chunk) # {} THEN CHOOSE i \in Known(calls, chunk) : TRUE
            ELSE Cardinality(DOMAIN calls)
      [] OTHER -> IF DOMAIN calls = {} THEN 0 ELSE Max(DOMAIN calls)

\* Metadata a relay repeats is not appended again; a signature may come as a whole each time.
Joined(old, new) == IF new = old THEN old ELSE old \o new
Signed(old, new) == IF IsPrefix(old, new) THEN new ELSE old \o new
Merged(call, chunk) ==
    [id |-> Joined(call.id, chunk.id), args |-> call.args \o chunk.args,
     sig |-> IF chunk.sig = <<>> THEN call.sig ELSE Signed(call.sig, chunk.sig)]

At(calls, i) == IF i \in DOMAIN calls THEN calls[i] ELSE NoCall

\* The tool calls of one event.  Several of them go by index or position, whatever was
\* there before, and each has a place of its own.
PlacesOf(chunks) == [n \in DOMAIN chunks |-> Place(acc.calls, chunks[n], n - 1, Len(chunks) > 1)]
Fed(chunks) ==
    [i \in DOMAIN acc.calls \cup Range(PlacesOf(chunks)) |->
        IF i \in Range(PlacesOf(chunks))
        THEN Merged(At(acc.calls, i), chunks[CHOOSE n \in DOMAIN chunks : PlacesOf(chunks)[n] = i])
        ELSE acc.calls[i]]

Event(new) == acc' = [new EXCEPT !.events = @ + 1]
Goes == phase = "open" /\ UNCHANGED <<stream, phase, reply>>
Pending(c) == c <= stream.calls /\ sent.calls[c] < Cuts

\* One call in a chunk: in any order, unless the stream goes by turn.
CallChunk(c) ==
    /\ Goes /\ stream.style.by \in {"index", "id", "turn"} /\ Pending(c)
    /\ stream.style.by = "turn" => \A d \in 1..(c - 1) : ~Pending(d)
    /\ Event([acc EXCEPT !.calls = Fed(<<Chunk(c, sent.calls[c] + 1)>>)])
    /\ sent' = [sent EXCEPT !.calls[c] = @ + 1]

\* All calls in every chunk, by position.
ArrayChunk ==
    /\ Goes /\ stream.style.by = "array" /\ Pending(1)
    /\ Event([acc EXCEPT !.calls = Fed([c \in 1..stream.calls |-> Chunk(c, sent.calls[c] + 1)])])
    /\ sent' = [sent EXCEPT !.calls = [c \in Calls |-> IF Pending(c) THEN @[c] + 1 ELSE @[c]]]

Text ==
    /\ Goes /\ sent.text < Cuts
    /\ Event([acc EXCEPT !.text = Append(@, <<0, sent.text + 1>>)])
    /\ sent' = [sent EXCEPT !.text = @ + 1]

-----------------------------------------------------------------------------
(* _AnthropicStreamAccumulator: one block after the other.                 *)

Blocks == stream.style.by = "block"
Thought ==
    /\ Goes /\ sent.thought < Cuts /\ (Blocks => DOMAIN acc.calls = {})
    /\ Event([acc EXCEPT !.thought = Append(@, <<0, sent.thought + 1>>),
                         !.thoughtSig = IF Blocks THEN Append(@, <<0, sent.thought + 1>>) ELSE @])
    /\ sent' = [sent EXCEPT !.thought = @ + 1]

BlockOf(c, call) ==
    Event([acc EXCEPT !.calls = [j \in DOMAIN acc.calls \cup {c} |-> IF j = c THEN call ELSE acc.calls[j]]])
Turn(c) == Goes /\ Blocks /\ Pending(c) /\ \A d \in 1..(c - 1) : ~Pending(d)

\* content_block_start replaces what its index had, input_json_delta appends.
BlockStarts(c) == /\ Turn(c) /\ c \notin DOMAIN acc.calls
                  /\ BlockOf(c, [NoCall EXCEPT !.id = Whole(c)]) /\ UNCHANGED sent
BlockChunk(c) ==
    /\ Turn(c) /\ c \in DOMAIN acc.calls
    /\ BlockOf(c, [acc.calls[c] EXCEPT !.args = Append(@, <<c, sent.calls[c] + 1>>)])
    /\ sent' = [sent EXCEPT !.calls[c] = @ + 1]

-----------------------------------------------------------------------------
(* The end of the stream.                                                  *)

AllSent == /\ \A c \in Calls : ~Pending(c)
           /\ sent.text = Cuts /\ sent.thought = Cuts

\* finish_reason or stop_reason, then [DONE] or the end of the connection.
Finish == /\ Goes /\ AllSent /\ ~acc.finish /\ Event([acc EXCEPT !.finish = TRUE]) /\ UNCHANGED sent
Done == /\ phase = "open" /\ acc.finish /\ phase' = "ended" /\ UNCHANGED <<stream, sent, acc, reply>>

\* The connection ends early without an error.
Truncated == /\ phase = "open" /\ ~acc.finish /\ phase' = "ended" /\ UNCHANGED <<stream, sent, acc, reply>>

\* An error of the connection, an error event of Anthropic's or a payload that is not JSON.
Fails == /\ phase = "open" /\ phase' = "failed" /\ UNCHANGED <<stream, sent, acc, reply>>

\* result(): the thought of an answer without tool calls is not kept.
Result ==
    /\ phase = "ended"
    /\ IF acc.events = 0 THEN phase' = "failed" /\ UNCHANGED reply
       ELSE /\ phase' = "returned"
            /\ reply' = [acc EXCEPT !.thought = IF DOMAIN acc.calls = {} THEN <<>> ELSE @]
    /\ UNCHANGED <<stream, sent, acc>>

Next ==
    \/ \E c \in Calls : CallChunk(c) \/ BlockStarts(c) \/ BlockChunk(c)
    \/ ArrayChunk \/ Text \/ Thought
    \/ Finish \/ Done \/ Truncated \/ Fails \/ Result

Spec == Init /\ [][Next]_vars

-----------------------------------------------------------------------------
(* However the provider cut its answer into chunks and in whatever order   *)
(* they came, a finished answer is assembled to the calls it was cut from: *)
(* none split, merged, repeated or lost, each with its own id, arguments   *)
(* and signature; so is the text, and the signed thought of Anthropic's.   *)
Sent(c) == [id |-> Whole(c), args |-> Whole(c),
            sig |-> IF stream.style.sigs = "none" \/ Blocks THEN <<>> ELSE Whole(c)]
AssembledIsSent ==
    (phase = "returned" /\ reply.finish) =>
        /\ Cardinality(DOMAIN reply.calls) = stream.calls
        /\ {reply.calls[i] : i \in DOMAIN reply.calls} = {Sent(c) : c \in 1..stream.calls}
        /\ reply.text = Whole(0)
        /\ stream.calls > 0 => reply.thought = Whole(0)
        /\ Blocks => reply.thoughtSig = Whole(0)

(* Refuted: an answer that is returned was finished by the provider.       *)
ReturnedIsFinished == phase = "returned" => reply.finish
=============================================================================
