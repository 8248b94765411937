---------------------------- MODULE ProviderWire ----------------------------
(* The six wire protocols of src/internal/provider: how a history becomes    *)
(* the request of each protocol, how the events of its answer are gathered,  *)
(* and what the gathered events amount to when the stream ends.              *)
(*                                                                           *)
(* A message is [role, text, image, thinking, calls, call, response]: whether*)
(* it has text, an image, reasoning, the ids of the calls it makes, the call *)
(* it answers (NoId) and whether it carries the id of a provider response.   *)
(* A request is a sequence of [role, parts], a part [kind, id].              *)
(* An event is [kind, at, id, name, part, null]: at is the index of the call *)
(* it is about and name that call's tool, part a fragment of its arguments   *)
(* or the sequence of all of them, null whether it says finish_reason: null. *)
EXTENDS Integers, Sequences, SequencesExt, FiniteSetsExt, TLC

NoId == <<>>

Part(kind, id) == <<[kind |-> kind, id |-> id]>>

If(present, kind) == IF present THEN Part(kind, NoId) ELSE <<>>

CallParts(m) == [i \in 1 .. Len(m.calls) |-> [kind |-> "call", id |-> m.calls[i]]]

-----------------------------------------------------------------------------
(* Requests.                                                                 *)

ConvertMessages(history) ==
  [i \in 1 .. Len(history) |->
     LET m == history[i] IN
       [role |-> m.role,
        parts |-> If(m.thinking, "thinking")
                    \o (IF m.call # NoId THEN Part("result", m.call) ELSE If(m.text, "text"))
                    \o If(m.image, "image") \o CallParts(m)]]

(* An id is sent as it is when it has nine letters and digits, as a hash of  *)
(* nine otherwise: of equal ids equal hashes.                                *)
NormalizeMistralToolID(id) == IF id = NoId THEN id ELSE <<"nine", id>>

ConvertMistralCallsOnly(history) ==
  LET Renamed(parts) ==
        [j \in 1 .. Len(parts) |->
           IF parts[j].kind = "call"
           THEN [parts[j] EXCEPT !.id = NormalizeMistralToolID(@)] ELSE parts[j]]
  IN [i \in 1 .. Len(history) |->
        [ConvertMessages(history)[i] EXCEPT !.parts = Renamed(@)]]

ConvertMistralMessages(history) ==
  LET Renamed(parts) == [j \in 1 .. Len(parts) |-> [parts[j] EXCEPT !.id = NormalizeMistralToolID(@)]]
  IN [i \in 1 .. Len(history) |->
        [ConvertMessages(history)[i] EXCEPT !.parts = Renamed(@)]]

(* The calls of an assistant message are not among its content blocks.       *)
ConvertAnthropicMessages(history) ==
  LET spoken == SelectSeq(history, LAMBDA m : m.role # "system")
      Blocks(m) ==
        CASE m.call # NoId -> Part("result", m.call)
          [] m.call = NoId /\ m.image -> Part("text", NoId) \o Part("image", NoId)
          [] OTHER -> Part("text", NoId)
  IN [i \in 1 .. Len(spoken) |->
        [role  |-> IF spoken[i].role = "assistant" THEN "assistant" ELSE "user",
         parts |-> Blocks(spoken[i])]]

ResponsesInput(history) ==
  LET Items(m) ==
        CASE m.role = "system" -> <<[role |-> "system", parts |-> Part("text", NoId)]>>
          [] m.role = "tool" -> <<[role |-> "item", parts |-> Part("result", m.call)]>>
          [] OTHER -> <<[role  |-> IF m.role = "assistant" THEN "assistant" ELSE "user",
                         parts |-> If(m.text, "text") \o If(m.image, "image")]>>
                      \o [i \in 1 .. Len(m.calls) |->
                            [role |-> "item", parts |-> Part("call", m.calls[i])]]
  IN FlattenSeq([i \in 1 .. Len(history) |-> Items(history[i])])

(* The last response that has something after it is named instead of being   *)
(* sent again.                                                               *)
CodexContinuation(history) ==
  LET named == {i \in 1 .. Len(history) - 1 :
                  history[i].role = "assistant" /\ history[i].response}
  IN IF named = {} THEN 0 ELSE Max(named)

CodexInput(history) ==
  ResponsesInput(SubSeq(history, CodexContinuation(history) + 1, Len(history)))

(* A tool's answer goes out as plain text of the user.                       *)
GoogleContents(history) ==
  LET Parts(m) == IF m.role = "tool" /\ m.text THEN Part("text", NoId)
                  ELSE If(m.text, "text") \o If(m.image, "image") \o CallParts(m)
      sent == SelectSeq(history, LAMBDA m : m.role # "system" /\ Parts(m) # <<>>)
  IN [i \in 1 .. Len(sent) |->
        [role  |-> IF sent[i].role = "assistant" THEN "model" ELSE "user",
         parts |-> Parts(sent[i])]]

BedrockMessageContent(m) ==
  IF m.call # NoId THEN Part("result", m.call) \o If(m.image, "image")
  ELSE If(m.thinking, "thinking") \o If(m.text, "text") \o If(m.image, "image") \o CallParts(m)

BedrockInput(history) ==
  LET Items(m) ==
        IF m.role = "system" \/ BedrockMessageContent(m) = <<>> THEN <<>>
        ELSE <<[role  |-> IF m.role = "assistant" THEN "assistant" ELSE "user",
                parts |-> BedrockMessageContent(m)]>>
  IN FlattenSeq([i \in 1 .. Len(history) |-> Items(history[i])])

RadiusMessages(history) ==
  [i \in 1 .. Len(history) |->
     LET m == history[i] IN
       [role  |-> m.role,
        parts |-> If(m.thinking, "thinking") \o If(m.image, "image") \o CallParts(m)
                    \o (IF m.call # NoId THEN Part("result", m.call) ELSE If(m.text, "text"))]]

Request(wire, history) ==
  CASE wire = "completions" -> ConvertMessages(history)
    [] wire = "mistral"     -> ConvertMistralMessages(history)
    [] wire = "anthropic"   -> ConvertAnthropicMessages(history)
    [] wire = "responses"   -> ResponsesInput(history)
    [] wire = "codex"       -> CodexInput(history)
    [] wire = "google"      -> GoogleContents(history)
    [] wire = "bedrock"     -> BedrockInput(history)
    [] wire = "radius"      -> RadiusMessages(history)

-----------------------------------------------------------------------------
(* Gathering the events. slots is a function on call indexes, or ids; calls  *)
(* is the calls a protocol closes one by one.                                *)

NoSlot == [id |-> NoId, args |-> <<>>]

Nothing == [text |-> 0, slots |-> <<>>, calls |-> <<>>, stop |-> "", tokens |-> 0, failed |-> FALSE]

Slot(a, at) == IF at \in DOMAIN a.slots THEN a.slots[at] ELSE NoSlot

WithSlot(a, at, slot) ==
  [a EXCEPT !.slots = [i \in DOMAIN a.slots \cup {at} |-> IF i = at THEN slot ELSE a.slots[i]]]

WithArgs(a, at, args) == WithSlot(a, at, [Slot(a, at) EXCEPT !.args = args])

WithText(a) == [a EXCEPT !.text = @ + 1]

(* An index beyond the last call so far makes the calls in between exist. A  *)
(* finish reason that is null, as on every chunk but the last of many        *)
(* servers, counts as "stop"; it is looked at only when the field is there.  *)
CompletionsDelta(a, e) ==
  LET filled == [a EXCEPT !.slots = [i \in DOMAIN a.slots \cup 1 .. e.at |-> Slot(a, i)]]
  IN CASE e.kind = "text"  -> WithText(a)
       [] e.kind = "open"  -> WithSlot(filled, e.at, [Slot(filled, e.at) EXCEPT !.id = e.id])
       [] e.kind = "args"  -> WithArgs(filled, e.at, Append(Slot(filled, e.at).args, e.part))
       [] e.kind = "stop"  -> [a EXCEPT !.stop = IF e.part = "end" THEN "stop" ELSE e.part]
       [] e.kind = "usage" -> [a EXCEPT !.tokens = e.part]

CompletionsEventAlwaysStop(a, e) ==
  LET b == CompletionsDelta(a, e) IN IF e.kind \in {"stop", "usage"} THEN b ELSE [b EXCEPT !.stop = "stop"]

CompletionsEvent(a, e) ==
  LET b == CompletionsDelta(a, e)
  IN IF e.null /\ e.kind \in {"text", "open", "args"} THEN [b EXCEPT !.stop = "stop"] ELSE b

AnthropicEvent(a, e) ==
  CASE e.kind = "usage" -> [a EXCEPT !.tokens = e.part]
    [] e.kind = "text"  -> WithText(a)
    [] e.kind = "open"  -> WithSlot(a, e.at, [id |-> e.id, args |-> <<>>])
    [] e.kind = "args"  -> WithArgs(a, e.at, Append(Slot(a, e.at).args, e.part))
    [] e.kind = "stop"  -> [a EXCEPT !.stop = IF e.part = "end" THEN "stop" ELSE e.part]
    [] OTHER            -> a

(* The argument fragments are collected and not used: the arguments are those*)
(* of the event that repeats them whole.                                     *)
ResponsesEvent(a, e) ==
  CASE e.kind = "text"  -> WithText(a)
    [] e.kind = "open"  -> WithSlot(a, e.at, [id |-> e.id, args |-> <<>>])
    [] e.kind = "whole" -> WithSlot(a, e.at, [id |-> e.id, args |-> e.part])
    [] e.kind = "close" -> [a EXCEPT !.calls = Append(@, [Slot(a, e.at) EXCEPT !.args = e.part])]
    [] e.kind = "stop"  -> CASE e.part = "failed" -> [a EXCEPT !.failed = TRUE]
                             [] e.part \in {"end", "toolUse"} -> [a EXCEPT !.stop = "stop"]
                             [] OTHER -> [a EXCEPT !.stop = e.part]
    [] e.kind = "usage" -> [a EXCEPT !.tokens = e.part]
    [] OTHER            -> a

(* A call has no id of its own on this wire: it is named after its tool.     *)
GoogleEvent(a, e) ==
  CASE e.kind = "text"  -> WithText(a)
    [] e.kind = "close" -> [a EXCEPT !.calls = Append(@, [id |-> <<"google", e.name>>, args |-> e.part])]
    [] e.kind = "stop"  -> [a EXCEPT !.stop = IF e.part \in {"end", "toolUse"} THEN "stop" ELSE e.part]
    [] e.kind = "usage" -> [a EXCEPT !.tokens = e.part]
    [] OTHER            -> a

BedrockEvent(a, e) ==
  CASE e.kind = "text"  -> WithText(a)
    [] e.kind = "open"  -> WithSlot(a, e.at, [Slot(a, e.at) EXCEPT !.id = e.id])
    [] e.kind = "args"  -> WithArgs(a, e.at, Append(Slot(a, e.at).args, e.part))
    [] e.kind = "stop"  -> [a EXCEPT !.stop = IF e.part = "end" THEN "stop" ELSE e.part]
    [] e.kind = "usage" -> [a EXCEPT !.tokens = e.part]
    [] OTHER            -> a

RadiusEvent(a, e) ==
  CASE e.kind = "text"  -> WithText(a)
    [] e.kind = "open"  -> WithSlot(a, e.at, [Slot(a, e.at) EXCEPT !.id = e.id])
    [] e.kind = "args"  -> WithArgs(a, e.at, Append(Slot(a, e.at).args, e.part))
    [] e.kind = "close" -> WithSlot(a, e.at, [id |-> e.id, args |-> e.part])
    [] e.kind = "stop"  -> [a EXCEPT !.stop = IF e.part = "end" THEN "stop" ELSE e.part]
    [] e.kind = "usage" -> [a EXCEPT !.tokens = e.part]
    [] OTHER            -> a

Gather(wire, a, e) ==
  CASE wire \in {"completions", "mistral"} -> CompletionsEvent(a, e)
    [] wire = "anthropic" -> AnthropicEvent(a, e)
    [] wire \in {"responses", "codex"} -> ResponsesEvent(a, e)
    [] wire = "google" -> GoogleEvent(a, e)
    [] wire = "bedrock" -> BedrockEvent(a, e)
    [] wire = "radius" -> RadiusEvent(a, e)

-----------------------------------------------------------------------------
(* The end of the stream. parsed are the slots whose fragments make a JSON   *)
(* object: all of it, in order.                                              *)

Refused == [ok |-> FALSE, text |-> 0, calls |-> <<>>, stop |-> "", tokens |-> 0]

Returned(a, calls, stop) ==
  [ok |-> TRUE, text |-> a.text, calls |-> calls, stop |-> stop, tokens |-> a.tokens]

InIndexOrder(slots) ==
  LET at(i) == CHOOSE k \in DOMAIN slots : Cardinality({j \in DOMAIN slots : j <= k}) = i
  IN [i \in 1 .. Cardinality(DOMAIN slots) |-> slots[at(i)]]

CompletionsEnd(a, parsed) ==
  IF a.stop = "" \/ \E s \in Range(a.slots) : s.args # <<>> /\ s \notin parsed
  THEN Refused
  ELSE Returned(a, InIndexOrder(a.slots), a.stop)

(* The calls come in the order of a map, which is any order. A stream that   *)
(* ended too early is not an error.                                          *)
AnthropicEnds(a, parsed) ==
  IF \E s \in Range(a.slots) : s.args # <<>> /\ s \notin parsed
  THEN {Refused}
  ELSE {Returned(a, calls, IF a.stop = "" /\ calls # <<>> THEN "toolUse" ELSE a.stop) :
          calls \in {[i \in 1 .. Len(order) |-> a.slots[order[i]]] :
                       order \in SetToSeqs(DOMAIN a.slots)}}

ResponsesEnd(a) ==
  LET stop == IF a.stop = "" THEN "stop" ELSE a.stop
  IN IF a.failed THEN Refused
     ELSE Returned(a, a.calls, IF stop = "stop" /\ a.calls # <<>> THEN "toolUse" ELSE stop)

GoogleEnd(a) == Returned(a, a.calls, IF a.stop = "" THEN "stop" ELSE a.stop)

(* A call without arguments does not parse here.                             *)
BedrockEnd(a, parsed) ==
  IF a.stop = "" \/ \E s \in Range(a.slots) : s.args = <<>> \/ s \notin parsed
  THEN Refused
  ELSE Returned(a, InIndexOrder(a.slots), a.stop)

RadiusEnd(a, parsed) ==
  IF a.stop = "" \/ \E s \in Range(a.slots) : s.args # <<>> /\ s \notin parsed
  THEN Refused
  ELSE Returned(a, InIndexOrder(a.slots), a.stop)

Ends(wire, a, parsed) ==
  CASE wire \in {"completions", "mistral"} -> {CompletionsEnd(a, parsed)}
    [] wire = "anthropic" -> AnthropicEnds(a, parsed)
    [] wire \in {"responses", "codex"} -> {ResponsesEnd(a)}
    [] wire = "google" -> {GoogleEnd(a)}
    [] wire = "bedrock" -> {BedrockEnd(a, parsed)}
    [] wire = "radius" -> {RadiusEnd(a, parsed)}
=============================================================================
