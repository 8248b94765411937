---------------------------- MODULE ProviderCall ----------------------------
(* One conversation with a provider, wire protocol by wire protocol          *)
(* (openai.go, responses.go, anthropic.go, google.go, bedrock.go,            *)
(* theoses_messages.go of src/internal/provider). The agent loop asks with   *)
(* the whole history, the answer is refused, retried or streamed; a stream's *)
(* events come interleaved over the calls they build, and may stop anywhere. *)
(* What was returned is put into the history with the results of its tools   *)
(* and the loop asks again.                                                  *)
EXTENDS ProviderWire

CONSTANTS Wire, Names,
          MaxRetries,                    (* MaxRetries of every provider      *)
          Pieces,                        (* fragment counts a call may have   *)
          MaxCalls, MaxAsked             (* bounds of the model               *)

ASSUME ProviderBounds ==
  /\ Wire \subseteq {"completions", "mistral", "anthropic", "responses", "codex", "google", "bedrock", "radius"}
  /\ MaxRetries \in Nat /\ MaxCalls \in Nat /\ MaxAsked \in Nat /\ Pieces \subseteq Nat

VARIABLES wire, history, plan, sent, gathered, stage, attempt, result, finished, asked

callVars == <<wire, history, plan, sent, gathered, stage, attempt, result, finished, asked>>

Completions == {"completions", "mistral"}

NoPlan == [calls |-> <<>>, text |-> 0, stop |-> "", nulls |-> FALSE]

Message(role) ==
  [role |-> role, text |-> TRUE, image |-> FALSE, thinking |-> FALSE,
   calls |-> <<>>, call |-> NoId, response |-> FALSE]

(* A conversation starts with the system prompt and a prompt with an image.  *)
CallInit ==
  /\ wire \in Wire
  /\ history = <<Message("system"), [Message("user") EXCEPT !.image = TRUE]>>
  /\ plan = NoPlan /\ sent = <<>> /\ gathered = Nothing
  /\ stage = "asking" /\ attempt = 0 /\ result = Refused /\ asked = 0
  /\ finished = FALSE

-----------------------------------------------------------------------------
(* The provider: what it means to say, and the events that say it.           *)

Id(k) == <<"call", asked, k>>

Plans ==
  {[calls |-> calls, text |-> text, stop |-> stop, nulls |-> nulls] :
     calls \in UNION {[1 .. n -> [name : Names, pieces : Pieces]] : n \in 0 .. MaxCalls},
     text \in 0 .. 1,
     stop \in {"end", "length", "error"}
                \cup IF wire \in {"responses", "codex"} THEN {"failed"} ELSE {},
     nulls \in IF wire \in Completions THEN BOOLEAN ELSE {FALSE}}

Fragments(k) == [i \in 1 .. plan.calls[k].pieces |-> <<k, i>>]

Event(kind, k, part) ==
  [kind |-> kind, at |-> k, id |-> IF k = 0 THEN NoId ELSE Id(k), part |-> part,
   name |-> IF k = 0 THEN "" ELSE plan.calls[k].name, null |-> plan.nulls]

(* Which events a call is sent as.                                           *)
CallEvents(k) ==
  LET open == <<Event("open", k, <<>>)>>
      args == [i \in 1 .. plan.calls[k].pieces |-> Event("args", k, <<k, i>>)]
      whole == <<Event("whole", k, Fragments(k))>>
      close == <<Event("close", k, Fragments(k))>>
  IN CASE wire \in {"completions", "mistral", "anthropic", "bedrock"} -> open \o args
       [] wire \in {"responses", "codex"} -> open \o args \o whole \o close
       [] wire = "google" -> close
       [] wire = "radius" -> open \o args \o close

TextEvents == [i \in 1 .. plan.text |-> Event("text", 0, <<>>)]

Reason == IF plan.stop = "end" /\ plan.calls # <<>> THEN "toolUse" ELSE plan.stop

Tokens == 7

LastEvents ==
  IF wire \in {"completions", "mistral", "bedrock"}
  THEN <<Event("stop", 0, Reason), Event("usage", 0, Tokens)>>
  ELSE <<Event("usage", 0, Tokens), Event("stop", 0, Reason)>>

(* The streams that are interleaved: the text, then each call.               *)
Streams == <<TextEvents>> \o [k \in 1 .. Len(plan.calls) |-> CallEvents(k)]

Said == \A s \in DOMAIN Streams : sent[s] = Len(Streams[s])

-----------------------------------------------------------------------------
(* Asking.                                                                   *)

(* The provider answers with a status that ends the request, or that may be  *)
(* tried again ("overloaded": 408, 429 and 5xx). Completions let the header  *)
(* x-should-retry overrule the status; Bedrock leaves it to its client and   *)
(* Radius asks once.                                                         *)
CompletionsRetry(status, hint) ==
  IF hint = "none" THEN status = "overloaded" ELSE hint = "retry"

AnthropicRetry(status) == status = "overloaded"

ResponsesRetry(status) == status = "overloaded"

GoogleRetry(status) == status = "overloaded"

Retryable(status, hint) ==
  CASE wire \in Completions -> CompletionsRetry(status, hint)
    [] wire = "anthropic" -> AnthropicRetry(status)
    [] wire \in {"responses", "codex"} -> ResponsesRetry(status)
    [] wire = "google" -> GoogleRetry(status)
    [] wire \in {"bedrock", "radius"} -> FALSE

AskRefused ==
  /\ stage = "asking"
  /\ \E status \in {"overloaded", "rejected"}, hint \in {"none", "retry", "final"} :
       stage' = IF Retryable(status, hint) /\ attempt < MaxRetries THEN "backoff" ELSE "refused"
  /\ UNCHANGED <<wire, history, plan, sent, gathered, attempt, result, finished, asked>>

RetryAfterDelay ==
  /\ stage = "backoff"
  /\ stage' = "asking" /\ attempt' = attempt + 1
  /\ UNCHANGED <<wire, history, plan, sent, gathered, result, finished, asked>>

CanceledInBackoff ==
  /\ stage = "backoff"
  /\ stage' = "refused"
  /\ UNCHANGED <<wire, history, plan, sent, gathered, attempt, result, finished, asked>>

AskAccepted ==
  /\ stage = "asking"
  /\ plan' \in Plans
  /\ sent' = [s \in 1 .. Len(plan'.calls) + 1 |-> 0]
  /\ gathered' = Nothing
  /\ stage' = "streaming"
  /\ UNCHANGED <<wire, history, attempt, result, finished, asked>>

(* Calls are announced in the order of their indexes; their arguments come   *)
(* interleaved (openai_test.go:774). Google sends a whole call in a chunk.   *)
Deliver(s) ==
  /\ stage = "streaming"
  /\ s \in DOMAIN Streams /\ sent[s] < Len(Streams[s])
  /\ s > 2 /\ sent[s] = 0 => sent[s - 1] > 0
  /\ sent' = [sent EXCEPT ![s] = @ + 1]
  /\ gathered' = Gather(wire, gathered, Streams[s][sent[s] + 1])
  /\ UNCHANGED <<wire, history, plan, stage, attempt, result, finished, asked>>

DeliverLast ==
  /\ stage \in {"streaming", "closing"}
  /\ Said
  /\ LET i == IF stage = "streaming" THEN 1 ELSE 2
     IN gathered' = Gather(wire, gathered, LastEvents[i])
  /\ stage' = IF stage = "streaming" THEN "closing" ELSE "closed"
  /\ UNCHANGED <<wire, history, plan, sent, attempt, result, finished, asked>>

Parses(slot) == \E k \in DOMAIN plan.calls : slot.id = Id(k) /\ slot.args = Fragments(k)

(* The event that says why the answer stops has been delivered: a ghost.     *)
Finished == stage = "closed" \/ (stage = "closing" /\ LastEvents[1].kind = "stop")

(* The stream is over, as it should be or before its time.                   *)
StreamEnds ==
  /\ stage \in {"streaming", "closing", "closed"}
  /\ result' \in Ends(wire, gathered, {slot \in Range(gathered.slots) : Parses(slot)})
  /\ stage' = IF result'.ok THEN "returned" ELSE "refused"
  /\ finished' = Finished
  /\ UNCHANGED <<wire, history, plan, sent, gathered, attempt, asked>>

StreamBreaks ==
  /\ stage = "streaming"
  /\ result' = Refused /\ stage' = "refused" /\ finished' = FALSE
  /\ UNCHANGED <<wire, history, plan, sent, gathered, attempt, asked>>

(* The loop keeps what was said, runs the calls and asks again, unless the   *)
(* answer is an error; without calls the next prompt comes.                  *)
AskAgain ==
  LET ids == [i \in 1 .. Len(result.calls) |-> result.calls[i].id]
      assistant == [Message("assistant") EXCEPT !.text = result.text > 0,
                                                !.calls = ids, !.response = TRUE]
      answers == [i \in 1 .. Len(ids) |-> [Message("tool") EXCEPT !.call = ids[i]]]
  IN
  /\ stage = "returned" /\ asked < MaxAsked
  /\ history' = IF result.stop = "error" THEN history
                ELSE Append(history, assistant)
                       \o (IF ids = <<>> THEN <<Message("user")>> ELSE answers)
  /\ stage' = "asking" /\ attempt' = 0 /\ asked' = asked + 1
  /\ plan' = NoPlan /\ sent' = <<>> /\ gathered' = Nothing /\ result' = Refused
  /\ finished' = FALSE
  /\ UNCHANGED wire

CallNext ==
  \/ AskRefused \/ RetryAfterDelay \/ CanceledInBackoff \/ AskAccepted
  \/ (\E s \in 1 .. MaxCalls + 1 : Deliver(s)) \/ DeliverLast
  \/ StreamEnds \/ StreamBreaks \/ AskAgain

CallSpec == CallInit /\ [][CallNext]_callVars

-----------------------------------------------------------------------------
(* Properties.                                                               *)

CallTypeOK ==
  /\ wire \in Wire /\ attempt \in 0 .. MaxRetries /\ asked \in 0 .. MaxAsked
  /\ stage \in {"asking", "backoff", "streaming", "closing", "closed", "returned", "refused"}
  /\ result.ok => stage = "returned"

(* Bedrock, Radius and, on servers that leave out the finish reason until it *)
(* is known, completions take nothing less for an answer than one that came  *)
(* to its end: a stream that was cut is an error there. An answer that came  *)
(* to its end has all the text and each call once, with its own arguments,   *)
(* in order where the calls are numbered; and on every protocol no call is   *)
(* returned with part of its arguments or with a piece of another call's     *)
(* (the stream loops of openai.go, anthropic.go, responses.go, google.go,    *)
(* bedrock.go and theoses_messages.go).                                      *)
AnswersAreWhole ==
  stage = "returned" =>
    /\ \A i \in DOMAIN result.calls :
         result.calls[i].args = <<>> \/ \E k \in DOMAIN plan.calls : result.calls[i].args = Fragments(k)
    /\ wire \in Completions /\ ~plan.nulls => finished
    /\ wire \in {"bedrock", "radius"} => finished
    /\ finished =>
         /\ result.text = plan.text
         /\ Len(result.calls) = Len(plan.calls)
         /\ \A k \in DOMAIN plan.calls : \E i \in DOMAIN result.calls :
              /\ result.calls[i].args = Fragments(k)
              /\ wire # "google" => result.calls[i].id = Id(k)
              /\ wire \notin {"google", "anthropic", "responses", "codex"} => i = k

(* "The provider also rejects a stream that ends without a finish_reason"    *)
(* (docs/M2-FIRST-SLICE.md:16): what is returned was finished. A chunk that  *)
(* says finish_reason: null is taken for a stop, so that on a server that    *)
(* says so a stream cut after any chunk is an answer (openai.go:482).        *)
CutStreamsRejected == stage = "returned" /\ wire \in Completions => finished

RequestParts == LET r == Request(wire, history) IN FlattenSeq([i \in 1 .. Len(r) |-> r[i].parts])

PartIds(kind) ==
  LET parts == RequestParts
  IN FlattenSeq([j \in 1 .. Len(parts) |-> IF parts[j].kind = kind THEN <<parts[j].id>> ELSE <<>>])

(* On the protocols that carry both, the request of every round has the      *)
(* result of each call it has, in the order of the calls, and no result      *)
(* without its call, unless the response that made the call is named instead *)
(* of being sent; the image of the prompt is sent until then                 *)
(* (convertMessages, normalizeMistralMessages, responsesInput,               *)
(* codexContinuation, bedrockInput, radiusMessages).                         *)
RequestsArePaired ==
  stage = "asking" =>
    /\ wire \in {"completions", "mistral", "responses", "bedrock", "radius"} =>
         /\ PartIds("call") = PartIds("result")
         /\ Len(PartIds("call")) = Len(FlattenSeq([i \in 1 .. Len(history) |-> history[i].calls]))
         /\ \E p \in Range(RequestParts) : p.kind = "image"
    /\ wire = "codex" =>
         /\ PartIds("call") = <<>>
         /\ CodexContinuation(history) > 0 =>
              PartIds("result") = history[CodexContinuation(history)].calls
=============================================================================
