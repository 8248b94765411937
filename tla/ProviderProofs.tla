---------------------------- MODULE ProviderProofs ----------------------------
(***************************************************************************)
(* Proofs about one conversation with a model service, for every wire      *)
(* protocol, any number of requests, of calls in an answer and of pieces   *)
(* that a call's arguments arrive in.                                      *)
(*                                                                         *)
(* The answer.  What the service still has to send and what the reader has *)
(* gathered are related call by call: how much of a call was heard (sent)  *)
(* determines its slot (SlotsOK) or its place in the list of calls         *)
(* (GatheredOK), and a stop was seen only after all of them (StopOK).  The *)
(* protocols differ in which events a call has and in which of them closes *)
(* it; the lemmas on CompletionsDelta and its siblings say what one event  *)
(* adds (Gathers).                                                         *)
(*                                                                         *)
(* The request.  A history in which every call is answered (Balanced) has  *)
(* the same identifiers on both sides in what each protocol makes of it,   *)
(* because the conversions work message by message (PartsOf, AllParts) and *)
(* Mistral's renaming is one function.  Codex sends only what was said     *)
(* since the last answer (CodexPaired): that part is balanced on its own.  *)
(***************************************************************************)
EXTENDS ProviderCall, FiniteSetTheorems, WellFoundedInduction, TLAPS


-----------------------------------------------------------------------------
(* Sequences of whatever is in them.                                        *)

IsSeq(s) == s \in Seq(Range(s))

\* Induction over numbers: what fails somewhere fails somewhere first.
LEMMA MinExists ==
  ASSUME NEW S \in SUBSET Nat, S # {}
  PROVE  \E m \in S : \A k \in S : m <= k
<1> DEFINE R == {pair \in Nat \X Nat : pair[1] < pair[2]}
<1>1. IsWellFoundedOn(R, Nat)
  BY NatLessThanWellFounded DEF OpToRel
<1>2. PICK m \in S : \A k \in S : <<k, m>> \notin R
  BY <1>1, WFMin
<1>3. ASSUME NEW k \in S PROVE m <= k
  <2>1. k \in Nat /\ m \in Nat /\ (k < m => <<k, m>> \in R)
    OBVIOUS
  <2> QED
    BY <1>2, <2>1
<1> QED
  BY <1>3

LEMMA Elements ==
  ASSUME NEW s, IsSeq(s)
  PROVE  /\ Len(s) \in Nat /\ DOMAIN s = 1 .. Len(s)
         /\ \A i \in 1 .. Len(s) : s[i] \in Range(s)
  BY DEF IsSeq, Range

LEMMA BuiltUp ==
  ASSUME NEW n \in Nat, NEW s, s = [i \in 1 .. n |-> s[i]]
  PROVE  IsSeq(s) /\ Len(s) = n /\ DOMAIN s = 1 .. n
<1>1. s \in [1 .. n -> {s[i] : i \in 1 .. n}]
  OBVIOUS
<1>2. s \in Seq({s[i] : i \in 1 .. n}) /\ Len(s) = n /\ DOMAIN s = 1 .. n
  BY <1>1
<1> QED
  BY <1>2 DEF IsSeq, Range

LEMMA Single ==
  ASSUME NEW x
  PROVE  IsSeq(<<x>>) /\ Len(<<x>>) = 1 /\ DOMAIN <<x>> = 1 .. 1 /\ <<x>>[1] = x
  BY DEF IsSeq, Range

LEMMA Empty == IsSeq(<<>>) /\ Len(<<>>) = 0 /\ DOMAIN <<>> = {}
  BY DEF IsSeq, Range

LEMMA SameSeq ==
  ASSUME NEW s, NEW t, IsSeq(s), IsSeq(t), Len(s) = Len(t), \A i \in 1 .. Len(s) : s[i] = t[i]
  PROVE  s = t
<1>1. s = [i \in 1 .. Len(s) |-> s[i]] /\ t = [i \in 1 .. Len(t) |-> t[i]]
  BY DEF IsSeq
<1> QED
  BY <1>1

LEMMA Joined ==
  ASSUME NEW s, NEW t, IsSeq(s), IsSeq(t)
  PROVE  /\ IsSeq(s \o t)
         /\ Len(s) \in Nat /\ Len(t) \in Nat
         /\ Len(s \o t) = Len(s) + Len(t)
         /\ DOMAIN (s \o t) = 1 .. Len(s) + Len(t)
         /\ \A i \in 1 .. Len(s) : (s \o t)[i] = s[i]
         /\ \A j \in 1 .. Len(t) : (s \o t)[Len(s) + j] = t[j]
<1> DEFINE R == Range(s) \cup Range(t)
<1>1. s \in Seq(R) /\ t \in Seq(R)
  BY DEF IsSeq
<1> HIDE DEF R
<1>2. /\ Len(s) \in Nat /\ Len(t) \in Nat
      /\ Len(s \o t) = Len(s) + Len(t)
      /\ DOMAIN (s \o t) = 1 .. Len(s) + Len(t)
      /\ \A i \in 1 .. Len(s) : (s \o t)[i] = s[i]
      /\ \A j \in 1 .. Len(t) : (s \o t)[Len(s) + j] = t[j]
  BY <1>1
<1>3. s \o t = [i \in 1 .. Len(s) + Len(t) |-> (s \o t)[i]]
  <2>1. s \o t \in Seq(R)
    BY <1>1
  <2> DEFINE r == s \o t
  <2> HIDE DEF r
  <2>2. r \in Seq(R)
    BY <2>1 DEF r
  <2>3. r = [i \in DOMAIN r |-> r[i]]
    BY <2>2
  <2> QED
    BY <1>2, <2>3 DEF r
<1>4. Len(s) + Len(t) \in Nat
  BY <1>2
<1> QED
  BY <1>2, <1>3, <1>4, BuiltUp

LEMMA Added ==
  ASSUME NEW s, IsSeq(s), NEW e
  PROVE  Append(s, e) = s \o <<e>>
<1> DEFINE R == Range(s) \cup {e}
<1>1. s \in Seq(R) /\ e \in R
  BY DEF IsSeq
<1> HIDE DEF R
<1> QED
  BY <1>1

-----------------------------------------------------------------------------
(* The provider's streams.                                                  *)

Closing == {"responses", "codex"}
Wires == Completions \cup Closing \cup {"anthropic", "google", "bedrock", "radius"}

PlanOK ==
  /\ plan.calls \in Seq([name : Names, pieces : Nat])
  /\ plan.text \in Nat
  /\ plan.nulls \in BOOLEAN

CallsPlanned == 1 .. Len(plan.calls)

\* What call k has of its arguments after n events.
First(k, n) == [i \in 1 .. n |-> <<k, i>>]

GotSoFar(k, n) ==
  IF wire \in Closing
  THEN IF n <= plan.calls[k].pieces + 1 THEN <<>> ELSE Fragments(k)
  ELSE First(k, IF n <= plan.calls[k].pieces + 1 THEN n - 1 ELSE plan.calls[k].pieces)

LEMMA StreamsAre ==
  ASSUME PlanOK
  PROVE  /\ Len(plan.calls) \in Nat
         /\ DOMAIN Streams = 1 .. Len(plan.calls) + 1
         /\ Streams[1] = TextEvents
         /\ \A k \in CallsPlanned : k + 1 \in DOMAIN Streams /\ Streams[k + 1] = CallEvents(k)
<1> DEFINE n == Len(plan.calls)
           calls == [k \in 1 .. n |-> CallEvents(k)]
           text == <<TextEvents>>
<1>1. n \in Nat
  BY DEF PlanOK
<1>2. /\ IsSeq(text) /\ Len(text) = 1 /\ text[1] = TextEvents
      /\ IsSeq(calls) /\ Len(calls) = n
  BY <1>1, Single, BuiltUp
<1>3. \A k \in 1 .. n : calls[k] = CallEvents(k)
  OBVIOUS
<1>4. Streams = text \o calls
  BY DEF Streams
<1> HIDE DEF calls, text
<1>5. /\ DOMAIN Streams = 1 .. 1 + n
      /\ \A i \in 1 .. 1 : Streams[i] = text[i]
      /\ \A k \in 1 .. n : Streams[1 + k] = calls[k]
  <2>1. /\ DOMAIN (text \o calls) = 1 .. Len(text) + Len(calls)
        /\ \A i \in 1 .. Len(text) : (text \o calls)[i] = text[i]
        /\ \A j \in 1 .. Len(calls) : (text \o calls)[Len(text) + j] = calls[j]
    <3>1. IsSeq(text) /\ IsSeq(calls)
      BY <1>2
    <3> QED
      BY <3>1, Joined
  <2> QED
    BY <1>2, <1>4, <2>1, Zenon
<1> HIDE DEF n
<1>6. \A k \in 1 .. n : 1 + k = k + 1 /\ k + 1 \in 1 .. n + 1
  BY <1>1
<1> QED
  BY <1>1, <1>2, <1>3, <1>5, <1>6 DEF CallsPlanned, n

LEMMA PlannedPieces ==
  ASSUME PlanOK, NEW k \in CallsPlanned
  PROVE  plan.calls[k].pieces \in Nat /\ k \in Nat \ {0}
<1> DEFINE R == [name : Names, pieces : Nat]
<1>1. plan.calls \in Seq(R)
  BY DEF PlanOK
<1>2. \A r \in R : r.pieces \in Nat
  OBVIOUS
<1> HIDE DEF R
<1>3. plan.calls[k] \in R /\ Len(plan.calls) \in Nat
  BY <1>1 DEF CallsPlanned
<1> QED
  BY <1>2, <1>3 DEF CallsPlanned

\* The events of a call, one after the other.
LEMMA ArgsEvents ==
  ASSUME NEW p \in Nat, NEW open, NEW args, args = [i \in 1 .. p |-> args[i]]
  PROVE  LET s == <<open>> \o args
         IN /\ IsSeq(s) /\ Len(s) = p + 1
            /\ s[1] = open
            /\ \A i \in 1 .. p : s[i + 1] = args[i]
<1> DEFINE one == <<open>>
           s == one \o args
<1>1. IsSeq(one) /\ Len(one) = 1 /\ one[1] = open /\ IsSeq(args) /\ Len(args) = p
  BY Single, BuiltUp
<1> HIDE DEF one
<1>2. /\ IsSeq(s) /\ Len(s) = 1 + p
      /\ \A i \in 1 .. 1 : s[i] = one[i]
      /\ \A i \in 1 .. p : s[1 + i] = args[i]
  <2>1. /\ IsSeq(one \o args) /\ Len(one \o args) = Len(one) + Len(args)
        /\ \A i \in 1 .. Len(one) : (one \o args)[i] = one[i]
        /\ \A j \in 1 .. Len(args) : (one \o args)[Len(one) + j] = args[j]
    <3>1. IsSeq(one) /\ IsSeq(args)
      BY <1>1
    <3> QED
      BY <3>1, Joined
  <2> QED
    BY <1>1, <2>1, Zenon
<1> HIDE DEF s
<1>3. /\ IsSeq(s) /\ Len(s) = p + 1
      /\ s[1] = open
      /\ \A i \in 1 .. p : s[i + 1] = args[i]
  BY <1>1, <1>2
<1> QED
  BY <1>3 DEF s, one

\* One more event at the end.
LEMMA OneMore ==
  ASSUME NEW s, IsSeq(s), NEW e
  PROVE  LET r == s \o <<e>>
         IN /\ IsSeq(r) /\ Len(s) \in Nat /\ Len(r) = Len(s) + 1
            /\ \A i \in 1 .. Len(s) : r[i] = s[i]
            /\ r[Len(s) + 1] = e
<1> DEFINE one == <<e>>
<1>1. IsSeq(one) /\ Len(one) = 1 /\ one[1] = e
  BY Single
<1> HIDE DEF one
<1>2. /\ IsSeq(s \o one) /\ Len(s) \in Nat /\ Len(s \o one) = Len(s) + Len(one)
      /\ \A i \in 1 .. Len(s) : (s \o one)[i] = s[i]
      /\ \A j \in 1 .. Len(one) : (s \o one)[Len(s) + j] = one[j]
  <2>1. IsSeq(one)
    BY <1>1
  <2> QED
    BY <2>1, Joined
<1>3. (s \o one)[Len(s) + 1] = one[1]
  BY <1>1, <1>2
<1> QED
  BY <1>1, <1>2, <1>3 DEF one

OpenEvent(k) == Event("open", k, <<>>)
ArgsEvent(k, i) == Event("args", k, <<k, i>>)
WholeEvent(k) == Event("whole", k, Fragments(k))
CloseEvent(k) == Event("close", k, Fragments(k))

OpenArgs(k) == <<OpenEvent(k)>> \o [i \in 1 .. plan.calls[k].pieces |-> ArgsEvent(k, i)]

LEMMA CallEventsByWire ==
  ASSUME NEW k
  PROVE  /\ wire \in Completions \cup {"anthropic", "bedrock"} => CallEvents(k) = OpenArgs(k)
         /\ wire = "radius" => CallEvents(k) = OpenArgs(k) \o <<CloseEvent(k)>>
         /\ wire \in Closing => CallEvents(k) = (OpenArgs(k) \o <<WholeEvent(k)>>) \o <<CloseEvent(k)>>
         /\ wire = "google" => CallEvents(k) = <<CloseEvent(k)>>
<1>1. ASSUME wire \in Completions \cup {"anthropic", "bedrock"}
      PROVE  CallEvents(k) = OpenArgs(k)
  BY <1>1 DEF CallEvents, OpenArgs, OpenEvent, ArgsEvent, Completions
<1>2. ASSUME wire = "radius"
      PROVE  CallEvents(k) = OpenArgs(k) \o <<CloseEvent(k)>>
  BY <1>2 DEF CallEvents, OpenArgs, OpenEvent, ArgsEvent, CloseEvent
<1>3. ASSUME wire \in Closing
      PROVE  CallEvents(k) = (OpenArgs(k) \o <<WholeEvent(k)>>) \o <<CloseEvent(k)>>
  BY <1>3 DEF CallEvents, OpenArgs, OpenEvent, ArgsEvent, CloseEvent, WholeEvent, Closing
<1>4. ASSUME wire = "google"
      PROVE  CallEvents(k) = <<CloseEvent(k)>>
  BY <1>4 DEF CallEvents, CloseEvent
<1> QED
  BY <1>1, <1>2, <1>3, <1>4

\* How many events a call is sent as.
CallLen(k) ==
  IF wire = "google" THEN 1
  ELSE IF wire = "radius" THEN plan.calls[k].pieces + 2
  ELSE IF wire \in Closing THEN plan.calls[k].pieces + 3
  ELSE plan.calls[k].pieces + 1

LEMMA CallEventsAre ==
  ASSUME PlanOK, wire \in Wires, NEW k \in CallsPlanned
  PROVE  /\ plan.calls[k].pieces \in Nat
         /\ Len(CallEvents(k)) = CallLen(k)
         /\ wire # "google" =>
              /\ CallEvents(k)[1] = OpenEvent(k)
              /\ \A i \in 1 .. plan.calls[k].pieces : CallEvents(k)[i + 1] = ArgsEvent(k, i)
         /\ wire = "radius" => CallEvents(k)[plan.calls[k].pieces + 2] = CloseEvent(k)
         /\ wire \in Closing =>
              /\ CallEvents(k)[plan.calls[k].pieces + 2] = WholeEvent(k)
              /\ CallEvents(k)[plan.calls[k].pieces + 3] = CloseEvent(k)
         /\ wire = "google" => CallEvents(k)[1] = CloseEvent(k)
<1> DEFINE p == plan.calls[k].pieces
           args == [i \in 1 .. p |-> ArgsEvent(k, i)]
           s == OpenArgs(k)
           t == s \o <<WholeEvent(k)>>
           u == t \o <<CloseEvent(k)>>
           r == s \o <<CloseEvent(k)>>
<1>1. p \in Nat
  BY PlannedPieces
<1> HIDE DEF p
<1>2. args = [i \in 1 .. p |-> args[i]] /\ \A i \in 1 .. p : args[i] = ArgsEvent(k, i)
  OBVIOUS
<1>3. s = <<OpenEvent(k)>> \o args
  BY DEF OpenArgs, p
<1> HIDE DEF args
<1>4. /\ IsSeq(s) /\ Len(s) = p + 1 /\ s[1] = OpenEvent(k)
      /\ \A i \in 1 .. p : s[i + 1] = ArgsEvent(k, i)
  BY <1>1, <1>2, <1>3, ArgsEvents
<1> HIDE DEF s
<1>s. IsSeq(s)
  BY <1>4
<1>5. /\ IsSeq(r) /\ Len(r) = Len(s) + 1
      /\ \A i \in 1 .. Len(s) : r[i] = s[i]
      /\ r[Len(s) + 1] = CloseEvent(k)
  BY <1>s, OneMore
<1>6. /\ IsSeq(t) /\ Len(t) = Len(s) + 1
      /\ \A i \in 1 .. Len(s) : t[i] = s[i]
      /\ t[Len(s) + 1] = WholeEvent(k)
  BY <1>s, OneMore
<1> HIDE DEF r, t
<1>t. IsSeq(t)
  BY <1>6
<1>7. /\ IsSeq(u) /\ Len(u) = Len(t) + 1
      /\ \A i \in 1 .. Len(t) : u[i] = t[i]
      /\ u[Len(t) + 1] = CloseEvent(k)
  BY <1>t, OneMore
<1> HIDE DEF u
<1>8. /\ wire \in Completions \cup {"anthropic", "bedrock"} => CallEvents(k) = s
      /\ wire = "radius" => CallEvents(k) = r
      /\ wire \in Closing => CallEvents(k) = u
      /\ wire = "google" => CallEvents(k) = <<CloseEvent(k)>>
  BY CallEventsByWire, Zenon DEF r, s, t, u
<1>9. /\ Len(<<CloseEvent(k)>>) = 1 /\ <<CloseEvent(k)>>[1] = CloseEvent(k)
  OBVIOUS
<1>10. CASE wire \in Completions \cup {"anthropic", "bedrock"}
  BY <1>1, <1>4, <1>8, <1>10 DEF CallLen, p, Completions, Closing
<1>11. CASE wire = "radius"
  <2>1. /\ Len(CallEvents(k)) = p + 2 /\ CallEvents(k)[1] = OpenEvent(k)
        /\ \A i \in 1 .. p : CallEvents(k)[i + 1] = ArgsEvent(k, i)
        /\ CallEvents(k)[p + 2] = CloseEvent(k)
    BY <1>1, <1>4, <1>5, <1>8, <1>11
  <2> QED
    BY <1>1, <1>11, <2>1 DEF CallLen, p, Closing
<1>12. CASE wire \in Closing
  <2>1. /\ Len(CallEvents(k)) = p + 3 /\ CallEvents(k)[1] = OpenEvent(k)
        /\ \A i \in 1 .. p : CallEvents(k)[i + 1] = ArgsEvent(k, i)
        /\ CallEvents(k)[p + 2] = WholeEvent(k) /\ CallEvents(k)[p + 3] = CloseEvent(k)
    BY <1>1, <1>4, <1>6, <1>7, <1>8, <1>12
  <2> QED
    BY <1>1, <1>12, <2>1 DEF CallLen, p, Closing
<1>13. CASE wire = "google"
  BY <1>1, <1>8, <1>9, <1>13 DEF CallLen, p, Closing
<1> QED
  BY <1>10, <1>11, <1>12, <1>13 DEF Wires

-----------------------------------------------------------------------------
(* What an event adds to what was gathered.                                 *)

Shape(a) ==
  a = [text |-> a.text, slots |-> a.slots, calls |-> a.calls, stop |-> a.stop,
       tokens |-> a.tokens, failed |-> a.failed]

SlotsWith(slots, at, slot) == [i \in DOMAIN slots \cup {at} |-> IF i = at THEN slot ELSE slots[i]]

Gathers(a, e, text, slots, calls) ==
  LET b == Gather(wire, a, e)
  IN /\ Shape(b)
     /\ b.text = text /\ b.slots = slots /\ b.calls = calls
     /\ b.stop = a.stop \/ (wire \in Completions /\ plan.nulls)

LEMMA EventIs ==
  ASSUME NEW kind, NEW k, NEW part
  PROVE  /\ Event(kind, k, part).kind = kind /\ Event(kind, k, part).at = k
         /\ Event(kind, k, part).part = part /\ Event(kind, k, part).null = plan.nulls
         /\ k # 0 => /\ Event(kind, k, part).id = Id(k)
                     /\ Event(kind, k, part).name = plan.calls[k].name
  BY DEF Event

LEMMA WithSlotIs ==
  ASSUME NEW a, Shape(a), NEW at, NEW slot
  PROVE  LET b == WithSlot(a, at, slot)
         IN /\ Shape(b) /\ b.slots = SlotsWith(a.slots, at, slot)
            /\ b.text = a.text /\ b.calls = a.calls /\ b.stop = a.stop
  BY DEF Shape, WithSlot, SlotsWith

LEMMA StoppedIs ==
  ASSUME NEW b, Shape(b)
  PROVE  LET c == [b EXCEPT !.stop = "stop"]
         IN /\ Shape(c) /\ c.slots = b.slots /\ c.text = b.text /\ c.calls = b.calls
  BY DEF Shape

\* On the wire of completions, a null stops.
LEMMA CompletionsGathers ==
  ASSUME wire \in Completions, NEW a, NEW e, e.null = plan.nulls, e.kind \in {"text", "open", "args"},
         NEW b, b = CompletionsDelta(a, e), Shape(b), b.stop = a.stop
  PROVE  Gathers(a, e, b.text, b.slots, b.calls)
<1>1. Gather(wire, a, e) = CompletionsEvent(a, e)
  BY DEF Gather, Completions
<1>2. CASE plan.nulls
  <2>1. Gather(wire, a, e) = [b EXCEPT !.stop = "stop"]
    BY <1>1, <1>2 DEF CompletionsEvent
  <2> QED
    BY <1>2, <2>1, StoppedIs DEF Gathers
<1>3. CASE ~plan.nulls
  <2>1. Gather(wire, a, e) = b
    BY <1>1, <1>3 DEF CompletionsEvent
  <2> QED
    BY <2>1 DEF Gathers
<1> QED
  BY <1>2, <1>3

\* The slots up to the k-th are there, empty if nothing is known of them.
Filled(a, k) == [a EXCEPT !.slots = [i \in DOMAIN a.slots \cup 1 .. k |-> Slot(a, i)]]

\* The indexes before are filled already.
LEMMA FilledIs ==
  ASSUME NEW a, Shape(a), NEW k \in Nat \ {0}, 1 .. k - 1 \subseteq DOMAIN a.slots
  PROVE  LET f == Filled(a, k)
         IN /\ Shape(f) /\ f.slots = SlotsWith(a.slots, k, Slot(a, k))
            /\ f.text = a.text /\ f.calls = a.calls /\ f.stop = a.stop
            /\ Slot(f, k) = Slot(a, k)
            /\ \A slot : SlotsWith(f.slots, k, slot) = SlotsWith(a.slots, k, slot)
<1> DEFINE f == Filled(a, k)
<1>1. DOMAIN a.slots \cup 1 .. k = DOMAIN a.slots \cup {k}
  OBVIOUS
<1>2. /\ Shape(f) /\ f.slots = [i \in DOMAIN a.slots \cup {k} |-> Slot(a, i)]
      /\ f.text = a.text /\ f.calls = a.calls /\ f.stop = a.stop
  BY <1>1 DEF Shape, Filled
<1> HIDE DEF f
<1>3. f.slots = SlotsWith(a.slots, k, Slot(a, k))
  BY <1>2 DEF SlotsWith, Slot
<1>4. Slot(f, k) = Slot(a, k)
  BY <1>3 DEF SlotsWith, Slot
<1>5. ASSUME NEW slot PROVE SlotsWith(f.slots, k, slot) = SlotsWith(a.slots, k, slot)
  BY <1>3 DEF SlotsWith
<1> QED
  BY <1>2, <1>3, <1>4, <1>5 DEF f

\* A piece of text.
LEMMA TextGathers ==
  ASSUME wire \in Wires, NEW a, Shape(a)
  PROVE  Gathers(a, Event("text", 0, <<>>), a.text + 1, a.slots, a.calls)
<1> DEFINE e == Event("text", 0, <<>>)
           b == WithText(a)
<1> SUFFICES Gathers(a, e, a.text + 1, a.slots, a.calls)
  OBVIOUS
<1>1. e.kind = "text" /\ e.null = plan.nulls
  BY EventIs
<1> HIDE DEF e
<1>2. /\ Shape(b) /\ b.text = a.text + 1 /\ b.slots = a.slots /\ b.calls = a.calls
      /\ b.stop = a.stop
  BY DEF Shape, WithText
<1>3. CASE wire \in Completions
  <2>1. CompletionsDelta(a, e) = b
    BY <1>1 DEF CompletionsDelta
  <2> HIDE DEF b
  <2>2. Gathers(a, e, b.text, b.slots, b.calls)
    BY <1>1, <1>2, <1>3, <2>1, CompletionsGathers
  <2> QED
    BY <1>2, <2>2
<1>4. CASE wire \notin Completions
  <2>1. Gather(wire, a, e) = b
    BY <1>1, <1>4 DEF Gather, Wires, Completions, Closing, AnthropicEvent, ResponsesEvent,
                      GoogleEvent, BedrockEvent, RadiusEvent
  <2> HIDE DEF b
  <2> QED
    BY <1>2, <2>1 DEF Gathers
<1> QED
  BY <1>3, <1>4

\* A call is announced.
LEMMA OpenGathers ==
  ASSUME wire \in Wires \ {"google"}, NEW a, Shape(a),
         NEW k \in Nat \ {0}, 1 .. k - 1 \subseteq DOMAIN a.slots, k \notin DOMAIN a.slots
  PROVE  Gathers(a, OpenEvent(k), a.text,
                 SlotsWith(a.slots, k, [id |-> Id(k), args |-> <<>>]), a.calls)
<1> DEFINE e == OpenEvent(k)
           slot == [id |-> Id(k), args |-> <<>>]
<1> SUFFICES Gathers(a, e, a.text, SlotsWith(a.slots, k, slot), a.calls)
  OBVIOUS
<1>1. e.kind = "open" /\ e.null = plan.nulls /\ e.at = k /\ e.id = Id(k)
  BY EventIs DEF OpenEvent
<1> HIDE DEF e
<1>2. Slot(a, k) = NoSlot /\ [NoSlot EXCEPT !.id = Id(k)] = slot
  BY DEF Slot, NoSlot
<1> HIDE DEF slot
<1>3. CASE wire \in Completions
  <2> DEFINE f == Filled(a, k)
             b == WithSlot(f, k, slot)
  <2>1. /\ Shape(f) /\ f.text = a.text /\ f.calls = a.calls /\ f.stop = a.stop
        /\ Slot(f, k) = Slot(a, k)
        /\ SlotsWith(f.slots, k, slot) = SlotsWith(a.slots, k, slot)
    BY FilledIs
  <2>2. CompletionsDelta(a, e) = WithSlot(f, k, [Slot(f, k) EXCEPT !.id = Id(k)])
    BY <1>1 DEF CompletionsDelta, Filled
  <2> HIDE DEF f
  <2>3. CompletionsDelta(a, e) = b
    BY <1>2, <2>1, <2>2
  <2>4. /\ Shape(b) /\ b.slots = SlotsWith(a.slots, k, slot)
        /\ b.text = a.text /\ b.calls = a.calls /\ b.stop = a.stop
    BY <2>1, WithSlotIs
  <2> HIDE DEF b
  <2>5. Gathers(a, e, b.text, b.slots, b.calls)
    BY <1>1, <1>3, <2>3, <2>4, CompletionsGathers
  <2> QED
    BY <2>4, <2>5
<1>4. CASE wire \notin Completions
  <2> DEFINE b == WithSlot(a, k, slot)
  <2>1. Gather(wire, a, e) = b
    BY <1>1, <1>2, <1>4 DEF Gather, Wires, Completions, Closing, AnthropicEvent, ResponsesEvent,
                      BedrockEvent, RadiusEvent, slot
  <2>2. /\ Shape(b) /\ b.slots = SlotsWith(a.slots, k, slot)
        /\ b.text = a.text /\ b.calls = a.calls /\ b.stop = a.stop
    BY WithSlotIs
  <2> HIDE DEF b
  <2> QED
    BY <2>1, <2>2 DEF Gathers
<1> QED
  BY <1>3, <1>4

\* A fragment of a call's arguments arrives.
LEMMA ArgsGathers ==
  ASSUME wire \in Wires \ ({"google"} \cup Closing), NEW a, Shape(a),
         NEW k \in Nat \ {0}, 1 .. k \subseteq DOMAIN a.slots, NEW i
  PROVE  Gathers(a, ArgsEvent(k, i), a.text,
                 SlotsWith(a.slots, k, [a.slots[k] EXCEPT !.args = Append(a.slots[k].args, <<k, i>>)]), a.calls)
<1> DEFINE e == ArgsEvent(k, i)
           slot == [a.slots[k] EXCEPT !.args = Append(a.slots[k].args, <<k, i>>)]
<1> SUFFICES Gathers(a, e, a.text, SlotsWith(a.slots, k, slot), a.calls)
  OBVIOUS
<1>1. e.kind = "args" /\ e.null = plan.nulls /\ e.at = k /\ e.part = <<k, i>>
  BY EventIs DEF ArgsEvent
<1> HIDE DEF e
<1>2. Slot(a, k) = a.slots[k]
  BY DEF Slot
<1>3. [Slot(a, k) EXCEPT !.args = Append(Slot(a, k).args, e.part)] = slot
  BY <1>1, <1>2
<1> HIDE DEF slot
<1>4. CASE wire \in Completions
  <2> DEFINE f == Filled(a, k)
             b == WithSlot(f, k, slot)
  <2>1. /\ Shape(f) /\ f.text = a.text /\ f.calls = a.calls /\ f.stop = a.stop
        /\ Slot(f, k) = Slot(a, k)
        /\ SlotsWith(f.slots, k, slot) = SlotsWith(a.slots, k, slot)
    <3>1. 1 .. k - 1 \subseteq DOMAIN a.slots
      OBVIOUS
    <3> QED
      BY <3>1, FilledIs
  <2>2. CompletionsDelta(a, e) = WithArgs(f, k, Append(Slot(f, k).args, e.part))
    BY <1>1 DEF CompletionsDelta, Filled
  <2> HIDE DEF f
  <2>3. CompletionsDelta(a, e) = b
    BY <1>3, <2>1, <2>2 DEF WithArgs
  <2>4. /\ Shape(b) /\ b.slots = SlotsWith(a.slots, k, slot)
        /\ b.text = a.text /\ b.calls = a.calls /\ b.stop = a.stop
    BY <2>1, WithSlotIs
  <2> HIDE DEF b
  <2>5. Gathers(a, e, b.text, b.slots, b.calls)
    BY <1>1, <1>4, <2>3, <2>4, CompletionsGathers
  <2> QED
    BY <2>4, <2>5
<1>5. CASE wire \notin Completions
  <2> DEFINE b == WithSlot(a, k, slot)
  <2>1. Gather(wire, a, e) = b
    BY <1>1, <1>3, <1>5 DEF Gather, Wires, Completions, Closing, AnthropicEvent, BedrockEvent,
                            RadiusEvent, WithArgs
  <2>2. /\ Shape(b) /\ b.slots = SlotsWith(a.slots, k, slot)
        /\ b.text = a.text /\ b.calls = a.calls /\ b.stop = a.stop
    BY WithSlotIs
  <2> HIDE DEF b
  <2> QED
    BY <2>1, <2>2 DEF Gathers
<1> QED
  BY <1>4, <1>5

\* The events on the wires that close a call.
LEMMA ClosingGathers ==
  ASSUME wire \in Closing, NEW a, Shape(a), NEW k \in Nat \ {0}, k \in DOMAIN a.slots
  PROVE  /\ \A i : Gathers(a, ArgsEvent(k, i), a.text, a.slots, a.calls)
         /\ Gathers(a, WholeEvent(k), a.text,
                    SlotsWith(a.slots, k, [id |-> Id(k), args |-> Fragments(k)]), a.calls)
         /\ Gathers(a, CloseEvent(k), a.text, a.slots,
                    Append(a.calls, [a.slots[k] EXCEPT !.args = Fragments(k)]))
<1>1. ASSUME NEW i PROVE Gathers(a, ArgsEvent(k, i), a.text, a.slots, a.calls)
  <2> DEFINE e == ArgsEvent(k, i)
  <2>1. e.kind = "args"
    BY EventIs DEF ArgsEvent
  <2> HIDE DEF e
  <2>2. Gather(wire, a, e) = a
    BY <2>1 DEF Gather, Closing, ResponsesEvent
  <2>3. Gathers(a, e, a.text, a.slots, a.calls)
    BY <2>2 DEF Gathers
  <2> QED
    BY <2>3 DEF e
<1>2. Gathers(a, WholeEvent(k), a.text, SlotsWith(a.slots, k, [id |-> Id(k), args |-> Fragments(k)]), a.calls)
  <2> DEFINE e == WholeEvent(k)
             slot == [id |-> Id(k), args |-> Fragments(k)]
             b == WithSlot(a, k, slot)
  <2>1. e.kind = "whole" /\ e.at = k /\ e.id = Id(k) /\ e.part = Fragments(k)
    BY EventIs DEF WholeEvent
  <2> HIDE DEF e
  <2>2. Gather(wire, a, e) = b
    BY <2>1 DEF Gather, Closing, ResponsesEvent
  <2> HIDE DEF slot
  <2>3. /\ Shape(b) /\ b.slots = SlotsWith(a.slots, k, slot)
        /\ b.text = a.text /\ b.calls = a.calls /\ b.stop = a.stop
    BY WithSlotIs
  <2> HIDE DEF b
  <2>4. Gathers(a, e, a.text, SlotsWith(a.slots, k, slot), a.calls)
    BY <2>2, <2>3 DEF Gathers
  <2> QED
    BY <2>4 DEF e, slot
<1>3. Gathers(a, CloseEvent(k), a.text, a.slots, Append(a.calls, [a.slots[k] EXCEPT !.args = Fragments(k)]))
  <2> DEFINE e == CloseEvent(k)
             call == [a.slots[k] EXCEPT !.args = Fragments(k)]
             b == [a EXCEPT !.calls = Append(a.calls, call)]
  <2>1. e.kind = "close" /\ e.at = k /\ e.part = Fragments(k)
    BY EventIs DEF CloseEvent
  <2> HIDE DEF e
  <2>2. Slot(a, k) = a.slots[k]
    BY DEF Slot
  <2>3. Gather(wire, a, e) = b
    BY <2>1, <2>2 DEF Gather, Closing, ResponsesEvent
  <2> HIDE DEF call
  <2>4. /\ Shape(b) /\ b.slots = a.slots /\ b.text = a.text
        /\ b.calls = Append(a.calls, call) /\ b.stop = a.stop
    BY DEF Shape
  <2> HIDE DEF b
  <2>5. Gathers(a, e, a.text, a.slots, Append(a.calls, call))
    BY <2>3, <2>4 DEF Gathers
  <2> QED
    BY <2>5 DEF e, call
<1> QED
  BY <1>1, <1>2, <1>3

LEMMA RadiusCloses ==
  ASSUME wire = "radius", NEW a, Shape(a), NEW k \in Nat \ {0}
  PROVE  Gathers(a, CloseEvent(k), a.text,
                 SlotsWith(a.slots, k, [id |-> Id(k), args |-> Fragments(k)]), a.calls)
<1> DEFINE e == CloseEvent(k)
           slot == [id |-> Id(k), args |-> Fragments(k)]
           b == WithSlot(a, k, slot)
<1>1. e.kind = "close" /\ e.at = k /\ e.id = Id(k) /\ e.part = Fragments(k)
  BY EventIs DEF CloseEvent
<1> HIDE DEF e
<1>2. Gather(wire, a, e) = b
  BY <1>1 DEF Gather, RadiusEvent
<1> HIDE DEF slot
<1>3. /\ Shape(b) /\ b.slots = SlotsWith(a.slots, k, slot)
      /\ b.text = a.text /\ b.calls = a.calls /\ b.stop = a.stop
  BY WithSlotIs
<1> HIDE DEF b
<1>4. Gathers(a, e, a.text, SlotsWith(a.slots, k, slot), a.calls)
  BY <1>2, <1>3 DEF Gathers
<1> QED
  BY <1>4 DEF e, slot

LEMMA GoogleCloses ==
  ASSUME wire = "google", NEW a, Shape(a), NEW k \in Nat \ {0}
  PROVE  Gathers(a, CloseEvent(k), a.text, a.slots,
                 Append(a.calls, [id |-> <<"google", plan.calls[k].name>>, args |-> Fragments(k)]))
<1> DEFINE e == CloseEvent(k)
           call == [id |-> <<"google", plan.calls[k].name>>, args |-> Fragments(k)]
           b == [a EXCEPT !.calls = Append(a.calls, call)]
<1>1. e.kind = "close" /\ e.name = plan.calls[k].name /\ e.part = Fragments(k)
  BY EventIs DEF CloseEvent
<1> HIDE DEF e
<1>2. Gather(wire, a, e) = b
  BY <1>1 DEF Gather, GoogleEvent
<1> HIDE DEF call
<1>3. /\ Shape(b) /\ b.slots = a.slots /\ b.text = a.text
      /\ b.calls = Append(a.calls, call) /\ b.stop = a.stop
  BY DEF Shape
<1> HIDE DEF b
<1>4. Gathers(a, e, a.text, a.slots, Append(a.calls, call))
  BY <1>2, <1>3 DEF Gathers
<1> QED
  BY <1>4 DEF e, call

-----------------------------------------------------------------------------
(* The stream.                                                              *)

Heard == {k \in CallsPlanned : sent[k + 1] > 0}
SentWhole == {k \in CallsPlanned : sent[k + 1] = CallLen(k)}

SlotOf(k, n) == [id |-> Id(k), args |-> GotSoFar(k, n)]
Assembled(k) ==
  [id |-> IF wire = "google" THEN <<"google", plan.calls[k].name>> ELSE Id(k), args |-> Fragments(k)]

SentOK ==
  /\ sent \in [1 .. Len(plan.calls) + 1 -> Nat]
  /\ sent[1] <= plan.text
  /\ \A k \in CallsPlanned : sent[k + 1] <= CallLen(k)
  /\ \A j, k \in CallsPlanned : j <= k /\ sent[k + 1] > 0 => sent[j + 1] > 0

SlotsOK == gathered.slots = [k \in Heard |-> SlotOf(k, sent[k + 1])]

LEMMA FirstOnes ==
  ASSUME NEW k, NEW n \in Nat
  PROVE  /\ First(k, 0) = <<>>
         /\ IsSeq(First(k, n)) /\ Len(First(k, n)) = n
         /\ Append(First(k, n), <<k, n + 1>>) = First(k, n + 1)
<1>1. First(k, 0) = <<>>
  BY DEF First
<1>2. \A m \in Nat : IsSeq(First(k, m)) /\ Len(First(k, m)) = m /\ \A i \in 1 .. m : First(k, m)[i] = <<k, i>>
  BY BuiltUp DEF First
<1> DEFINE r == First(k, n) \o <<<<k, n + 1>>>>
           t == First(k, n + 1)
<1>3. Append(First(k, n), <<k, n + 1>>) = r
  BY <1>2, Added
<1>4. /\ IsSeq(r) /\ Len(r) = n + 1
      /\ \A i \in 1 .. n : r[i] = <<k, i>>
      /\ r[n + 1] = <<k, n + 1>>
  <2> DEFINE f == First(k, n)
             e == <<k, n + 1>>
  <2>1. IsSeq(f) /\ Len(f) = n /\ \A i \in 1 .. n : f[i] = <<k, i>>
    BY <1>2
  <2> HIDE DEF f, e
  <2>2. LET q == f \o <<e>>
        IN /\ IsSeq(q) /\ Len(f) \in Nat /\ Len(q) = Len(f) + 1
           /\ \A i \in 1 .. Len(f) : q[i] = f[i]
           /\ q[Len(f) + 1] = e
    BY <2>1, OneMore
  <2>3. r = f \o <<e>>
    BY DEF f, e
  <2> HIDE DEF r
  <2> QED
    BY <2>1, <2>2, <2>3 DEF e
<1>5. IsSeq(t) /\ Len(t) = n + 1 /\ \A i \in 1 .. n + 1 : t[i] = <<k, i>>
  BY <1>2
<1> HIDE DEF r, t
<1>6. \A i \in 1 .. Len(r) : r[i] = t[i]
  <2>1. ASSUME NEW i \in 1 .. n + 1 PROVE r[i] = t[i]
    <3>1. CASE i = n + 1
      BY <1>4, <1>5, <3>1
    <3>2. CASE i # n + 1
      <4>1. i \in 1 .. n
        BY <3>2
      <4> QED
        BY <1>4, <1>5, <4>1
    <3> QED
      BY <3>1, <3>2
  <2> QED
    BY <1>4, <2>1
<1>7. r = t
  BY <1>4, <1>5, <1>6, SameSeq
<1> QED
  BY <1>1, <1>2, <1>3, <1>7 DEF t

LEMMA FragmentsAre ==
  ASSUME NEW k
  PROVE  Fragments(k) = First(k, plan.calls[k].pieces)
  BY DEF Fragments, First

LEMMA WithSame ==
  ASSUME NEW slots, slots = [i \in DOMAIN slots |-> slots[i]], NEW k \in DOMAIN slots
  PROVE  SlotsWith(slots, k, slots[k]) = slots
<1>1. DOMAIN slots \cup {k} = DOMAIN slots
  OBVIOUS
<1>2. SlotsWith(slots, k, slots[k]) = [i \in DOMAIN slots |-> slots[i]]
  BY <1>1 DEF SlotsWith
<1> QED
  BY <1>2

\* The next event of a call.
LEMMA CallGathers ==
  ASSUME PlanOK, wire \in Wires, SentOK, Shape(gathered), wire # "google" => SlotsOK,
         NEW k \in CallsPlanned, NEW n \in Nat, n = sent[k + 1], n < CallLen(k),
         \A j \in CallsPlanned : j < k => sent[j + 1] > 0
  PROVE  \E slots, calls :
           /\ Gathers(gathered, CallEvents(k)[n + 1], gathered.text, slots, calls)
           /\ wire # "google" => slots = SlotsWith(gathered.slots, k, SlotOf(k, n + 1))
           /\ wire \in Closing \cup {"google"} /\ n + 1 = CallLen(k) => calls = Append(gathered.calls, Assembled(k))
           /\ ~(wire \in Closing \cup {"google"} /\ n + 1 = CallLen(k)) => calls = gathered.calls
<1> DEFINE p == plan.calls[k].pieces
           a == gathered
           e == CallEvents(k)[n + 1]
           slot == SlotOf(k, n + 1)
           Sought(slots, calls) ==
             /\ Gathers(a, e, a.text, slots, calls)
             /\ wire # "google" => slots = SlotsWith(a.slots, k, slot)
             /\ wire \in Closing \cup {"google"} /\ n + 1 = CallLen(k) => calls = Append(a.calls, Assembled(k))
             /\ ~(wire \in Closing \cup {"google"} /\ n + 1 = CallLen(k)) => calls = a.calls
<1> SUFFICES \E slots, calls : Sought(slots, calls)
  OBVIOUS
<1>1. p \in Nat /\ k \in Nat \ {0} /\ 1 .. k \subseteq CallsPlanned
  BY PlannedPieces DEF CallsPlanned, PlanOK
<1>2. CASE wire = "google"
  <2>1. CallLen(k) = 1 /\ n = 0 /\ e = CloseEvent(k)
    BY <1>2, CallEventsAre DEF CallLen
  <2>2. Gathers(a, e, a.text, a.slots, Append(a.calls, Assembled(k)))
    BY <1>1, <1>2, <2>1, GoogleCloses DEF Assembled
  <2>3. Sought(a.slots, Append(a.calls, Assembled(k)))
    BY <1>2, <2>1, <2>2
  <2> QED
    BY <2>3
<1>3. CASE wire # "google" /\ n = 0
  <2>1. e = OpenEvent(k)
    BY <1>3, CallEventsAre
  <2>2. DOMAIN a.slots = Heard /\ k \notin Heard /\ 1 .. k - 1 \subseteq Heard
    <3>1. DOMAIN a.slots = Heard
      BY <1>3 DEF SlotsOK
    <3>2. k \notin Heard
      <4>1. ~ (sent[k + 1] > 0)
        BY <1>3
      <4> QED
        BY <4>1, Zenon DEF Heard
    <3>3. ASSUME NEW j \in 1 .. k - 1 PROVE j \in Heard
      <4>1. j \in CallsPlanned /\ j < k
        BY <1>1
      <4>2. sent[j + 1] > 0
        BY <4>1
      <4> QED
        BY <4>1, <4>2 DEF Heard
    <3> QED
      BY <3>1, <3>2, <3>3
  <2>3. slot = [id |-> Id(k), args |-> <<>>]
    <3>1. GotSoFar(k, n + 1) = <<>>
      BY <1>1, <1>3, FirstOnes DEF GotSoFar
    <3> QED
      BY <3>1 DEF SlotOf
  <2>4. Gathers(a, e, a.text, SlotsWith(a.slots, k, slot), a.calls)
    BY <1>1, <1>3, <2>1, <2>2, <2>3, OpenGathers DEF slot
  <2>5. ~(wire \in Closing \cup {"google"} /\ n + 1 = CallLen(k))
    BY <1>1, <1>3 DEF CallLen, Closing
  <2>6. Sought(SlotsWith(a.slots, k, slot), a.calls)
    BY <1>3, <2>4, <2>5
  <2> QED
    BY <2>6
<1>4. ASSUME wire # "google" /\ n # 0
      PROVE  /\ a.slots = [i \in DOMAIN a.slots |-> a.slots[i]]
             /\ 1 .. k \subseteq DOMAIN a.slots /\ k \in DOMAIN a.slots
             /\ a.slots[k] = SlotOf(k, n)
  <2>1. k \in Heard /\ 1 .. k \subseteq Heard
    <3>1. sent[k + 1] > 0
      BY <1>4
    <3>2. ASSUME NEW j \in 1 .. k PROVE j \in Heard
      <4>1. j \in CallsPlanned /\ j <= k
        BY <1>1
      <4>2. sent[j + 1] > 0
        BY <3>1, <4>1 DEF SentOK
      <4> QED
        BY <4>1, <4>2 DEF Heard
    <3>3. k \in 1 .. k
      BY <1>1
    <3> QED
      BY <3>2, <3>3
  <2> QED
    BY <1>4, <2>1 DEF SlotsOK
<1>5. CASE wire \notin Closing \cup {"google"} /\ n # 0 /\ n <= p
  <2>0. /\ a.slots = [i \in DOMAIN a.slots |-> a.slots[i]]
        /\ 1 .. k \subseteq DOMAIN a.slots /\ k \in DOMAIN a.slots
        /\ a.slots[k] = SlotOf(k, n)
    BY <1>1, <1>4, <1>5 DEF Closing
  <2>1. e = ArgsEvent(k, n)
    BY <1>1, <1>5, CallEventsAre
  <2>2. GotSoFar(k, n) = First(k, n - 1) /\ GotSoFar(k, n + 1) = First(k, n)
    BY <1>1, <1>5 DEF GotSoFar
  <2>3. Append(First(k, n - 1), <<k, n>>) = First(k, n)
    <3>1. n - 1 \in Nat /\ n - 1 + 1 = n
      BY <1>5
    <3> QED
      BY <3>1, FirstOnes
  <2>4. [a.slots[k] EXCEPT !.args = Append(a.slots[k].args, <<k, n>>)] = slot
    <3>1. a.slots[k] = [id |-> Id(k), args |-> First(k, n - 1)] /\ slot = [id |-> Id(k), args |-> First(k, n)]
      BY <2>0, <2>2 DEF SlotOf
    <3> DEFINE args == Append(First(k, n - 1), <<k, n>>)
               old == [id |-> Id(k), args |-> First(k, n - 1)]
    <3>2. [old EXCEPT !.args = Append(old.args, <<k, n>>)] = [id |-> Id(k), args |-> args]
      <4>1. \A i, o, r : [[id |-> i, args |-> o] EXCEPT !.args = r] = [id |-> i, args |-> r]
        OBVIOUS
      <4>2. old.args = First(k, n - 1)
        OBVIOUS
      <4> QED
        BY <4>1, <4>2, Zenon
    <3> HIDE DEF old
    <3>3. a.slots[k] = old
      BY <3>1 DEF old
    <3> QED
      BY <2>3, <3>1, <3>2, <3>3, Zenon
  <2>5. Gathers(a, e, a.text, SlotsWith(a.slots, k, slot), a.calls)
    <3>1. Gathers(a, ArgsEvent(k, n), a.text,
                  SlotsWith(a.slots, k, [a.slots[k] EXCEPT !.args = Append(a.slots[k].args, <<k, n>>)]), a.calls)
      BY <1>1, <1>5, <2>0, ArgsGathers
    <3> QED
      BY <2>1, <2>4, <3>1, Zenon
  <2>6. Sought(SlotsWith(a.slots, k, slot), a.calls)
    BY <1>5, <2>5
  <2> QED
    BY <2>6
<1>6. CASE wire = "radius" /\ n > p
  <2>1. n = p + 1 /\ e = CloseEvent(k)
    <3>1. n = p + 1
      BY <1>1, <1>6 DEF CallLen, Completions, Closing
    <3>2. CallEvents(k)[p + 2] = CloseEvent(k)
      BY <1>6, CallEventsAre
    <3>3. n + 1 = p + 2
      BY <1>1, <3>1
    <3> QED
      BY <1>1, <3>1, <3>2, <3>3
  <2>2. slot = [id |-> Id(k), args |-> Fragments(k)]
    BY <1>1, <1>6, <2>1, FragmentsAre DEF SlotOf, GotSoFar, Closing
  <2>3. Gathers(a, e, a.text, SlotsWith(a.slots, k, slot), a.calls)
    BY <1>1, <1>6, <2>1, <2>2, RadiusCloses
  <2>4. Sought(SlotsWith(a.slots, k, slot), a.calls)
    BY <1>6, <2>3 DEF Closing
  <2> QED
    BY <2>4
<1>7. CASE wire \in Closing /\ n # 0 /\ n <= p
  <2>0. /\ a.slots = [i \in DOMAIN a.slots |-> a.slots[i]]
        /\ 1 .. k \subseteq DOMAIN a.slots /\ k \in DOMAIN a.slots
        /\ a.slots[k] = SlotOf(k, n)
    BY <1>1, <1>4, <1>7 DEF Closing
  <2>1. e = ArgsEvent(k, n)
    BY <1>1, <1>7, CallEventsAre DEF Closing
  <2>2. GotSoFar(k, n) = <<>> /\ GotSoFar(k, n + 1) = <<>>
    BY <1>1, <1>7 DEF GotSoFar
  <2>3. a.slots[k] = slot
    BY <1>7, <2>0, <2>2 DEF SlotOf, Closing
  <2>4. SlotsWith(a.slots, k, slot) = a.slots
    BY <1>7, <2>0, <2>3, WithSame DEF Closing
  <2>5. Gathers(a, e, a.text, a.slots, a.calls)
    <3>1. Gathers(a, ArgsEvent(k, n), a.text, a.slots, a.calls)
      BY <1>1, <1>7, <2>0, ClosingGathers
    <3> QED
      BY <2>1, <3>1, Zenon
  <2>6. n + 1 # CallLen(k)
    BY <1>1, <1>7 DEF CallLen, Closing
  <2>7. Sought(a.slots, a.calls)
    BY <1>7, <2>4, <2>5, <2>6
  <2> QED
    BY <2>7
<1>8. CASE wire \in Closing /\ n = p + 1
  <2>0. /\ a.slots = [i \in DOMAIN a.slots |-> a.slots[i]]
        /\ 1 .. k \subseteq DOMAIN a.slots /\ k \in DOMAIN a.slots
        /\ a.slots[k] = SlotOf(k, n)
    BY <1>1, <1>4, <1>8 DEF Closing
  <2>1. e = WholeEvent(k)
    <3>1. n + 1 = p + 2
      BY <1>1, <1>8
    <3> QED
      BY <1>8, <3>1, CallEventsAre
  <2>2. slot = [id |-> Id(k), args |-> Fragments(k)]
    BY <1>1, <1>8 DEF SlotOf, GotSoFar
  <2>3. Gathers(a, e, a.text, SlotsWith(a.slots, k, slot), a.calls)
    BY <1>1, <1>8, <2>0, <2>1, <2>2, ClosingGathers DEF Closing
  <2>4. n + 1 # CallLen(k)
    BY <1>1, <1>8 DEF CallLen, Closing
  <2>5. Sought(SlotsWith(a.slots, k, slot), a.calls)
    BY <1>8, <2>3, <2>4
  <2> QED
    BY <2>5
<1>9. CASE wire \in Closing /\ n > p + 1
  <2>0. /\ a.slots = [i \in DOMAIN a.slots |-> a.slots[i]]
        /\ 1 .. k \subseteq DOMAIN a.slots /\ k \in DOMAIN a.slots
        /\ a.slots[k] = SlotOf(k, n)
    BY <1>1, <1>4, <1>9 DEF Closing
  <2>1. n = p + 2 /\ n + 1 = CallLen(k)
    BY <1>1, <1>9 DEF CallLen, Closing
  <2>2. e = CloseEvent(k)
    <3>1. n + 1 = p + 3
      BY <1>1, <2>1
    <3> QED
      BY <1>9, <3>1, CallEventsAre
  <2>3. GotSoFar(k, n) = Fragments(k) /\ GotSoFar(k, n + 1) = Fragments(k)
    BY <1>1, <1>9, <2>1 DEF GotSoFar
  <2>4. a.slots[k] = slot /\ slot = [id |-> Id(k), args |-> Fragments(k)]
    BY <1>9, <2>0, <2>1, <2>3 DEF SlotOf, Closing
  <2>5. SlotsWith(a.slots, k, slot) = a.slots
    BY <1>9, <2>0, <2>1, <2>4, WithSame DEF Closing
  <2>6. [a.slots[k] EXCEPT !.args = Fragments(k)] = Assembled(k)
    BY <1>9, <2>4 DEF Assembled, Closing
  <2>7. Gathers(a, e, a.text, a.slots, Append(a.calls, Assembled(k)))
    <3>1. Gathers(a, CloseEvent(k), a.text, a.slots,
                  Append(a.calls, [a.slots[k] EXCEPT !.args = Fragments(k)]))
      BY <1>1, <1>9, <2>0, ClosingGathers
    <3> QED
      BY <2>2, <2>6, <3>1, Zenon
  <2>8. Sought(a.slots, Append(a.calls, Assembled(k)))
    BY <1>9, <2>1, <2>5, <2>7
  <2> QED
    BY <2>8
<1>10. wire \notin Closing \cup {"google", "radius"} => n <= p
  BY <1>1 DEF CallLen
<1> QED
  BY <1>1, <1>2, <1>3, <1>5, <1>6, <1>7, <1>8, <1>9, <1>10 DEF Wires

\* calls are the calls of S, each once.
Lists(calls, S) ==
  \E n \in Nat : \E who \in [1 .. n -> S] :
    /\ \A i, j \in 1 .. n : who[i] = who[j] => i = j
    /\ \A k \in S : \E i \in 1 .. n : who[i] = k
    /\ calls = [i \in 1 .. n |-> Assembled(who[i])]

LEMMA ListsNone == Lists(<<>>, {})
<1> DEFINE who == <<>>
<1>1. who \in [1 .. 0 -> {}] /\ <<>> = [i \in 1 .. 0 |-> Assembled(who[i])]
  OBVIOUS
<1>2. 0 \in Nat /\ \A i \in 1 .. 0 : FALSE
  OBVIOUS
<1> HIDE DEF who
<1> QED
  BY <1>1, <1>2 DEF Lists

LEMMA ListsOneMore ==
  ASSUME NEW calls, NEW S, Lists(calls, S), NEW k, k \notin S
  PROVE  Lists(Append(calls, Assembled(k)), S \cup {k})
<1>1. PICK n \in Nat : \E who \in [1 .. n -> S] :
        /\ \A i, j \in 1 .. n : who[i] = who[j] => i = j
        /\ \A j \in S : \E i \in 1 .. n : who[i] = j
        /\ calls = [i \in 1 .. n |-> Assembled(who[i])]
  BY DEF Lists
<1>0. PICK who \in [1 .. n -> S] :
        /\ \A i, j \in 1 .. n : who[i] = who[j] => i = j
        /\ \A j \in S : \E i \in 1 .. n : who[i] = j
        /\ calls = [i \in 1 .. n |-> Assembled(who[i])]
  BY <1>1
<1> DEFINE more == [i \in 1 .. n + 1 |-> IF i = n + 1 THEN k ELSE who[i]]
           r == Append(calls, Assembled(k))
           t == [i \in 1 .. n + 1 |-> Assembled(more[i])]
<1>2. more \in [1 .. n + 1 -> S \cup {k}]
  OBVIOUS
<1>3. ASSUME NEW i \in 1 .. n + 1, NEW j \in 1 .. n + 1, more[i] = more[j] PROVE i = j
  BY <1>0, <1>3
<1>4. ASSUME NEW j \in S \cup {k} PROVE \E i \in 1 .. n + 1 : more[i] = j
  <2>1. CASE j = k
    <3>1. n + 1 \in 1 .. n + 1 /\ more[n + 1] = j
      BY <2>1
    <3> QED
      BY <3>1
  <2>2. CASE j \in S
    <3>1. PICK i \in 1 .. n : who[i] = j
      BY <1>0, <2>2
    <3>2. i \in 1 .. n + 1 /\ more[i] = j
      BY <3>1
    <3> QED
      BY <3>2
  <2> QED
    BY <2>1, <2>2
<1>5. r = t
  <2>1. IsSeq(calls) /\ Len(calls) = n /\ \A i \in 1 .. n : calls[i] = Assembled(who[i])
    BY <1>0, BuiltUp
  <2>2. r = calls \o <<Assembled(k)>>
    BY <2>1, Added
  <2>3. /\ IsSeq(r) /\ Len(r) = n + 1
        /\ \A i \in 1 .. n : r[i] = calls[i]
        /\ r[n + 1] = Assembled(k)
    <3>1. IsSeq(calls)
      BY <2>1
    <3>2. LET q == calls \o <<Assembled(k)>>
          IN /\ IsSeq(q) /\ Len(q) = Len(calls) + 1
             /\ \A i \in 1 .. Len(calls) : q[i] = calls[i]
             /\ q[Len(calls) + 1] = Assembled(k)
      BY <3>1, OneMore
    <3> HIDE DEF r
    <3> QED
      BY <2>1, <2>2, <3>2
  <2>4. IsSeq(t) /\ Len(t) = n + 1
    BY BuiltUp
  <2>5. ASSUME NEW i \in 1 .. n + 1 PROVE r[i] = t[i]
    <3>1. CASE i = n + 1
      BY <2>3, <3>1
    <3>2. CASE i # n + 1
      <4>1. i \in 1 .. n /\ more[i] = who[i] /\ t[i] = Assembled(more[i])
        BY <3>2
      <4> HIDE DEF r, t, more
      <4> QED
        BY <2>1, <2>3, <4>1
    <3> QED
      BY <3>1, <3>2
  <2> HIDE DEF r, t
  <2> QED
    BY <2>3, <2>4, <2>5, SameSeq
<1>6. n + 1 \in Nat
  OBVIOUS
<1> HIDE DEF more
<1>7. \E m \in Nat : \E w \in [1 .. m -> S \cup {k}] :
        /\ \A i, j \in 1 .. m : w[i] = w[j] => i = j
        /\ \A j \in S \cup {k} : \E i \in 1 .. m : w[i] = j
        /\ r = [i \in 1 .. m |-> Assembled(w[i])]
  BY <1>2, <1>3, <1>4, <1>5, <1>6
<1> QED
  BY <1>7 DEF Lists

GatheredOK ==
  /\ Shape(gathered)
  /\ gathered.text = sent[1]
  /\ wire # "google" => SlotsOK
  /\ wire \in Closing \cup {"google"} => Lists(gathered.calls, SentWhole)

\* No stop yet, on the wires that insist on one.
StopOK ==
  (wire \in Completions /\ ~plan.nulls) \/ wire \in {"bedrock", "radius"} =>
     (~Finished => gathered.stop = "")

StreamInv ==
  stage \in {"streaming", "closing", "closed"} =>
    /\ PlanOK /\ SentOK /\ GatheredOK /\ StopOK
    /\ stage # "streaming" => Said

LEMMA SamePlan ==
  ASSUME UNCHANGED <<wire, plan, asked>>
  PROVE  /\ CallsPlanned' = CallsPlanned /\ PlanOK' = PlanOK
         /\ \A k : CallLen(k)' = CallLen(k) /\ Assembled(k)' = Assembled(k)
<1>1. CallsPlanned' = CallsPlanned /\ PlanOK' = PlanOK
  BY DEF CallsPlanned, PlanOK
<1>2. ASSUME NEW k PROVE CallLen(k)' = CallLen(k)
  BY DEF CallLen
<1>3. ASSUME NEW k PROVE Fragments(k)' = Fragments(k)
  BY DEF Fragments
<1>4. ASSUME NEW k PROVE Assembled(k)' = Assembled(k)
  BY <1>3 DEF Assembled, Id
<1> QED
  BY <1>1, <1>2, <1>4

LEMMA ListsLater ==
  ASSUME UNCHANGED <<wire, plan, asked>>
  PROVE  Lists(gathered.calls, SentWhole)' = Lists(gathered'.calls, SentWhole')
  BY DEF Lists, Assembled, Id, Fragments

LEMMA SlotLater ==
  ASSUME UNCHANGED <<wire, plan, asked>>, NEW k
  PROVE  SlotOf(k, sent[k + 1])' = SlotOf(k, sent'[k + 1])
  BY DEF SlotOf, GotSoFar, First, Fragments, Id

\* How long the streams are.
LEMMA StreamLens ==
  ASSUME PlanOK, wire \in Wires
  PROVE  /\ Len(Streams[1]) = plan.text
         /\ \A k \in CallsPlanned : Len(Streams[k + 1]) = CallLen(k) /\ CallLen(k) \in Nat
         /\ \A i \in 1 .. plan.text : Streams[1][i] = Event("text", 0, <<>>)
<1>1. Len(TextEvents) = plan.text /\ \A i \in 1 .. plan.text : TextEvents[i] = Event("text", 0, <<>>)
  <2>1. plan.text \in Nat
    BY DEF PlanOK
  <2> QED
    BY <2>1 DEF TextEvents
<1>2. ASSUME NEW k \in CallsPlanned
      PROVE  Len(CallEvents(k)) = CallLen(k) /\ CallLen(k) \in Nat
  BY CallEventsAre DEF CallLen
<1>3. /\ Streams[1] = TextEvents
      /\ \A k \in CallsPlanned : Streams[k + 1] = CallEvents(k)
  BY StreamsAre
<1> QED
  BY <1>1, <1>2, <1>3

LEMMA DeliverInv ==
  ASSUME wire \in Wires, StreamInv, NEW s \in Nat, Deliver(s)
  PROVE  StreamInv'
<1>1. /\ stage = "streaming" /\ stage' = "streaming"
      /\ UNCHANGED <<wire, plan, asked>>
      /\ s \in DOMAIN Streams /\ sent[s] < Len(Streams[s])
      /\ s > 2 /\ sent[s] = 0 => sent[s - 1] > 0
      /\ sent' = [sent EXCEPT ![s] = @ + 1]
      /\ gathered' = Gather(wire, gathered, Streams[s][sent[s] + 1])
  BY DEF Deliver
<1>2. PlanOK /\ SentOK /\ GatheredOK /\ StopOK
  BY <1>1 DEF StreamInv
<1>3. /\ CallsPlanned' = CallsPlanned /\ PlanOK'
      /\ \A k : CallLen(k)' = CallLen(k) /\ Assembled(k)' = Assembled(k)
  BY <1>1, <1>2, SamePlan
<1>4. /\ Len(plan.calls) \in Nat /\ DOMAIN Streams = 1 .. Len(plan.calls) + 1
      /\ Len(Streams[1]) = plan.text
      /\ \A k \in CallsPlanned : Len(Streams[k + 1]) = CallLen(k) /\ CallLen(k) \in Nat
      /\ \A k \in CallsPlanned : k + 1 \in DOMAIN Streams /\ Streams[k + 1] = CallEvents(k)
  BY <1>2, StreamsAre, StreamLens
<1>5. ~Finished /\ ~Finished'
  BY <1>1 DEF Finished
<1>6. sent' \in [1 .. Len(plan.calls) + 1 -> Nat] /\ plan'.calls = plan.calls
  BY <1>1, <1>2, <1>4 DEF SentOK
<1> SUFFICES SentOK' /\ GatheredOK' /\ StopOK'
  BY <1>1, <1>3 DEF StreamInv
<1>7. CASE s = 1
  <2>1. Streams[1][sent[1] + 1] = Event("text", 0, <<>>)
    <3>1. sent[1] \in Nat /\ plan.text \in Nat
      BY <1>2, <1>4 DEF SentOK, PlanOK
    <3>2. sent[1] + 1 \in 1 .. plan.text
      BY <1>1, <1>4, <1>7, <3>1
    <3> QED
      BY <1>2, <3>2, StreamLens
  <2>2. Gathers(gathered, Event("text", 0, <<>>), gathered.text + 1, gathered.slots, gathered.calls)
    BY <1>2, TextGathers DEF GatheredOK
  <2>3. /\ Shape(gathered') /\ gathered'.text = gathered.text + 1
        /\ gathered'.slots = gathered.slots /\ gathered'.calls = gathered.calls
        /\ gathered'.stop = gathered.stop \/ (wire \in Completions /\ plan.nulls)
    BY <1>1, <1>7, <2>1, <2>2 DEF Gathers
  <2>4. sent'[1] = sent[1] + 1 /\ \A k \in CallsPlanned : sent'[k + 1] = sent[k + 1]
    BY <1>1, <1>2, <1>4, <1>7 DEF SentOK, CallsPlanned
  <2>5. Heard' = Heard /\ SentWhole' = SentWhole
    BY <1>3, <2>4 DEF Heard, SentWhole
  <2>6. SentOK'
    <3>1. sent'[1] <= plan'.text
      BY <1>1, <1>2, <1>4, <1>7, <2>4 DEF SentOK, PlanOK
    <3>2. \A k \in CallsPlanned : sent'[k + 1] <= CallLen(k)
      BY <1>2, <2>4 DEF SentOK
    <3>3. \A j, k \in CallsPlanned : j <= k /\ sent'[k + 1] > 0 => sent'[j + 1] > 0
      BY <1>2, <2>4 DEF SentOK
    <3> QED
      BY <1>1, <1>3, <1>6, <3>1, <3>2, <3>3 DEF SentOK
  <2>7. wire' # "google" => SlotsOK'
    <3>1. ASSUME wire # "google" PROVE gathered'.slots = [k \in Heard' |-> SlotOf(k, sent[k + 1])']
      <4>1. gathered.slots = [k \in Heard |-> SlotOf(k, sent[k + 1])]
        BY <1>2, <3>1 DEF GatheredOK, SlotsOK
      <4>2. ASSUME NEW k \in Heard PROVE SlotOf(k, sent[k + 1]) = SlotOf(k, sent[k + 1])'
        <5>1. sent'[k + 1] = sent[k + 1]
          BY <2>4 DEF Heard
        <5> QED
          BY <1>1, <5>1, SlotLater
      <4> QED
        BY <2>3, <2>5, <4>1, <4>2
    <3> QED
      BY <1>1, <3>1 DEF SlotsOK
  <2>8. wire' \in Closing \cup {"google"} => Lists(gathered.calls, SentWhole)'
    BY <1>1, <1>2, <2>3, <2>5, ListsLater DEF GatheredOK
  <2>9. GatheredOK'
    BY <1>2, <2>3, <2>4, <2>7, <2>8 DEF GatheredOK
  <2>10. StopOK'
    BY <1>1, <1>2, <1>5, <2>3 DEF StopOK, Completions
  <2> QED
    BY <2>6, <2>9, <2>10
<1>8. CASE s # 1
  <2> DEFINE k == s - 1
             n == sent[s]
  <2>1. k \in CallsPlanned /\ s = k + 1 /\ k \in Nat \ {0}
    BY <1>1, <1>4, <1>8 DEF CallsPlanned
  <2>2. n \in Nat /\ n < CallLen(k) /\ CallLen(k) \in Nat
    BY <1>1, <1>2, <1>4, <2>1 DEF SentOK
  <2>3. Streams[s] = CallEvents(k)
    BY <1>4, <2>1
  <2> HIDE DEF k, n
  <2>4. n = sent[k + 1]
    BY <2>1 DEF n
  <2>5. ASSUME NEW j \in CallsPlanned, j < k PROVE sent[j + 1] > 0
    <3>1. CASE n > 0
      BY <1>2, <2>1, <2>4, <2>5, <3>1 DEF SentOK, CallsPlanned
    <3>2. CASE n = 0
      <4>1. k - 1 \in CallsPlanned /\ j <= k - 1 /\ s - 1 = (k - 1) + 1 /\ s > 2
        BY <2>1, <2>5 DEF CallsPlanned
      <4>2. sent[(k - 1) + 1] > 0
        BY <1>1, <3>2, <4>1 DEF n
      <4> QED
        BY <1>2, <4>1, <4>2 DEF SentOK
    <3> QED
      BY <2>2, <3>1, <3>2
  <2>6. PICK slots, calls :
          /\ Gathers(gathered, CallEvents(k)[n + 1], gathered.text, slots, calls)
          /\ wire # "google" => slots = SlotsWith(gathered.slots, k, SlotOf(k, n + 1))
          /\ wire \in Closing \cup {"google"} /\ n + 1 = CallLen(k) => calls = Append(gathered.calls, Assembled(k))
          /\ ~(wire \in Closing \cup {"google"} /\ n + 1 = CallLen(k)) => calls = gathered.calls
    BY <1>2, <2>1, <2>2, <2>4, <2>5, CallGathers DEF GatheredOK
  <2>7. /\ Shape(gathered') /\ gathered'.text = gathered.text
        /\ gathered'.slots = slots /\ gathered'.calls = calls
        /\ gathered'.stop = gathered.stop \/ (wire \in Completions /\ plan.nulls)
    <3>1. gathered' = Gather(wire, gathered, CallEvents(k)[n + 1])
      BY <1>1, <2>3 DEF n
    <3> QED
      BY <2>6, <3>1 DEF Gathers
  <2>8. /\ sent'[1] = sent[1] /\ sent'[k + 1] = n + 1
        /\ \A j \in CallsPlanned : j # k => sent'[j + 1] = sent[j + 1]
    <3>1. 1 # s /\ \A j \in CallsPlanned : j # k => j + 1 # s /\ j + 1 \in 1 .. Len(plan.calls) + 1
      BY <1>4, <1>8, <2>1 DEF CallsPlanned
    <3>2. s \in 1 .. Len(plan.calls) + 1 /\ 1 \in 1 .. Len(plan.calls) + 1
      BY <1>1, <1>4
    <3> QED
      BY <1>1, <1>2, <2>1, <3>1, <3>2 DEF n, SentOK
  <2>9. SentOK'
    <3>1. sent'[1] <= plan'.text
      BY <1>1, <1>2, <2>8 DEF SentOK
    <3>2. \A j \in CallsPlanned : sent'[j + 1] <= CallLen(j)
      BY <1>2, <2>2, <2>8 DEF SentOK
    <3>3. ASSUME NEW i \in CallsPlanned, NEW j \in CallsPlanned, i <= j, sent'[j + 1] > 0
          PROVE  sent'[i + 1] > 0
      <4>1. CASE i = k
        BY <2>2, <2>8, <4>1
      <4>2. CASE i # k /\ j = k
        <5>1. i < k
          BY <2>1, <3>3, <4>2 DEF CallsPlanned
        <5> QED
          BY <2>5, <2>8, <4>2, <5>1
      <4>3. CASE i # k /\ j # k
        BY <1>2, <2>8, <3>3, <4>3 DEF SentOK
      <4> QED
        BY <4>1, <4>2, <4>3
    <3> QED
      BY <1>1, <1>3, <1>6, <3>1, <3>2, <3>3 DEF SentOK
  <2>10. Heard' = Heard \cup {k}
    <3>1. Heard' = {j \in CallsPlanned : sent'[j + 1] > 0}
      BY <1>3 DEF Heard
    <3>2. \A j \in CallsPlanned : sent'[j + 1] > 0 <=> j = k \/ sent[j + 1] > 0
      BY <2>1, <2>2, <2>8
    <3> QED
      BY <2>1, <3>1, <3>2, Zenon DEF Heard
  <2>11. wire' # "google" => SlotsOK'
    <3>1. ASSUME wire # "google" PROVE gathered'.slots = [j \in Heard' |-> SlotOf(j, sent[j + 1])']
      <4>1. gathered.slots = [j \in Heard |-> SlotOf(j, sent[j + 1])]
        BY <1>2, <3>1 DEF GatheredOK, SlotsOK
      <4>2. gathered'.slots = [j \in Heard \cup {k} |-> IF j = k THEN SlotOf(k, n + 1) ELSE SlotOf(j, sent[j + 1])]
        BY <2>6, <2>7, <3>1, <4>1 DEF SlotsWith
      <4>3. ASSUME NEW j \in Heard \cup {k}
            PROVE  (IF j = k THEN SlotOf(k, n + 1) ELSE SlotOf(j, sent[j + 1])) = SlotOf(j, sent[j + 1])'
        <5>1. SlotOf(j, sent[j + 1])' = SlotOf(j, sent'[j + 1])
          BY <1>1, SlotLater
        <5>2. CASE j = k
          BY <2>8, <5>1, <5>2
        <5>3. CASE j # k
          <6>1. j \in CallsPlanned
            BY <5>3 DEF Heard
          <6> QED
            BY <2>8, <5>1, <5>3, <6>1
        <5> QED
          BY <5>2, <5>3
      <4> QED
        BY <2>10, <4>2, <4>3
    <3> QED
      BY <1>1, <3>1 DEF SlotsOK
  <2>12. wire' \in Closing \cup {"google"} => Lists(gathered.calls, SentWhole)'
    <3>1. ASSUME wire \in Closing \cup {"google"} PROVE Lists(gathered'.calls, SentWhole')
      <4>1. SentWhole' = {j \in CallsPlanned : sent'[j + 1] = CallLen(j)}
        <5>1. SentWhole' = {j \in CallsPlanned' : sent'[j + 1] = CallLen(j)'}
          BY DEF SentWhole
        <5> QED
          BY <1>3, <5>1
      <4>2. Lists(gathered.calls, SentWhole)
        BY <1>2, <3>1 DEF GatheredOK
      <4>3. CASE n + 1 = CallLen(k)
        <5>1. SentWhole' = SentWhole \cup {k} /\ k \notin SentWhole
          <6>1. \A j \in CallsPlanned : sent'[j + 1] = CallLen(j) <=> j = k \/ sent[j + 1] = CallLen(j)
            BY <2>1, <2>8, <4>3
          <6>2. sent[k + 1] # CallLen(k)
            BY <2>2, <2>4
          <6> QED
            BY <2>1, <4>1, <6>1, <6>2, Zenon DEF SentWhole
        <5>2. gathered'.calls = Append(gathered.calls, Assembled(k))
          BY <2>6, <2>7, <3>1, <4>3
        <5> QED
          BY <4>2, <5>1, <5>2, ListsOneMore
      <4>4. CASE n + 1 # CallLen(k)
        <5>1. SentWhole' = SentWhole
          <6>1. \A j \in CallsPlanned : sent'[j + 1] = CallLen(j) <=> sent[j + 1] = CallLen(j)
            BY <2>1, <2>2, <2>4, <2>8, <4>4
          <6> QED
            BY <4>1, <6>1, Zenon DEF SentWhole
        <5>2. gathered'.calls = gathered.calls
          BY <2>6, <2>7, <4>4
        <5> QED
          BY <4>2, <5>1, <5>2
      <4> QED
        BY <4>3, <4>4
    <3> QED
      BY <1>1, <3>1, ListsLater
  <2>13. GatheredOK'
    BY <1>2, <2>7, <2>8, <2>11, <2>12 DEF GatheredOK
  <2>14. StopOK'
    BY <1>1, <1>2, <1>5, <2>7 DEF StopOK, Completions
  <2> QED
    BY <2>9, <2>13, <2>14
<1> QED
  BY <1>7, <1>8

\* The events after the last word.
LEMMA LastGathers ==
  ASSUME wire \in Wires, NEW a, Shape(a), NEW e, e.kind \in {"stop", "usage"}
  PROVE  LET b == Gather(wire, a, e)
         IN /\ Shape(b) /\ b.text = a.text /\ b.slots = a.slots /\ b.calls = a.calls
            /\ e.kind = "usage" => b.stop = a.stop
<1> DEFINE b == Gather(wire, a, e)
<1>1. \A r : LET c == [a EXCEPT !.stop = r]
             IN Shape(c) /\ c.text = a.text /\ c.slots = a.slots /\ c.calls = a.calls
  BY DEF Shape
<1>2. \A r : LET c == [a EXCEPT !.tokens = r]
             IN Shape(c) /\ c.text = a.text /\ c.slots = a.slots /\ c.calls = a.calls /\ c.stop = a.stop
  BY DEF Shape
<1>3. \A r : LET c == [a EXCEPT !.failed = r]
             IN Shape(c) /\ c.text = a.text /\ c.slots = a.slots /\ c.calls = a.calls
  BY DEF Shape
<1>4. CASE e.kind = "usage"
  <2>1. b = [a EXCEPT !.tokens = e.part]
    BY <1>4 DEF Gather, Wires, Completions, Closing, AnthropicEvent, ResponsesEvent, GoogleEvent,
                BedrockEvent, RadiusEvent, CompletionsEvent, CompletionsDelta
  <2> HIDE DEF b
  <2>2. /\ Shape(b) /\ b.text = a.text /\ b.slots = a.slots /\ b.calls = a.calls
        /\ b.stop = a.stop
    BY <1>2, <2>1
  <2> QED
    BY <2>2 DEF b
<1>5. CASE e.kind = "stop"
  <2>1. (\E r : b = [a EXCEPT !.stop = r]) \/ b = [a EXCEPT !.failed = TRUE]
    BY <1>5 DEF Gather, Wires, Completions, Closing, AnthropicEvent, ResponsesEvent, GoogleEvent,
                BedrockEvent, RadiusEvent, CompletionsEvent, CompletionsDelta
  <2> HIDE DEF b
  <2>2. Shape(b) /\ b.text = a.text /\ b.slots = a.slots /\ b.calls = a.calls
    BY <1>1, <1>3, <2>1
  <2> QED
    BY <1>5, <2>2 DEF b
<1> QED
  BY <1>4, <1>5

LEMMA PlanIs ==
  ASSUME NEW p \in Plans
  PROVE  \E calls \in UNION {[1 .. n -> [name : Names, pieces : Pieces]] : n \in 0 .. MaxCalls},
            text \in 0 .. 1,
            stop \in {"end", "length", "error"}
                       \cup IF wire \in {"responses", "codex"} THEN {"failed"} ELSE {},
            nulls \in IF wire \in Completions THEN BOOLEAN ELSE {FALSE} :
         p = [calls |-> calls, text |-> text, stop |-> stop, nulls |-> nulls]
<1> DEFINE A == UNION {[1 .. n -> [name : Names, pieces : Pieces]] : n \in 0 .. MaxCalls}
           B == 0 .. 1
           C == {"end", "length", "error"}
                  \cup IF wire \in {"responses", "codex"} THEN {"failed"} ELSE {}
           D == IF wire \in Completions THEN BOOLEAN ELSE {FALSE}
<1>1. Plans = {[calls |-> calls, text |-> text, stop |-> stop, nulls |-> nulls] :
                 calls \in A, text \in B, stop \in C, nulls \in D}
  BY DEF Plans
<1> SUFFICES \E calls \in A, text \in B, stop \in C, nulls \in D :
               p = [calls |-> calls, text |-> text, stop |-> stop, nulls |-> nulls]
  BY Zenon
<1> HIDE DEF A, B, C, D
<1> QED
  BY <1>1

LEMMA AcceptInv ==
  ASSUME ProviderBounds, wire \in Wires, AskAccepted
  PROVE  StreamInv'
<1>1. /\ stage' = "streaming" /\ gathered' = Nothing /\ plan' \in Plans
      /\ sent' = [s \in 1 .. Len(plan'.calls) + 1 |-> 0] /\ wire' = wire
  BY DEF AskAccepted
<1>2. PICK calls \in UNION {[1 .. n -> [name : Names, pieces : Pieces]] : n \in 0 .. MaxCalls},
           text \in 0 .. 1,
           stop \in {"end", "length", "error"}
                      \cup IF wire \in {"responses", "codex"} THEN {"failed"} ELSE {},
           nulls \in IF wire \in Completions THEN BOOLEAN ELSE {FALSE} :
        plan' = [calls |-> calls, text |-> text, stop |-> stop, nulls |-> nulls]
  BY <1>1, PlanIs
<1>3. PICK n \in 0 .. MaxCalls : calls \in [1 .. n -> [name : Names, pieces : Pieces]]
  BY <1>2
<1>4. n \in Nat /\ Pieces \subseteq Nat
  BY DEF ProviderBounds
<1>5. [name : Names, pieces : Pieces] \subseteq [name : Names, pieces : Nat]
  BY <1>4
<1>6. calls \in Seq([name : Names, pieces : Nat]) /\ Len(calls) = n
  <2>1. calls \in [1 .. n -> [name : Names, pieces : Nat]]
    BY <1>3, <1>5
  <2> DEFINE R == [name : Names, pieces : Nat]
  <2> HIDE DEF R
  <2>2. calls \in [1 .. n -> R]
    BY <2>1 DEF R
  <2>3. calls \in Seq(R) /\ Len(calls) = n
    BY <1>4, <2>2
  <2> QED
    BY <2>3 DEF R
<1>7. PlanOK'
  <2>1. nulls \in BOOLEAN
    OBVIOUS
  <2>2. plan'.calls = calls /\ plan'.text = text /\ plan'.nulls = nulls
    BY <1>2
  <2> QED
    BY <1>6, <2>1, <2>2 DEF PlanOK
<1>8. plan'.text \in Nat /\ plan'.calls = calls
  BY <1>2
<1>9. ASSUME NEW k \in CallsPlanned' PROVE CallLen(k)' \in Nat \ {0} /\ k + 1 \in 1 .. n + 1
  <2>2. k \in 1 .. n
    BY <1>6, <1>8 DEF CallsPlanned
  <2>1. plan'.calls[k].pieces \in Nat
    <3>1. calls[k] \in [name : Names, pieces : Nat]
      BY <1>3, <1>5, <2>2
    <3> QED
      BY <1>8, <3>1
  <2>3. k + 1 \in 1 .. n + 1
    BY <1>4, <2>2
  <2> DEFINE pieces == plan'.calls[k].pieces
  <2>4. CallLen(k)' \in {1, pieces + 1, pieces + 2, pieces + 3}
    BY DEF CallLen
  <2> HIDE DEF pieces
  <2>5. pieces \in Nat
    BY <2>1 DEF pieces
  <2> QED
    BY <2>3, <2>4, <2>5
<1>10. /\ sent' \in [1 .. n + 1 -> Nat] /\ sent'[1] = 0
       /\ \A k \in CallsPlanned' : sent'[k + 1] = 0
  BY <1>1, <1>4, <1>6, <1>8, <1>9
<1>11. SentOK'
  BY <1>6, <1>8, <1>9, <1>10 DEF SentOK
<1>12. Heard' = {} /\ SentWhole' = {}
  BY <1>9, <1>10 DEF Heard, SentWhole
<1>13. GatheredOK'
  <2>1. Shape(Nothing) /\ Nothing.text = 0 /\ Nothing.slots = <<>> /\ Nothing.calls = <<>>
    BY DEF Shape, Nothing
  <2>2. SlotsOK'
    <3>1. gathered'.slots = [k \in Heard' |-> SlotOf(k, sent[k + 1])']
      BY <1>1, <1>12, <2>1
    <3> QED
      BY <3>1 DEF SlotsOK
  <2>3. Lists(gathered.calls, SentWhole)'
    <3>1. Lists(<<>>, {})'
      BY ListsNone, PTL
    <3> QED
      BY <1>1, <1>12, <2>1, <3>1
  <2> QED
    BY <1>1, <1>10, <2>1, <2>2, <2>3 DEF GatheredOK
<1>14. StopOK'
  BY <1>1 DEF StopOK, Nothing
<1> QED
  BY <1>1, <1>7, <1>11, <1>13, <1>14 DEF StreamInv

LEMMA LastInv ==
  ASSUME wire \in Wires, StreamInv, DeliverLast
  PROVE  StreamInv'
<1>1. /\ stage \in {"streaming", "closing"} /\ Said
      /\ gathered' = Gather(wire, gathered, LastEvents[IF stage = "streaming" THEN 1 ELSE 2])
      /\ stage' = (IF stage = "streaming" THEN "closing" ELSE "closed")
      /\ UNCHANGED <<wire, plan, asked, sent>>
  BY DEF DeliverLast
<1>2. PlanOK /\ SentOK /\ GatheredOK /\ StopOK
  BY <1>1 DEF StreamInv
<1> DEFINE e == LastEvents[IF stage = "streaming" THEN 1 ELSE 2]
<1>3. /\ e.kind \in {"stop", "usage"}
      /\ wire = "radius" /\ stage = "streaming" => e.kind = "usage"
      /\ wire \in Completions \cup {"bedrock"} => LastEvents[1].kind = "stop"
      /\ wire = "radius" => LastEvents[1].kind = "usage"
  BY <1>1, EventIs DEF LastEvents, Completions
<1> HIDE DEF e
<1>4. /\ Shape(gathered') /\ gathered'.text = gathered.text
      /\ gathered'.slots = gathered.slots /\ gathered'.calls = gathered.calls
      /\ e.kind = "usage" => gathered'.stop = gathered.stop
  BY <1>1, <1>2, <1>3, LastGathers DEF GatheredOK, e
<1>5. LastEvents' = LastEvents /\ Said'
  <2>1. LastEvents' = LastEvents
    BY <1>1 DEF LastEvents, Event, Id, Reason
  <2>2. Streams' = Streams
    BY <1>1 DEF Event, Id, Streams, TextEvents, CallEvents, Fragments
  <2> QED
    BY <1>1, <2>1, <2>2 DEF Said
<1>6. PlanOK' /\ SentOK'
  BY <1>1, <1>2 DEF PlanOK, SentOK, CallsPlanned, CallLen
<1>7. Heard' = Heard /\ SentWhole' = SentWhole
  BY <1>1 DEF Heard, SentWhole, CallsPlanned, CallLen
<1>8. GatheredOK'
  <2>1. wire' # "google" => SlotsOK'
    <3>1. ASSUME wire # "google" PROVE gathered'.slots = [k \in Heard' |-> SlotOf(k, sent[k + 1])']
      <4>1. gathered.slots = [k \in Heard |-> SlotOf(k, sent[k + 1])]
        BY <1>2, <3>1 DEF GatheredOK, SlotsOK
      <4>2. ASSUME NEW k \in Heard PROVE SlotOf(k, sent[k + 1]) = SlotOf(k, sent[k + 1])'
        BY <1>1, SlotLater
      <4> QED
        BY <1>4, <1>7, <4>1, <4>2
    <3> QED
      BY <1>1, <3>1 DEF SlotsOK
  <2>2. wire' \in Closing \cup {"google"} => Lists(gathered.calls, SentWhole)'
    BY <1>1, <1>2, <1>4, <1>7, ListsLater DEF GatheredOK
  <2> QED
    BY <1>1, <1>2, <1>4, <2>1, <2>2 DEF GatheredOK
<1>9. StopOK'
  <2>1. CASE stage = "streaming"
    <3>1. wire \in Completions \cup {"bedrock"} => Finished'
      BY <1>1, <1>3, <1>5, <2>1 DEF Finished
    <3>2. wire = "radius" => gathered'.stop = gathered.stop
      BY <1>3, <1>4, <2>1
    <3>3. wire = "radius" => ~Finished
      BY <2>1 DEF Finished
    <3> QED
      BY <1>1, <1>2, <3>1, <3>2, <3>3 DEF StopOK
  <2>2. CASE stage = "closing"
    <3>1. Finished'
      BY <1>1, <2>2 DEF Finished
    <3> QED
      BY <3>1 DEF StopOK
  <2> QED
    BY <1>1, <2>1, <2>2
<1> QED
  BY <1>1, <1>5, <1>6, <1>8, <1>9 DEF StreamInv

\* A step of something else.
LEMMA StillInv ==
  ASSUME StreamInv, UNCHANGED <<wire, plan, sent, gathered, stage, asked>>
  PROVE  StreamInv'
<1> SUFFICES ASSUME stage \in {"streaming", "closing", "closed"}
             PROVE  StreamInv'
  BY DEF StreamInv
<1>2. PlanOK /\ SentOK /\ GatheredOK /\ StopOK /\ (stage # "streaming" => Said)
  BY DEF StreamInv
<1>5. LastEvents' = LastEvents /\ Said' = Said
  <2>1. LastEvents' = LastEvents
    BY DEF LastEvents, Event, Id, Reason
  <2>2. Streams' = Streams
    BY DEF Event, Id, Streams, TextEvents, CallEvents, Fragments
  <2> QED
    BY <2>1, <2>2 DEF Said
<1>6. PlanOK' /\ SentOK'
  BY <1>2 DEF PlanOK, SentOK, CallsPlanned, CallLen
<1>7. Heard' = Heard /\ SentWhole' = SentWhole
  BY DEF Heard, SentWhole, CallsPlanned, CallLen
<1>8. GatheredOK'
  <2>1. wire' # "google" => SlotsOK'
    <3>1. ASSUME wire # "google" PROVE gathered'.slots = [k \in Heard' |-> SlotOf(k, sent[k + 1])']
      <4>1. gathered.slots = [k \in Heard |-> SlotOf(k, sent[k + 1])]
        BY <1>2, <3>1 DEF GatheredOK, SlotsOK
      <4>2. ASSUME NEW k \in Heard PROVE SlotOf(k, sent[k + 1]) = SlotOf(k, sent[k + 1])'
        BY SlotLater
      <4> QED
        BY <1>7, <4>1, <4>2
    <3> QED
      BY <3>1 DEF SlotsOK
  <2>2. wire' \in Closing \cup {"google"} => Lists(gathered.calls, SentWhole)'
    BY <1>2, <1>7, ListsLater DEF GatheredOK
  <2> QED
    BY <1>2, <2>1, <2>2 DEF GatheredOK
<1>9. StopOK'
  <2>1. Finished' = Finished
    BY <1>5 DEF Finished
  <2> QED
    BY <1>2, <2>1 DEF StopOK
<1> QED
  BY <1>2, <1>5, <1>6, <1>8, <1>9 DEF StreamInv

-----------------------------------------------------------------------------
(* The end.                                                                 *)

\* The calls heard of are the first so many.
LEMMA HeardFirst ==
  ASSUME PlanOK, SentOK
  PROVE  \E m \in 0 .. Len(plan.calls) : Heard = 1 .. m
<1> DEFINE n == Len(plan.calls)
           S == {m \in Nat : m + 1 \notin Heard}
<1>1. n \in Nat
  BY DEF PlanOK
<1>2. n \in S
  <2>1. n + 1 \notin 1 .. n
    BY <1>1
  <2> QED
    BY <1>1, <2>1 DEF Heard, CallsPlanned
<1>3. PICK m \in S : \A k \in S : m <= k
  <2>1. S \in SUBSET Nat /\ S # {}
    BY <1>2
  <2> QED
    BY <2>1, MinExists
<1>4. m \in Nat /\ m + 1 \notin Heard /\ m <= n
  BY <1>2, <1>3
<1>5. m # 0 => m \in Heard
  <2>1. ASSUME m # 0, m \notin Heard PROVE FALSE
    <3>1. m - 1 \in Nat /\ (m - 1) + 1 = m
      BY <1>4, <2>1
    <3>2. m - 1 \in S
      BY <2>1, <3>1
    <3>3. m <= m - 1
      BY <1>3, <3>2
    <3> QED
      BY <1>4, <3>3
  <2> QED
    BY <2>1
<1>6. ASSUME NEW k \in 1 .. m PROVE k \in Heard
  <2>1. m \in CallsPlanned /\ sent[m + 1] > 0
    BY <1>4, <1>5 DEF Heard
  <2>2. k \in CallsPlanned /\ k <= m
    BY <1>1, <1>4 DEF CallsPlanned
  <2>3. sent[k + 1] > 0
    BY <2>1, <2>2 DEF SentOK
  <2> QED
    BY <2>2, <2>3 DEF Heard
<1>7. ASSUME NEW k \in Heard PROVE k \in 1 .. m
  <2>1. k \in CallsPlanned /\ sent[k + 1] > 0 /\ k \in 1 .. n
    BY DEF Heard, CallsPlanned
  <2>2. CASE k > m
    <3>1. m + 1 \in CallsPlanned /\ m + 1 <= k
      BY <1>1, <1>4, <2>1, <2>2 DEF CallsPlanned
    <3>2. sent[(m + 1) + 1] > 0
      BY <2>1, <3>1 DEF SentOK
    <3>3. m + 1 \in Heard
      BY <3>1, <3>2 DEF Heard
    <3> QED
      BY <1>4, <3>3
  <2>3. CASE k <= m
    BY <1>4, <2>1, <2>3
  <2> QED
    BY <1>1, <1>4, <2>1, <2>2, <2>3
<1>8. m \in 0 .. n
  BY <1>1, <1>4
<1> QED
  BY <1>6, <1>7, <1>8

LEMMA InOrder ==
  ASSUME NEW m \in Nat, NEW slots, DOMAIN slots = 1 .. m
  PROVE  InIndexOrder(slots) = [i \in 1 .. m |-> slots[i]]
<1> DEFINE at(i) == CHOOSE k \in DOMAIN slots : Cardinality({j \in DOMAIN slots : j <= k}) = i
<1>1. \A i \in 0 .. m : Cardinality(1 .. i) = i
  <2>1. ASSUME NEW i \in 0 .. m PROVE Cardinality(1 .. i) = i
    <3>1. Cardinality(1 .. i) = IF 1 > i THEN 0 ELSE i - 1 + 1
      BY FS_Interval
    <3> QED
      BY <3>1
  <2> QED
    BY <2>1
<1>2. ASSUME NEW i \in 1 .. m PROVE at(i) = i
  <2>1. \A k \in 1 .. m : {j \in DOMAIN slots : j <= k} = 1 .. k
    OBVIOUS
  <2>2. ASSUME NEW k \in DOMAIN slots PROVE Cardinality({j \in DOMAIN slots : j <= k}) = k
    <3>1. k \in 1 .. m /\ k \in 0 .. m
      OBVIOUS
    <3>2. {j \in DOMAIN slots : j <= k} = 1 .. k
      BY <2>1, <3>1
    <3> QED
      BY <1>1, <3>1, <3>2, Zenon
  <2>3. \A k \in DOMAIN slots : Cardinality({j \in DOMAIN slots : j <= k}) = i <=> k = i
    BY <2>2
  <2>4. i \in DOMAIN slots
    OBVIOUS
  <2> QED
    BY <2>3, <2>4
<1>3. Cardinality(DOMAIN slots) = m
  BY <1>1
<1>4. InIndexOrder(slots) = [i \in 1 .. Cardinality(DOMAIN slots) |-> slots[at(i)]]
  BY DEF InIndexOrder
<1> HIDE DEF at
<1> QED
  BY <1>2, <1>3, <1>4

\* When all is said.
LEMMA SaidAll ==
  ASSUME PlanOK, wire \in Wires, SentOK, Said
  PROVE  /\ sent[1] = plan.text
         /\ Heard = CallsPlanned /\ SentWhole = CallsPlanned
         /\ wire # "google" => \A k \in CallsPlanned : SlotOf(k, sent[k + 1]) = [id |-> Id(k), args |-> Fragments(k)]
<1>1. /\ Len(plan.calls) \in Nat /\ DOMAIN Streams = 1 .. Len(plan.calls) + 1
      /\ Len(Streams[1]) = plan.text
      /\ \A k \in CallsPlanned : Len(Streams[k + 1]) = CallLen(k) /\ CallLen(k) \in Nat
      /\ \A k \in CallsPlanned : k + 1 \in DOMAIN Streams /\ Streams[k + 1] = CallEvents(k)
  BY StreamsAre, StreamLens
<1>2. sent[1] = plan.text /\ \A k \in CallsPlanned : sent[k + 1] = CallLen(k)
  BY <1>1 DEF Said
<1>3. ASSUME NEW k \in CallsPlanned
      PROVE  CallLen(k) > 0 /\ plan.calls[k].pieces \in Nat
  BY PlannedPieces DEF CallLen
<1>4. ASSUME wire # "google", NEW k \in CallsPlanned
      PROVE  SlotOf(k, CallLen(k)) = [id |-> Id(k), args |-> Fragments(k)]
  <2>1. GotSoFar(k, CallLen(k)) = Fragments(k)
    <3>1. CASE wire \in Closing
      BY <1>3, <3>1 DEF GotSoFar, CallLen, Closing
    <3>2. CASE wire \notin Closing
      BY <1>3, <1>4, <3>2, FragmentsAre DEF GotSoFar, CallLen
    <3> QED
      BY <3>1, <3>2
  <2> QED
    BY <2>1 DEF SlotOf
<1>5. Heard = CallsPlanned /\ SentWhole = CallsPlanned
  BY <1>2, <1>3 DEF Heard, SentWhole
<1> QED
  BY <1>2, <1>4, <1>5

LEMMA IdsAre == \A k : Id(k) # NoId
<1>1. ASSUME NEW k PROVE Id(k) # NoId
  <2>1. Len(Id(k)) = 3 /\ Len(NoId) = 0
    BY DEF Id, NoId
  <2> QED
    BY <2>1
<1> QED
  BY <1>1

LEMMA AnswerIds ==
  ASSUME NEW k
  PROVE  Assembled(k).id # NoId
<1>1. \A x : <<"google", x>> # NoId
  <2>1. ASSUME NEW x PROVE <<"google", x>> # NoId
    <3>1. Len(<<"google", x>>) = 2 /\ Len(NoId) = 0
      BY DEF NoId
    <3> QED
      BY <3>1
  <2> QED
    BY <2>1
<1> QED
  BY <1>1, IdsAre DEF Assembled

\* What is returned has no call with a part of its arguments, each has an ID,
\* and a finished answer has every call.
WholeCalls(calls, done) ==
  /\ IsSeq(calls)
  /\ \A i \in 1 .. Len(calls) : calls[i].id # NoId
  /\ \A i \in 1 .. Len(calls) :
       calls[i].args = <<>> \/ \E k \in CallsPlanned : calls[i].args = Fragments(k)
  /\ done =>
       /\ Len(calls) = Len(plan.calls)
       /\ \A k \in CallsPlanned : \E i \in 1 .. Len(calls) :
            /\ calls[i].args = Fragments(k)
            /\ wire # "google" => calls[i].id = Id(k)
            /\ wire \notin {"google", "anthropic", "responses", "codex"} => i = k

\* The wires that keep the calls by their numbers.
LEMMA NumberedCalls ==
  ASSUME PlanOK, wire \in Completions \cup {"bedrock", "radius"}, SentOK, SlotsOK,
         NEW done, done => Said,
         \A s \in Range(gathered.slots) : s.args = <<>> \/ Parses(s)
  PROVE  WholeCalls(InIndexOrder(gathered.slots), done)
<1> DEFINE slots == gathered.slots
           calls == InIndexOrder(slots)
<1>1. PICK m \in 0 .. Len(plan.calls) : Heard = 1 .. m
  BY HeardFirst
<1>2. m \in Nat /\ Len(plan.calls) \in Nat
  BY DEF PlanOK
<1>3. DOMAIN slots = 1 .. m /\ \A k \in 1 .. m : slots[k] = SlotOf(k, sent[k + 1])
  BY <1>1 DEF SlotsOK
<1> HIDE DEF slots
<1>4. calls = [i \in 1 .. m |-> slots[i]]
  BY <1>2, <1>3, InOrder
<1> HIDE DEF calls
<1>5. calls = [i \in 1 .. m |-> calls[i]] /\ \A i \in 1 .. m : calls[i] = slots[i]
  BY <1>4
<1>6. IsSeq(calls) /\ Len(calls) = m
  BY <1>2, <1>5, BuiltUp
<1>7. \A i \in 1 .. m : calls[i].id # NoId
  BY <1>3, <1>5, IdsAre DEF SlotOf
<1>8. ASSUME NEW i \in 1 .. m
      PROVE  calls[i].args = <<>> \/ \E k \in CallsPlanned : calls[i].args = Fragments(k)
  <2>1. slots[i] \in Range(slots)
    BY <1>3 DEF Range
  <2>2. slots[i].args = <<>> \/ Parses(slots[i])
    BY <2>1 DEF slots
  <2>3. DOMAIN plan.calls = CallsPlanned
    BY DEF PlanOK, CallsPlanned
  <2> QED
    BY <1>5, <2>2, <2>3 DEF Parses
<1>9. ASSUME done
      PROVE  /\ Len(calls) = Len(plan.calls)
             /\ \A k \in CallsPlanned : \E i \in 1 .. m :
                  calls[i].args = Fragments(k) /\ calls[i].id = Id(k) /\ i = k
  <2>1. /\ Heard = CallsPlanned
        /\ wire # "google"
        /\ wire # "google" => \A k \in CallsPlanned : SlotOf(k, sent[k + 1]) = [id |-> Id(k), args |-> Fragments(k)]
    BY <1>9, SaidAll DEF Wires, Completions
  <2>2. m = Len(plan.calls)
    BY <1>1, <1>2, <2>1 DEF CallsPlanned
  <2>3. ASSUME NEW k \in CallsPlanned
        PROVE  k \in 1 .. m /\ calls[k].args = Fragments(k) /\ calls[k].id = Id(k)
    <3>1. k \in 1 .. m
      BY <1>1, <2>1
    <3>2. calls[k] = [id |-> Id(k), args |-> Fragments(k)]
      BY <1>3, <1>5, <2>1, <3>1
    <3> QED
      BY <3>1, <3>2
  <2> QED
    BY <1>6, <2>2, <2>3
<1>10. WholeCalls(calls, done)
  BY <1>6, <1>7, <1>8, <1>9 DEF WholeCalls
<1> QED
  BY <1>10 DEF calls, slots

\* Anthropic, in the order of a map.
LEMMA MappedCalls ==
  ASSUME PlanOK, wire = "anthropic", SentOK, SlotsOK, NEW done, done => Said,
         \A s \in Range(gathered.slots) : s.args = <<>> \/ Parses(s),
         NEW order \in SetToSeqs(DOMAIN gathered.slots)
  PROVE  WholeCalls([i \in 1 .. Len(order) |-> gathered.slots[order[i]]], done)
<1> DEFINE slots == gathered.slots
           calls == [i \in 1 .. Len(order) |-> slots[order[i]]]
<1>1. PICK m \in 0 .. Len(plan.calls) : Heard = 1 .. m
  BY HeardFirst
<1>2. m \in Nat /\ Len(plan.calls) \in Nat
  BY DEF PlanOK
<1>3. DOMAIN slots = 1 .. m /\ \A k \in 1 .. m : slots[k] = SlotOf(k, sent[k + 1])
  BY <1>1 DEF SlotsOK
<1> HIDE DEF slots
<1>4. Cardinality(1 .. m) = m /\ IsFiniteSet(1 .. m)
  <2>1. IsFiniteSet(1 .. m) /\ Cardinality(1 .. m) = IF 1 > m THEN 0 ELSE m - 1 + 1
    BY FS_Interval
  <2> QED
    BY <1>2, <2>1
<1>5. order \in [1 .. m -> 1 .. m] /\ \A i, j \in 1 .. m : i # j => order[i] # order[j]
  <2>1. order \in SetToSeqs(1 .. m)
    BY <1>3 DEF slots
  <2> QED
    BY <1>4, <2>1 DEF SetToSeqs
<1>6. ASSUME NEW k \in 1 .. m PROVE \E i \in 1 .. m : order[i] = k
  <2>1. order \in Injection(1 .. m, 1 .. m)
    BY <1>5 DEF Injection, IsInjective
  <2>2. order \in Surjection(1 .. m, 1 .. m)
    BY <1>4, <2>1, FS_Injection
  <2> QED
    BY <2>2 DEF Surjection
<1>7. Len(order) = m
  BY <1>2, <1>5
<1>8. calls = [i \in 1 .. m |-> calls[i]] /\ \A i \in 1 .. m : calls[i] = slots[order[i]]
  BY <1>7
<1> HIDE DEF calls
<1>9. IsSeq(calls) /\ Len(calls) = m
  BY <1>2, <1>8, BuiltUp
<1>10. \A i \in 1 .. m : order[i] \in 1 .. m
  BY <1>5
<1>11. \A i \in 1 .. m : calls[i].id # NoId
  BY <1>3, <1>8, <1>10, IdsAre DEF SlotOf
<1>12. ASSUME NEW i \in 1 .. m
       PROVE  calls[i].args = <<>> \/ \E k \in CallsPlanned : calls[i].args = Fragments(k)
  <2>1. slots[order[i]] \in Range(slots)
    BY <1>3, <1>10 DEF Range
  <2>2. slots[order[i]].args = <<>> \/ Parses(slots[order[i]])
    BY <2>1 DEF slots
  <2>3. DOMAIN plan.calls = CallsPlanned
    BY DEF PlanOK, CallsPlanned
  <2> QED
    BY <1>8, <2>2, <2>3 DEF Parses
<1>13. ASSUME done
       PROVE  /\ Len(calls) = Len(plan.calls)
              /\ \A k \in CallsPlanned : \E i \in 1 .. m :
                   calls[i].args = Fragments(k) /\ calls[i].id = Id(k)
  <2>1. /\ Heard = CallsPlanned
        /\ wire # "google" => \A k \in CallsPlanned : SlotOf(k, sent[k + 1]) = [id |-> Id(k), args |-> Fragments(k)]
    BY <1>13, SaidAll DEF Wires
  <2>2. m = Len(plan.calls)
    BY <1>1, <1>2, <2>1 DEF CallsPlanned
  <2>3. ASSUME NEW k \in CallsPlanned
        PROVE  \E i \in 1 .. m : calls[i].args = Fragments(k) /\ calls[i].id = Id(k)
    <3>1. k \in 1 .. m
      BY <1>1, <2>1
    <3>2. PICK i \in 1 .. m : order[i] = k
      BY <1>6, <3>1
    <3>3. calls[i] = [id |-> Id(k), args |-> Fragments(k)]
      BY <1>3, <1>8, <2>1, <3>1, <3>2
    <3> QED
      BY <3>3
  <2> QED
    BY <1>9, <2>2, <2>3
<1>14. WholeCalls(calls, done)
  BY <1>9, <1>11, <1>12, <1>13 DEF WholeCalls
<1> QED
  BY <1>14 DEF calls, slots

\* Responses and Google, one after the other as they are closed.
LEMMA ClosedCalls ==
  ASSUME PlanOK, wire \in Closing \cup {"google"}, SentOK, NEW done, done => Said,
         Lists(gathered.calls, SentWhole)
  PROVE  WholeCalls(gathered.calls, done)
<1> DEFINE calls == gathered.calls
<1>1. PICK n \in Nat : \E who \in [1 .. n -> SentWhole] :
        /\ \A i, j \in 1 .. n : who[i] = who[j] => i = j
        /\ \A k \in SentWhole : \E i \in 1 .. n : who[i] = k
        /\ calls = [i \in 1 .. n |-> Assembled(who[i])]
  BY DEF Lists
<1>2. PICK who \in [1 .. n -> SentWhole] :
        /\ \A i, j \in 1 .. n : who[i] = who[j] => i = j
        /\ \A k \in SentWhole : \E i \in 1 .. n : who[i] = k
        /\ calls = [i \in 1 .. n |-> Assembled(who[i])]
  BY <1>1
<1> HIDE DEF calls
<1>3. calls = [i \in 1 .. n |-> calls[i]] /\ \A i \in 1 .. n : calls[i] = Assembled(who[i])
  BY <1>2
<1>4. IsSeq(calls) /\ Len(calls) = n
  BY <1>3, BuiltUp
<1>5. \A i \in 1 .. n : who[i] \in CallsPlanned
  BY DEF SentWhole
<1>6. \A k : Assembled(k).id # NoId /\ Assembled(k).args = Fragments(k) /\ (wire # "google" => Assembled(k).id = Id(k))
  BY AnswerIds DEF Assembled
<1>7. \A i \in 1 .. n : calls[i].id # NoId
  BY <1>3, <1>6
<1>8. \A i \in 1 .. n : \E k \in CallsPlanned : calls[i].args = Fragments(k)
  BY <1>3, <1>5, <1>6
<1>9. ASSUME done
      PROVE  /\ n = Len(plan.calls)
             /\ \A k \in CallsPlanned : \E i \in 1 .. n :
                  calls[i].args = Fragments(k) /\ (wire # "google" => calls[i].id = Id(k))
  <2>1. SentWhole = CallsPlanned
    BY <1>9, SaidAll DEF Wires, Closing
  <2>2. n = Len(plan.calls)
    <3> DEFINE N == Len(plan.calls)
    <3>1. N \in Nat /\ CallsPlanned = 1 .. N
      BY DEF PlanOK, CallsPlanned
    <3> HIDE DEF N
    <3>2. \A x \in Nat : IsFiniteSet(1 .. x) /\ Cardinality(1 .. x) = x
      <4>1. ASSUME NEW x \in Nat PROVE IsFiniteSet(1 .. x) /\ Cardinality(1 .. x) = x
        <5>1. IsFiniteSet(1 .. x) /\ Cardinality(1 .. x) = IF 1 > x THEN 0 ELSE x - 1 + 1
          BY FS_Interval
        <5> QED
          BY <5>1
      <4> QED
        BY <4>1
    <3>3. who \in Injection(1 .. n, 1 .. N)
      BY <1>2, <2>1, <3>1 DEF Injection, IsInjective
    <3>4. who \in Surjection(1 .. n, 1 .. N)
      BY <1>2, <2>1, <3>1 DEF Surjection
    <3>5. Cardinality(1 .. n) = Cardinality(1 .. N)
      BY <3>1, <3>2, <3>3, <3>4, FS_Injection
    <3> QED
      BY <3>1, <3>2, <3>5 DEF N
  <2>3. \A k \in CallsPlanned : \E i \in 1 .. n : who[i] = k
    BY <1>2, <2>1
  <2>4. ASSUME NEW k \in CallsPlanned
        PROVE  \E i \in 1 .. n : calls[i].args = Fragments(k) /\ (wire # "google" => calls[i].id = Id(k))
    <3>1. PICK i \in 1 .. n : who[i] = k
      BY <2>3
    <3>2. calls[i] = Assembled(k)
      BY <1>3, <3>1
    <3> QED
      BY <1>6, <3>2
  <2> QED
    BY <2>2, <2>4
<1>10. \A k \in CallsPlanned : wire \in {"google", "anthropic", "responses", "codex"}
  BY DEF Closing
<1>11. WholeCalls(calls, done)
  BY <1>4, <1>7, <1>8, <1>9, <1>10 DEF WholeCalls, Closing
<1> QED
  BY <1>11 DEF calls

\* What the history needs of an answer.
ResultOK ==
  stage = "returned" =>
    IsSeq(result.calls) /\ \A i \in 1 .. Len(result.calls) : result.calls[i].id # NoId

CallInv == wire \in Wires /\ StreamInv /\ AnswersAreWhole /\ ResultOK

LEMMA EndsAre ==
  ASSUME wire \in Wires, PlanOK, SentOK, GatheredOK, StopOK, Finished => Said,
         NEW r \in Ends(wire, gathered, {slot \in Range(gathered.slots) : Parses(slot)}), r.ok
  PROVE  /\ r.text = gathered.text
         /\ WholeCalls(r.calls, Finished)
         /\ (wire \in Completions /\ ~plan.nulls) \/ wire \in {"bedrock", "radius"} => Finished
<1> DEFINE a == gathered
           parsed == {slot \in Range(a.slots) : Parses(slot)}
<1>1. ~Refused.ok
  BY DEF Refused
<1>2. \A calls, stop : Returned(a, calls, stop).text = a.text /\ Returned(a, calls, stop).calls = calls
  BY DEF Returned
<1> DEFINE Whole == \A s \in Range(a.slots) : s.args = <<>> \/ Parses(s)
<1>3. CASE wire \in Completions \cup {"bedrock", "radius"}
  <2>1. /\ \E stop : r = Returned(a, InIndexOrder(a.slots), stop)
        /\ a.stop # "" /\ Whole
    <3>1. CASE wire \in Completions
      <4>1. r = CompletionsEnd(a, parsed)
        BY <3>1 DEF Ends, Completions
      <4> QED
        BY <1>1, <4>1 DEF CompletionsEnd
    <3>2. CASE wire = "bedrock"
      <4>1. r = BedrockEnd(a, parsed)
        BY <3>2 DEF Ends
      <4> QED
        BY <1>1, <4>1 DEF BedrockEnd
    <3>3. CASE wire = "radius"
      <4>1. r = RadiusEnd(a, parsed)
        BY <3>3 DEF Ends
      <4> QED
        BY <1>1, <4>1 DEF RadiusEnd
    <3> QED
      BY <1>3, <3>1, <3>2, <3>3
  <2>2. r.text = a.text /\ r.calls = InIndexOrder(a.slots)
    <3>1. PICK stop : r = Returned(a, InIndexOrder(a.slots), stop)
      BY <2>1, Zenon
    <3> QED
      BY <1>2, <3>1, Zenon
  <2>3. SlotsOK
    BY <1>3 DEF GatheredOK, Completions
  <2>4. WholeCalls(r.calls, Finished)
    BY <1>3, <2>1, <2>2, <2>3, NumberedCalls
  <2>5. (wire \in Completions /\ ~plan.nulls) \/ wire \in {"bedrock", "radius"} => Finished
    BY <2>1 DEF StopOK
  <2> QED
    BY <2>2, <2>4, <2>5
<1>4. CASE wire = "anthropic"
  <2>1. r \in AnthropicEnds(a, parsed)
    BY <1>4 DEF Ends
  <2>2. /\ Whole
        /\ \E order \in SetToSeqs(DOMAIN a.slots) : \E stop :
             r = Returned(a, [i \in 1 .. Len(order) |-> a.slots[order[i]]], stop)
    <3> DEFINE Called(order) == [i \in 1 .. Len(order) |-> a.slots[order[i]]]
               Orders == SetToSeqs(DOMAIN a.slots)
               Torn == \E s \in Range(a.slots) : s.args # <<>> /\ s \notin parsed
               Stop(calls) == IF a.stop = "" /\ calls # <<>> THEN "toolUse" ELSE a.stop
    <3>1. r \in IF Torn THEN {Refused}
                ELSE {Returned(a, calls, Stop(calls)) : calls \in {Called(order) : order \in Orders}}
      BY <2>1, Zenon DEF AnthropicEnds
    <3>2. ~Torn => Whole
      <4> HIDE DEF Orders, Called, Stop
      <4> QED
        BY DEF Torn
    <3> HIDE DEF Called, Orders, Torn, Stop
    <3>3. ~Torn
      BY <1>1, <3>1, Zenon
    <3>4. r \in {Returned(a, calls, Stop(calls)) : calls \in {Called(order) : order \in Orders}}
      BY <3>1, <3>3, Zenon
    <3>5. PICK calls \in {Called(order) : order \in Orders} : r = Returned(a, calls, Stop(calls))
      BY <3>4, Zenon
    <3>6. PICK order \in Orders : calls = Called(order)
      BY <3>5, Zenon
    <3>7. order \in SetToSeqs(DOMAIN a.slots) /\ r = Returned(a, [i \in 1 .. Len(order) |-> a.slots[order[i]]], Stop(calls))
      BY <3>5, <3>6, Zenon DEF Orders, Called
    <3>8. \E o \in SetToSeqs(DOMAIN a.slots) : \E stop :
             r = Returned(a, [i \in 1 .. Len(o) |-> a.slots[o[i]]], stop)
      BY <3>7, Zenon
    <3> QED
      BY <3>2, <3>3, <3>8, Zenon
  <2>3. PICK order \in SetToSeqs(DOMAIN a.slots) : \E stop :
          r = Returned(a, [i \in 1 .. Len(order) |-> a.slots[order[i]]], stop)
    BY <2>2, Zenon
  <2>4. r.text = a.text /\ r.calls = [i \in 1 .. Len(order) |-> a.slots[order[i]]]
    <3> DEFINE called == [i \in 1 .. Len(order) |-> a.slots[order[i]]]
    <3>1. PICK stop : r = Returned(a, called, stop)
      BY <2>3, Zenon
    <3> HIDE DEF called
    <3>2. r.text = a.text /\ r.calls = called
      BY <1>2, <3>1, Zenon
    <3> QED
      BY <3>2, Zenon DEF called
  <2>5. SlotsOK
    BY <1>4 DEF GatheredOK
  <2>6. WholeCalls(r.calls, Finished)
    BY <1>4, <2>2, <2>4, <2>5, MappedCalls
  <2> QED
    BY <1>4, <2>4, <2>6 DEF Completions
<1>5. CASE wire \in Closing \cup {"google"}
  <2>1. \E stop : r = Returned(a, a.calls, stop)
    <3>1. CASE wire \in Closing
      <4>1. r = ResponsesEnd(a)
        BY <3>1 DEF Ends, Closing
      <4> QED
        BY <1>1, <4>1 DEF ResponsesEnd
    <3>2. CASE wire = "google"
      <4>1. r = GoogleEnd(a)
        BY <3>2 DEF Ends
      <4> QED
        BY <4>1 DEF GoogleEnd
    <3> QED
      BY <1>5, <3>1, <3>2
  <2>2. r.text = a.text /\ r.calls = a.calls
    BY <1>2, <2>1
  <2>3. WholeCalls(r.calls, Finished)
    BY <1>5, <2>2, ClosedCalls DEF GatheredOK
  <2> QED
    BY <1>5, <2>2, <2>3 DEF Completions, Closing
<1> QED
  BY <1>3, <1>4, <1>5 DEF Wires

LEMMA StreamEndsInv ==
  ASSUME CallInv, StreamEnds
  PROVE  CallInv'
<1>1. /\ stage \in {"streaming", "closing", "closed"}
      /\ result' \in Ends(wire, gathered, {slot \in Range(gathered.slots) : Parses(slot)})
      /\ stage' = (IF result'.ok THEN "returned" ELSE "refused")
      /\ finished' = Finished
      /\ UNCHANGED <<wire, plan, sent, gathered, asked>>
  BY DEF StreamEnds
<1>2. /\ wire \in Wires /\ PlanOK /\ SentOK /\ GatheredOK /\ StopOK
      /\ stage # "streaming" => Said
  BY <1>1 DEF CallInv, StreamInv
<1>3. Finished => Said
  BY <1>2 DEF Finished
<1>4. StreamInv'
  BY <1>1 DEF StreamInv
<1>5. CASE ~result'.ok
  <2>1. stage' # "returned"
    BY <1>1, <1>5
  <2> QED
    BY <1>1, <1>2, <1>4, <2>1 DEF CallInv, AnswersAreWhole, ResultOK
<1>6. CASE result'.ok
  <2>1. /\ result'.text = gathered.text
        /\ WholeCalls(result'.calls, Finished)
        /\ (wire \in Completions /\ ~plan.nulls) \/ wire \in {"bedrock", "radius"} => Finished
    BY <1>1, <1>2, <1>3, <1>6, EndsAre
  <2>2. ResultOK'
    BY <2>1 DEF ResultOK, WholeCalls
  <2>3. Finished => gathered.text = plan.text
    BY <1>2, <1>3, SaidAll DEF GatheredOK
  <2>4. /\ \A k : Fragments(k)' = Fragments(k) /\ Id(k)' = Id(k)
        /\ DOMAIN plan'.calls = CallsPlanned
        /\ DOMAIN result'.calls = 1 .. Len(result'.calls)
    <3>1. \A k : Fragments(k)' = Fragments(k) /\ Id(k)' = Id(k)
      BY <1>1 DEF Fragments, Id
    <3>2. DOMAIN plan'.calls = CallsPlanned
      BY <1>1, <1>2 DEF PlanOK, CallsPlanned
    <3>3. DOMAIN result'.calls = 1 .. Len(result'.calls)
      BY <2>1, Elements DEF WholeCalls
    <3> QED
      BY <3>1, <3>2, <3>3
  <2>5. AnswersAreWhole'
    <3>1. \A i \in DOMAIN result'.calls :
            result'.calls[i].args = <<>> \/ \E k \in DOMAIN plan'.calls : result'.calls[i].args = Fragments(k)'
      BY <2>1, <2>4 DEF WholeCalls
    <3>2. /\ wire' \in Completions /\ ~plan'.nulls => finished'
          /\ wire' \in {"bedrock", "radius"} => finished'
      BY <1>1, <2>1
    <3>3. finished' =>
            /\ result'.text = plan'.text
            /\ Len(result'.calls) = Len(plan'.calls)
            /\ \A k \in DOMAIN plan'.calls : \E i \in DOMAIN result'.calls :
                 /\ result'.calls[i].args = Fragments(k)'
                 /\ wire' # "google" => result'.calls[i].id = Id(k)'
                 /\ wire' \notin {"google", "anthropic", "responses", "codex"} => i = k
      BY <1>1, <2>1, <2>3, <2>4 DEF WholeCalls
    <3> QED
      BY <3>1, <3>2, <3>3 DEF AnswersAreWhole
  <2> QED
    BY <1>1, <1>2, <1>4, <2>2, <2>5 DEF CallInv
<1> QED
  BY <1>5, <1>6

LEMMA CallNextInv ==
  ASSUME ProviderBounds, CallInv, [CallNext]_callVars
  PROVE  CallInv'
<1>1. CASE AskRefused
  BY <1>1 DEF AskRefused, CallInv, StreamInv, AnswersAreWhole, ResultOK
<1>2. CASE RetryAfterDelay
  BY <1>2 DEF RetryAfterDelay, CallInv, StreamInv, AnswersAreWhole, ResultOK
<1>3. CASE CanceledInBackoff
  BY <1>3 DEF CanceledInBackoff, CallInv, StreamInv, AnswersAreWhole, ResultOK
<1>4. CASE AskAccepted
  <2>1. stage' = "streaming" /\ wire' = wire
    BY <1>4 DEF AskAccepted
  <2> QED
    BY <1>4, <2>1, AcceptInv DEF CallInv, AnswersAreWhole, ResultOK
<1>5. CASE \E s \in 1 .. MaxCalls + 1 : Deliver(s)
  <2>1. PICK s \in Nat : Deliver(s)
    BY <1>5 DEF ProviderBounds
  <2>2. stage' = "streaming" /\ wire' = wire
    BY <2>1 DEF Deliver
  <2> QED
    BY <2>1, <2>2, DeliverInv DEF CallInv, AnswersAreWhole, ResultOK
<1>6. CASE DeliverLast
  <2>1. stage' # "returned" /\ wire' = wire
    BY <1>6 DEF DeliverLast
  <2> QED
    BY <1>6, <2>1, LastInv DEF CallInv, AnswersAreWhole, ResultOK
<1>7. CASE StreamEnds
  BY <1>7, StreamEndsInv
<1>8. CASE StreamBreaks
  BY <1>8 DEF StreamBreaks, CallInv, StreamInv, AnswersAreWhole, ResultOK
<1>9. CASE AskAgain
  BY <1>9 DEF AskAgain, CallInv, StreamInv, AnswersAreWhole, ResultOK
<1>10. CASE UNCHANGED callVars
  <2>1. UNCHANGED <<wire, plan, sent, gathered, stage, result, finished, asked>>
    BY <1>10 DEF callVars
  <2>2. wire' \in Wires
    BY <2>1 DEF CallInv
  <2>3. StreamInv'
    BY <2>1, StillInv DEF CallInv
  <2>4. AnswersAreWhole' /\ ResultOK'
    BY <2>1 DEF CallInv, AnswersAreWhole, ResultOK, Fragments, Id
  <2> QED
    BY <2>2, <2>3, <2>4 DEF CallInv
<1> QED
  BY <1>1, <1>2, <1>3, <1>4, <1>5, <1>6, <1>7, <1>8, <1>9, <1>10 DEF CallNext

LEMMA CallInitInv ==
  ASSUME ProviderBounds, CallInit
  PROVE  CallInv
BY DEF CallInit, ProviderBounds, Wires, Completions, Closing, CallInv, StreamInv, AnswersAreWhole, ResultOK

\* Whatever the service plans to say, and wherever its stream breaks, the
\* reader's partial answer is what was said so far: the invariant from which
\* AnswersAreWhole follows, for any number of calls, pieces and requests.
THEOREM CallInvariant == CallSpec => []CallInv
<1>1. CallInit => CallInv
  BY ProviderBounds, CallInitInv
<1>2. CallInv /\ [CallNext]_callVars => CallInv'
  BY ProviderBounds, CallNextInv
<1> QED
  BY <1>1, <1>2, PTL DEF CallSpec

\* An answer that a provider's Chat or ChatStream returns without an error is
\* the whole answer that the service planned, each call with its arguments.
THEOREM WholeAnswers == CallSpec => []AnswersAreWhole
<1>1. CallInv => AnswersAreWhole
  BY DEF CallInv
<1> QED
  BY <1>1, CallInvariant, PTL


\* Sequences put one after another in any grouping.
LEMMA Grouped ==
  ASSUME NEW r, NEW s, NEW t, IsSeq(r), IsSeq(s), IsSeq(t)
  PROVE  (r \o s) \o t = r \o (s \o t)
<1> DEFINE D == Range(r) \cup Range(s) \cup Range(t)
<1>1. r \in Seq(D) /\ s \in Seq(D) /\ t \in Seq(D)
  BY DEF IsSeq
<1> HIDE DEF D
<1> QED
  BY <1>1

LEMMA NextToNothing ==
  ASSUME NEW s, IsSeq(s)
  PROVE  s \o <<>> = s /\ <<>> \o s = s
<1>1. s \in Seq(Range(s))
  BY DEF IsSeq
<1> HIDE DEF IsSeq
<1> QED
  BY <1>1

\* The sums of the sequences of x: f[n] is the first n of them in a row.
SumsOf(x, f) ==
  \A n \in 1 .. Len(x) : f[n] = IF n = 1 THEN x[n] ELSE f[n - 1] \o x[n]

LEMMA SumsFirst ==
  ASSUME NEW x, NEW f, SumsOf(x, f), Len(x) \in Nat, Len(x) > 0
  PROVE  f[1] = x[1]
<1>1. 1 \in 1 .. Len(x)
  OBVIOUS
<1> QED
  BY <1>1 DEF SumsOf

LEMMA SumsStep ==
  ASSUME NEW x, NEW f, SumsOf(x, f), Len(x) \in Nat, NEW m \in 1 .. Len(x), m < Len(x)
  PROVE  f[m + 1] = f[m] \o x[m + 1]
<1> DEFINE n == m + 1
<1>1. n \in 1 .. Len(x) /\ n # 1 /\ n - 1 = m
  OBVIOUS
<1> HIDE DEF n
<1>2. f[n] = f[n - 1] \o x[n]
  BY <1>1 DEF SumsOf
<1>3. f[n] = f[m] \o x[n]
  BY <1>1, <1>2
<1> QED
  BY <1>3 DEF n

LEMMA SumsExist ==
  ASSUME NEW x, IsSeq(x)
  PROVE  \E f : f = [n \in 1 .. Len(x) |-> IF n = 1 THEN x[n] ELSE f[n - 1] \o x[n]]
<1> DEFINE P(m) == \E f : f = [n \in 1 .. m |-> IF n = 1 THEN x[n] ELSE f[n - 1] \o x[n]]
           Bad == {m \in Nat : ~P(m)}
<1>1. P(0)
  <2>1. <<>> = [n \in 1 .. 0 |-> IF n = 1 THEN x[n] ELSE <<>>[n - 1] \o x[n]]
    OBVIOUS
  <2> QED
    BY <2>1
<1>2. ASSUME NEW m \in Nat, P(m) PROVE P(m + 1)
  <2>1. PICK f : f = [n \in 1 .. m |-> IF n = 1 THEN x[n] ELSE f[n - 1] \o x[n]]
    BY <1>2
  <2> DEFINE g == [n \in 1 .. m + 1 |->
                     IF n = m + 1 THEN (IF n = 1 THEN x[n] ELSE f[n - 1] \o x[n]) ELSE f[n]]
  <2>2. ASSUME NEW n \in 1 .. m + 1
        PROVE  g[n] = IF n = 1 THEN x[n] ELSE g[n - 1] \o x[n]
    <3>1. CASE n = m + 1
      <4>1. g[n] = IF n = 1 THEN x[n] ELSE f[n - 1] \o x[n]
        BY <3>1
      <4>2. n # 1 => n - 1 \in 1 .. m + 1 /\ n - 1 # m + 1
        OBVIOUS
      <4>3. n # 1 => g[n - 1] = f[n - 1]
        BY <4>2
      <4> QED
        BY <4>1, <4>3
    <3>2. CASE n # m + 1
      <4>1. n \in 1 .. m
        BY <3>2
      <4>2. f[n] = IF n = 1 THEN x[n] ELSE f[n - 1] \o x[n]
        BY <2>1, <4>1
      <4>3. n # 1 => n - 1 \in 1 .. m + 1 /\ n - 1 # m + 1
        OBVIOUS
      <4>4. g[n] = f[n] /\ (n # 1 => g[n - 1] = f[n - 1])
        BY <3>2, <4>3
      <4> QED
        BY <4>2, <4>4
    <3> QED
      BY <3>1, <3>2
  <2>3. g = [n \in 1 .. m + 1 |-> g[n]]
    OBVIOUS
  <2> HIDE DEF g
  <2>4. g = [n \in 1 .. m + 1 |-> IF n = 1 THEN x[n] ELSE g[n - 1] \o x[n]]
    BY <2>2, <2>3
  <2> QED
    BY <2>4
<1>3. Len(x) \in Nat
  BY Elements
<1> HIDE DEF P
<1>4. ASSUME Bad # {} PROVE FALSE
  <2>1. PICK m \in Bad : \A k \in Bad : m <= k
    BY <1>4, MinExists
  <2>2. m # 0 /\ m \in Nat
    BY <1>1
  <2>3. m - 1 \in Nat /\ m - 1 \notin Bad /\ m - 1 + 1 = m
    BY <2>1, <2>2
  <2>4. P(m)
    BY <1>2, <2>3
  <2> QED
    BY <2>1, <2>4
<1> QED
  BY <1>3, <1>4 DEF P

LEMMA FlattenIs ==
  ASSUME NEW x, IsSeq(x), Len(x) > 0
  PROVE  \E f : SumsOf(x, f) /\ FlattenSeq(x) = f[Len(x)]
<1> DEFINE S == 1 .. Len(x)
           F(f) == f = [n \in S |-> IF n = 1 THEN x[n] ELSE f[n - 1] \o x[n]]
           c == CHOOSE f : F(f)
<1>1. \E f : F(f)
  BY SumsExist
<1> HIDE DEF F
<1>2. F(c)
  BY <1>1, Zenon
<1>3. FlattenSeq(x) = c[Len(x)]
  BY DEF FlattenSeq, F
<1> HIDE DEF c
<1>4. SumsOf(x, c)
  BY <1>2 DEF F, SumsOf
<1> QED
  BY <1>3, <1>4

\* Induction over the places of a sequence.
LEMMA UpTo ==
  ASSUME NEW n \in Nat, NEW S, n > 0 => 1 \in S,
         \A m \in 1 .. n : m < n /\ m \in S => m + 1 \in S
  PROVE  1 .. n \subseteq S
<1> DEFINE Bad == {m \in 1 .. n : m \notin S}
<1>1. ASSUME Bad # {} PROVE FALSE
  <2>0. Bad \in SUBSET Nat
    OBVIOUS
  <2>1. PICK m \in Bad : \A k \in Bad : m <= k
    <3> HIDE DEF Bad
    <3> QED
      BY <1>1, <2>0, MinExists
  <2>2. m # 1 /\ m \in 1 .. n
    OBVIOUS
  <2>3. m - 1 \in 1 .. n /\ m - 1 \notin Bad /\ m - 1 < n /\ m - 1 + 1 = m
    BY <2>1, <2>2
  <2>4. m - 1 \in S
    BY <2>3
  <2>5. m - 1 + 1 \in S
    BY <2>3, <2>4
  <2> QED
    BY <2>1, <2>3, <2>5
<1> QED
  BY <1>1

Rows(x) == IsSeq(x) /\ \A n \in 1 .. Len(x) : IsSeq(x[n])

LEMMA FlattenNone ==
  ASSUME NEW x, IsSeq(x), Len(x) = 0
  PROVE  FlattenSeq(x) = <<>>
<1>1. FlattenSeq(x) = x
  BY DEF FlattenSeq
<1>2. x = <<>>
  BY SameSeq, Empty
<1> QED
  BY <1>1, <1>2

LEMMA SumsAre ==
  ASSUME NEW x, Rows(x), NEW f, SumsOf(x, f)
  PROVE  \A n \in 1 .. Len(x) : IsSeq(f[n])
<1>1. Len(x) \in Nat
  BY Elements DEF Rows
<1> DEFINE S == {n \in 1 .. Len(x) : IsSeq(f[n])}
<1>2. Len(x) > 0 => 1 \in S
  BY <1>1 DEF Rows, SumsOf
<1>3. ASSUME NEW m \in 1 .. Len(x), m < Len(x), m \in S PROVE m + 1 \in S
  <2>1. m + 1 \in 1 .. Len(x) /\ m + 1 # 1 /\ m + 1 - 1 = m
    BY <1>1, <1>3
  <2>2. f[m + 1] = f[m] \o x[m + 1]
    BY <1>1, <1>3, SumsStep
  <2>3. IsSeq(f[m]) /\ IsSeq(x[m + 1])
    BY <1>3, <2>1 DEF Rows
  <2>4. IsSeq(f[m] \o x[m + 1])
    BY <2>3, Joined
  <2> QED
    BY <2>1, <2>2, <2>4
<1> HIDE DEF S
<1>4. 1 .. Len(x) \subseteq S
  BY <1>1, <1>2, <1>3, UpTo
<1> QED
  BY <1>4 DEF S

LEMMA FlattenRows ==
  ASSUME NEW x, Rows(x)
  PROVE  IsSeq(FlattenSeq(x))
<1>1. Len(x) \in Nat /\ IsSeq(x)
  BY Elements DEF Rows
<1>2. CASE Len(x) = 0
  BY <1>1, <1>2, FlattenNone, Empty
<1>3. CASE Len(x) > 0
  <2>1. PICK f : SumsOf(x, f) /\ FlattenSeq(x) = f[Len(x)]
    BY <1>1, <1>3, FlattenIs
  <2> QED
    BY <1>1, <1>3, <2>1, SumsAre
<1> QED
  BY <1>1, <1>2, <1>3

LEMMA FlattenSplit ==
  ASSUME NEW x, NEW y, NEW z, Rows(x), Rows(y), IsSeq(z), Len(z) = Len(x) + Len(y),
         \A i \in 1 .. Len(x) : z[i] = x[i],
         \A j \in 1 .. Len(y) : z[Len(x) + j] = y[j]
  PROVE  FlattenSeq(z) = FlattenSeq(x) \o FlattenSeq(y)
<1>1. Len(x) \in Nat /\ Len(y) \in Nat /\ IsSeq(x) /\ IsSeq(y)
  BY Elements DEF Rows
<1>2. CASE Len(x) = 0
  <2>1. \A i \in 1 .. Len(z) : z[i] = y[i]
    BY <1>1, <1>2
  <2>2. Len(z) = Len(y)
    BY <1>1, <1>2
  <2>3. z = y
    BY <1>1, <2>1, <2>2, SameSeq
  <2>4. IsSeq(FlattenSeq(y)) /\ FlattenSeq(x) = <<>>
    BY <1>1, <1>2, FlattenRows, FlattenNone
  <2> QED
    BY <2>3, <2>4, NextToNothing
<1>3. CASE Len(x) > 0 /\ Len(y) = 0
  <2>1. Len(z) = Len(x) /\ \A i \in 1 .. Len(z) : z[i] = x[i]
    BY <1>1, <1>3
  <2>2. z = x
    BY <1>1, <2>1, SameSeq
  <2>3. IsSeq(FlattenSeq(x)) /\ FlattenSeq(y) = <<>>
    BY <1>1, <1>3, FlattenRows, FlattenNone
  <2> QED
    BY <2>2, <2>3, NextToNothing
<1>4. CASE Len(x) > 0 /\ Len(y) > 0
  <2>1. PICK f : SumsOf(x, f) /\ FlattenSeq(x) = f[Len(x)]
    BY <1>1, <1>4, FlattenIs
  <2>2. PICK g : SumsOf(y, g) /\ FlattenSeq(y) = g[Len(y)]
    BY <1>1, <1>4, FlattenIs
  <2>3. Len(z) > 0
    BY <1>1, <1>4
  <2>4. PICK h : SumsOf(z, h) /\ FlattenSeq(z) = h[Len(z)]
    BY <2>3, FlattenIs
  <2> DEFINE S == {i \in 1 .. Len(x) : h[i] = f[i]}
             T == {j \in 1 .. Len(y) : h[Len(x) + j] = f[Len(x)] \o g[j]}
  <2>5. 1 \in S
    <3>1. 1 \in 1 .. Len(x) /\ 1 \in 1 .. Len(z)
      BY <1>1, <1>4
    <3>2. h[1] = z[1] /\ f[1] = x[1] /\ z[1] = x[1]
      BY <2>1, <2>4, <3>1 DEF SumsOf
    <3> QED
      BY <3>1, <3>2
  <2>6. ASSUME NEW m \in 1 .. Len(x), m < Len(x), m \in S PROVE m + 1 \in S
    <3>1. m + 1 \in 1 .. Len(x) /\ m + 1 \in 1 .. Len(z) /\ m + 1 # 1 /\ m + 1 - 1 = m
      BY <1>1, <2>6
    <3>2. f[m + 1] = f[m] \o x[m + 1]
      BY <1>1, <2>1, <2>6, SumsStep
    <3>4. h[m + 1] = h[m] \o z[m + 1]
      <4>1. Len(z) \in Nat /\ m \in 1 .. Len(z) /\ m < Len(z)
        BY <1>1, <2>6
      <4> QED
        BY <2>4, <4>1, SumsStep
    <3>3. h[m] = f[m] /\ z[m + 1] = x[m + 1]
      BY <2>6, <3>1
    <3> QED
      BY <3>1, <3>2, <3>3, <3>4
  <2> HIDE DEF S
  <2>7. 1 .. Len(x) \subseteq S
    BY <1>1, <2>5, <2>6, UpTo
  <2>8. h[Len(x)] = f[Len(x)]
    BY <1>1, <1>4, <2>7 DEF S
  <2>9. 1 \in T
    <3>1. 1 \in 1 .. Len(y) /\ Len(x) \in 1 .. Len(z) /\ Len(x) < Len(z) /\ Len(z) \in Nat
      BY <1>1, <1>4
    <3>4. h[Len(x) + 1] = h[Len(x)] \o z[Len(x) + 1]
      BY <2>4, <3>1, SumsStep
    <3>2. h[Len(x) + 1] = h[Len(x)] \o z[Len(x) + 1] /\ g[1] = y[1]
      BY <1>1, <1>4, <2>2, <3>4, SumsFirst
    <3>3. z[Len(x) + 1] = y[1]
      BY <3>1
    <3> QED
      BY <2>8, <3>1, <3>2, <3>3
  <2>10. ASSUME NEW m \in 1 .. Len(y), m < Len(y), m \in T PROVE m + 1 \in T
    <3>1. /\ m + 1 \in 1 .. Len(y) /\ Len(z) \in Nat
          /\ Len(x) + m \in 1 .. Len(z) /\ Len(x) + m < Len(z) /\ (Len(x) + m) + 1 = Len(x) + (m + 1)
      BY <1>1, <2>10
    <3>6. h[(Len(x) + m) + 1] = h[Len(x) + m] \o z[(Len(x) + m) + 1]
      BY <2>4, <3>1, SumsStep
    <3>7. g[m + 1] = g[m] \o y[m + 1]
      BY <1>1, <2>2, <2>10, SumsStep
    <3>2. h[Len(x) + (m + 1)] = h[Len(x) + m] \o z[Len(x) + (m + 1)] /\ g[m + 1] = g[m] \o y[m + 1]
      BY <3>1, <3>6, <3>7
    <3>3. h[Len(x) + m] = f[Len(x)] \o g[m] /\ z[Len(x) + (m + 1)] = y[m + 1]
      BY <2>10, <3>1
    <3>4. IsSeq(f[Len(x)]) /\ IsSeq(g[m]) /\ IsSeq(y[m + 1])
      <4>1. Len(x) \in 1 .. Len(x) /\ m \in 1 .. Len(y)
        BY <1>1, <1>4
      <4>2. IsSeq(f[Len(x)])
        BY <2>1, <4>1, SumsAre
      <4>3. IsSeq(g[m])
        BY <2>2, <4>1, SumsAre
      <4> QED
        BY <3>1, <4>2, <4>3 DEF Rows
    <3>8. (f[Len(x)] \o g[m]) \o y[m + 1] = f[Len(x)] \o (g[m] \o y[m + 1])
      <4> DEFINE p == f[Len(x)]
                 q == g[m]
                 o == y[m + 1]
      <4>1. IsSeq(p) /\ IsSeq(q) /\ IsSeq(o)
        BY <3>4
      <4> HIDE DEF p, q, o
      <4>2. (p \o q) \o o = p \o (q \o o)
        BY <4>1, Grouped, SMTT(30)
      <4> QED
        BY <4>2 DEF p, q, o
    <3>5. h[Len(x) + (m + 1)] = f[Len(x)] \o g[m + 1]
      BY <3>2, <3>3, <3>8
    <3> QED
      BY <3>1, <3>5
  <2> HIDE DEF T
  <2>11. 1 .. Len(y) \subseteq T
    BY <1>1, <2>9, <2>10, UpTo
  <2>12. h[Len(x) + Len(y)] = f[Len(x)] \o g[Len(y)]
    <3>1. Len(y) \in 1 .. Len(y)
      BY <1>1, <1>4
    <3>2. Len(y) \in T
      BY <2>11, <3>1
    <3> QED
      BY <3>2 DEF T
  <2> QED
    BY <2>1, <2>2, <2>4, <2>12
<1> QED
  BY <1>1, <1>2, <1>3, <1>4

LEMMA FlattenOne ==
  ASSUME NEW s, IsSeq(s)
  PROVE  FlattenSeq(<<s>>) = s
<1> DEFINE x == <<s>>
<1>1. IsSeq(x) /\ Len(x) = 1 /\ x[1] = s
  BY Single
<1> HIDE DEF x
<1>2. PICK f : SumsOf(x, f) /\ FlattenSeq(x) = f[Len(x)]
  <2>1. IsSeq(x) /\ Len(x) > 0
    BY <1>1
  <2> QED
    BY <2>1, FlattenIs
<1>3. FlattenSeq(x) = s
  BY <1>1, <1>2 DEF SumsOf
<1> QED
  BY <1>3 DEF x

\* The first elements of a sequence.
LEMMA FirstPart ==
  ASSUME NEW t, IsSeq(t), NEW m \in Nat, m <= Len(t)
  PROVE  /\ IsSeq(SubSeq(t, 1, m)) /\ Len(SubSeq(t, 1, m)) = m
         /\ \A i \in 1 .. m : SubSeq(t, 1, m)[i] = t[i]
<1>1. t \in Seq(Range(t)) /\ Len(t) \in Nat
  BY Elements DEF IsSeq
<1> DEFINE u == SubSeq(t, 1, m)
<1> HIDE DEF IsSeq
<1>2. u \in Seq(Range(t)) /\ Len(u) = m /\ \A i \in 1 .. m : u[i] = t[i]
  BY <1>1
<1> HIDE DEF u
<1>3. u = [i \in 1 .. m |-> u[i]]
  BY <1>2
<1>4. IsSeq(u)
  BY <1>3, BuiltUp
<1> QED
  BY <1>2, <1>4 DEF u

LEMMA FirstPartLonger ==
  ASSUME NEW t, IsSeq(t), Len(t) \in Nat, NEW m \in Nat, m + 1 <= Len(t)
  PROVE  SubSeq(t, 1, m) \o <<t[m + 1]>> = SubSeq(t, 1, m + 1)
<1> DEFINE u == SubSeq(t, 1, m)
           v == SubSeq(t, 1, m + 1)
           w == u \o <<t[m + 1]>>
<1>1. IsSeq(u) /\ Len(u) = m /\ \A i \in 1 .. m : u[i] = t[i]
  BY FirstPart
<1>2. IsSeq(v) /\ Len(v) = m + 1 /\ \A i \in 1 .. m + 1 : v[i] = t[i]
  <2>1. m + 1 \in Nat
    OBVIOUS
  <2> QED
    BY <2>1, FirstPart
<1> HIDE DEF u, v
<1>u. IsSeq(u)
  BY <1>1
<1>3. /\ IsSeq(w) /\ Len(w) = Len(u) + 1
      /\ \A i \in 1 .. Len(u) : w[i] = u[i]
      /\ w[Len(u) + 1] = t[m + 1]
  BY <1>u, OneMore
<1> HIDE DEF w
<1>4. Len(w) = Len(v) /\ IsSeq(w) /\ IsSeq(v)
  BY <1>1, <1>2, <1>3
<1>5. ASSUME NEW i \in 1 .. Len(w) PROVE w[i] = v[i]
  BY <1>1, <1>2, <1>3
<1>6. w = v
  BY <1>4, <1>5, SameSeq
<1> QED
  BY <1>6 DEF u, v, w

\* Rows of one element each, and rows of none.
LEMMA FlattenSingles ==
  ASSUME NEW x, IsSeq(x), NEW t, IsSeq(t), Len(t) = Len(x),
         \A i \in 1 .. Len(x) : x[i] = <<t[i]>>
  PROVE  FlattenSeq(x) = t
<1>1. Len(x) \in Nat
  BY Elements
<1>2. CASE Len(x) = 0
  BY <1>1, <1>2, FlattenNone, SameSeq, Empty
<1>3. CASE Len(x) > 0
  <2>1. PICK f : SumsOf(x, f) /\ FlattenSeq(x) = f[Len(x)]
    BY <1>3, FlattenIs
  <2> DEFINE S == {n \in 1 .. Len(x) : f[n] = SubSeq(t, 1, n)}
  <2>2. t \in Seq(Range(t)) /\ \A n \in 1 .. Len(t) : t[n] \in Range(t)
    BY Elements DEF IsSeq
  <2>3. 1 \in S
    <3>1. 1 \in 1 .. Len(x) /\ f[1] = <<t[1]>>
      BY <1>1, <1>3, <2>1 DEF SumsOf
    <3>2. SubSeq(t, 1, 1) = <<t[1]>>
      <4>1. 1 \in 1 .. Len(t)
        BY <1>1, <1>3
      <4>2. Len(SubSeq(t, 1, 1)) = 1 /\ SubSeq(t, 1, 1)[1] = t[1] /\ IsSeq(SubSeq(t, 1, 1))
        BY <1>1, <1>3, <2>2, FirstPart
      <4> DEFINE u == SubSeq(t, 1, 1)
                 v == <<t[1]>>
      <4>3. IsSeq(v) /\ Len(v) = 1 /\ v[1] = t[1]
        BY Single
      <4> HIDE DEF u, v
      <4>4. IsSeq(u) /\ Len(u) = Len(v) /\ \A i \in 1 .. Len(u) : u[i] = v[i]
        BY <4>2, <4>3 DEF u
      <4>5. u = v
        BY <4>3, <4>4, SameSeq
      <4> QED
        BY <4>5 DEF u, v
    <3> QED
      BY <3>1, <3>2
  <2>4. ASSUME NEW m \in 1 .. Len(x), m < Len(x), m \in S PROVE m + 1 \in S
    <3>1. m + 1 \in 1 .. Len(x) /\ m + 1 # 1 /\ m + 1 - 1 = m
      BY <1>1, <2>4
    <3>4. f[m + 1] = f[m] \o x[m + 1]
      BY <1>1, <2>1, <2>4, SumsStep
    <3>2. f[m + 1] = f[m] \o <<t[m + 1]>> /\ f[m] = SubSeq(t, 1, m)
      BY <2>4, <3>1, <3>4
    <3>3. SubSeq(t, 1, m) \o <<t[m + 1]>> = SubSeq(t, 1, m + 1)
      <4>1. Len(t) \in Nat /\ m \in 1 .. Len(t) /\ m + 1 \in 1 .. Len(t)
        BY <1>1, <3>1
      <4> QED
        BY <4>1, FirstPartLonger
    <3> QED
      BY <3>1, <3>2, <3>3
  <2> HIDE DEF S
  <2>5. 1 .. Len(x) \subseteq S
    BY <1>1, <2>3, <2>4, UpTo
  <2>6. f[Len(x)] = SubSeq(t, 1, Len(t))
    BY <1>1, <1>3, <2>5 DEF S
  <2>7. SubSeq(t, 1, Len(t)) = t
    BY <2>2
  <2> QED
    BY <2>1, <2>6, <2>7
<1> QED
  BY <1>1, <1>2, <1>3

LEMMA FlattenEmpties ==
  ASSUME NEW x, IsSeq(x), \A i \in 1 .. Len(x) : x[i] = <<>>
  PROVE  FlattenSeq(x) = <<>>
<1>1. Len(x) \in Nat
  BY Elements
<1>2. CASE Len(x) = 0
  BY <1>2, FlattenNone
<1>3. CASE Len(x) > 0
  <2>1. PICK f : SumsOf(x, f) /\ FlattenSeq(x) = f[Len(x)]
    BY <1>3, FlattenIs
  <2> DEFINE S == {n \in 1 .. Len(x) : f[n] = <<>>}
  <2>3. 1 \in S
    BY <1>1, <1>3, <2>1 DEF SumsOf
  <2>4. ASSUME NEW m \in 1 .. Len(x), m < Len(x), m \in S PROVE m + 1 \in S
    <3>1. m + 1 \in 1 .. Len(x) /\ m + 1 # 1 /\ m + 1 - 1 = m
      BY <1>1, <2>4
    <3>4. f[m + 1] = f[m] \o x[m + 1]
      BY <1>1, <2>1, <2>4, SumsStep
    <3>2. f[m + 1] = f[m] \o x[m + 1] /\ f[m] = <<>> /\ x[m + 1] = <<>>
      BY <2>4, <3>1, <3>4
    <3>3. <<>> \o <<>> = <<>>
      OBVIOUS
    <3> QED
      BY <3>1, <3>2, <3>3
  <2> HIDE DEF S
  <2>5. 1 .. Len(x) \subseteq S
    BY <1>1, <2>3, <2>4, UpTo
  <2> QED
    BY <1>1, <1>3, <2>1, <2>5 DEF S
<1> QED
  BY <1>1, <1>2, <1>3

LEMMA FlattenElements ==
  ASSUME NEW x, Rows(x), NEW S, \A n \in 1 .. Len(x) : \A j \in 1 .. Len(x[n]) : x[n][j] \in S
  PROVE  \A i \in 1 .. Len(FlattenSeq(x)) : FlattenSeq(x)[i] \in S
<1>1. Len(x) \in Nat /\ IsSeq(x)
  BY Elements DEF Rows
<1>2. CASE Len(x) = 0
  BY <1>1, <1>2, FlattenNone, Empty
<1>3. CASE Len(x) > 0
  <2>1. PICK f : SumsOf(x, f) /\ FlattenSeq(x) = f[Len(x)]
    BY <1>1, <1>3, FlattenIs
  <2> DEFINE T == {n \in 1 .. Len(x) : \A i \in 1 .. Len(f[n]) : f[n][i] \in S}
  <2>2. 1 \in T
    <3>1. f[1] = x[1] /\ 1 \in 1 .. Len(x)
      BY <1>1, <1>3, <2>1, SumsFirst
    <3> QED
      BY <3>1
  <2>3. ASSUME NEW m \in 1 .. Len(x), m < Len(x), m \in T PROVE m + 1 \in T
    <3>8. f[m + 1] = f[m] \o x[m + 1]
      BY <1>1, <2>1, <2>3, SumsStep
    <3>1. m + 1 \in 1 .. Len(x) /\ f[m + 1] = f[m] \o x[m + 1]
      BY <1>1, <2>3, <3>8
    <3> DEFINE p == f[m]
               q == x[m + 1]
    <3>2. IsSeq(p) /\ IsSeq(q)
      BY <2>1, <3>1, SumsAre DEF Rows
    <3>3. \A i \in 1 .. Len(p) : p[i] \in S
      BY <2>3
    <3>4. \A i \in 1 .. Len(q) : q[i] \in S
      BY <3>1
    <3> HIDE DEF p, q
    <3>5. /\ Len(p) \in Nat /\ Len(q) \in Nat /\ Len(p \o q) = Len(p) + Len(q)
          /\ \A i \in 1 .. Len(p) : (p \o q)[i] = p[i]
          /\ \A j \in 1 .. Len(q) : (p \o q)[Len(p) + j] = q[j]
      BY <3>2, Joined
    <3>6. ASSUME NEW i \in 1 .. Len(p \o q) PROVE (p \o q)[i] \in S
      <4>1. CASE i <= Len(p)
        BY <3>3, <3>5, <4>1
      <4>2. CASE i > Len(p)
        <5> DEFINE j == i - Len(p)
        <5>1. j \in 1 .. Len(q) /\ i = Len(p) + j
          BY <3>5, <4>2
        <5> HIDE DEF j
        <5> QED
          BY <3>4, <3>5, <5>1
      <4> QED
        BY <3>5, <4>1, <4>2
    <3>7. f[m + 1] = p \o q
      BY <3>1 DEF p, q
    <3> QED
      BY <3>1, <3>6, <3>7
  <2> HIDE DEF T
  <2>4. 1 .. Len(x) \subseteq T
    BY <1>1, <2>2, <2>3, UpTo
  <2> QED
    BY <1>1, <1>3, <2>1, <2>4 DEF T
<1> QED
  BY <1>1, <1>2, <1>3

-----------------------------------------------------------------------------
(* The parts of a request.                                                  *)

IdOf(part, kind) == IF part.kind = kind THEN <<part.id>> ELSE <<>>

IdsOf(parts, kind) == FlattenSeq([j \in 1 .. Len(parts) |-> IdOf(parts[j], kind)])

PartsIn(r) == FlattenSeq([i \in 1 .. Len(r) |-> r[i].parts])

CallsOf(h) == FlattenSeq([i \in 1 .. Len(h) |-> h[i].calls])

IdRows(p, k) == [j \in 1 .. Len(p) |-> IdOf(p[j], k)]

LEMMA IdRowsAre ==
  ASSUME NEW p, IsSeq(p), NEW k
  PROVE  Rows(IdRows(p, k)) /\ Len(IdRows(p, k)) = Len(p)
<1> DEFINE x == IdRows(p, k)
<1>1. Len(p) \in Nat
  BY Elements
<1>2. x = [j \in 1 .. Len(p) |-> x[j]] /\ \A j \in 1 .. Len(p) : x[j] = IdOf(p[j], k)
  BY DEF IdRows
<1> HIDE DEF x
<1>3. IsSeq(x) /\ Len(x) = Len(p)
  BY <1>1, <1>2, BuiltUp
<1>4. ASSUME NEW j \in 1 .. Len(p) PROVE IsSeq(x[j])
  <2>1. CASE p[j].kind = k
    BY <1>2, <2>1, Single DEF IdOf
  <2>2. CASE p[j].kind # k
    BY <1>2, <2>2, Empty DEF IdOf
  <2> QED
    BY <2>1, <2>2
<1> QED
  BY <1>3, <1>4 DEF Rows, x

LEMMA IdsJoined ==
  ASSUME NEW p, NEW q, IsSeq(p), IsSeq(q), NEW k
  PROVE  /\ IdsOf(p \o q, k) = IdsOf(p, k) \o IdsOf(q, k)
         /\ IsSeq(IdsOf(p, k)) /\ IsSeq(IdsOf(q, k))
<1> DEFINE x == IdRows(p, k)
           y == IdRows(q, k)
           z == IdRows(p \o q, k)
<1>1. /\ IsSeq(p \o q) /\ Len(p) \in Nat /\ Len(q) \in Nat
      /\ Len(p \o q) = Len(p) + Len(q)
      /\ \A i \in 1 .. Len(p) : (p \o q)[i] = p[i]
      /\ \A j \in 1 .. Len(q) : (p \o q)[Len(p) + j] = q[j]
  BY Joined
<1>2. Rows(x) /\ Len(x) = Len(p)
  BY IdRowsAre
<1>3. Rows(y) /\ Len(y) = Len(q)
  BY IdRowsAre
<1>4. Rows(z) /\ Len(z) = Len(x) + Len(y)
  BY <1>1, <1>2, <1>3, IdRowsAre
<1>5. ASSUME NEW i \in 1 .. Len(x) PROVE z[i] = x[i]
  <2>1. i \in 1 .. Len(p) /\ i \in 1 .. Len(p \o q)
    BY <1>1, <1>2
  <2> QED
    BY <1>1, <2>1 DEF IdRows
<1>6. ASSUME NEW j \in 1 .. Len(y) PROVE z[Len(x) + j] = y[j]
  <2>1. j \in 1 .. Len(q) /\ Len(p) + j \in 1 .. Len(p \o q)
    BY <1>1, <1>3
  <2>2. (p \o q)[Len(p) + j] = q[j]
    BY <1>1, <2>1
  <2>3. z[Len(p) + j] = IdOf((p \o q)[Len(p) + j], k)
    BY <2>1 DEF IdRows
  <2>4. y[j] = IdOf(q[j], k)
    BY <2>1 DEF IdRows
  <2> QED
    BY <1>2, <2>2, <2>3, <2>4
<1>7. FlattenSeq(x) = IdsOf(p, k) /\ FlattenSeq(y) = IdsOf(q, k) /\ FlattenSeq(z) = IdsOf(p \o q, k)
  BY DEF IdsOf, IdRows
<1> HIDE DEF x, y, z
<1>8. IsSeq(z)
  BY <1>4 DEF Rows
<1>9. FlattenSeq(z) = FlattenSeq(x) \o FlattenSeq(y)
  BY <1>2, <1>3, <1>4, <1>5, <1>6, <1>8, FlattenSplit
<1>10. IsSeq(FlattenSeq(x)) /\ IsSeq(FlattenSeq(y))
  BY <1>2, <1>3, FlattenRows
<1> QED
  BY <1>7, <1>9, <1>10

\* What parts of one kind amount to.
LEMMA IdsOfKind ==
  ASSUME NEW p, IsSeq(p), NEW k, NEW ids, IsSeq(ids), Len(ids) = Len(p),
         \A j \in 1 .. Len(p) : p[j].kind = k /\ p[j].id = ids[j]
  PROVE  IdsOf(p, k) = ids
<1> DEFINE x == IdRows(p, k)
<1>1. Rows(x) /\ Len(x) = Len(p)
  BY IdRowsAre
<1>2. \A j \in 1 .. Len(p) : x[j] = <<ids[j]>>
  BY DEF IdRows, IdOf
<1>3. FlattenSeq(x) = IdsOf(p, k)
  BY DEF IdsOf, IdRows
<1> HIDE DEF x
<1>4. IsSeq(x) /\ Len(ids) = Len(x) /\ \A j \in 1 .. Len(x) : x[j] = <<ids[j]>>
  BY <1>1, <1>2 DEF Rows
<1>5. FlattenSeq(x) = ids
  BY <1>4, FlattenSingles
<1> QED
  BY <1>3, <1>5

LEMMA IdsOfOthers ==
  ASSUME NEW p, IsSeq(p), NEW k, \A j \in 1 .. Len(p) : p[j].kind # k
  PROVE  IdsOf(p, k) = <<>>
<1> DEFINE x == IdRows(p, k)
<1>1. Rows(x) /\ Len(x) = Len(p)
  BY IdRowsAre
<1>2. \A j \in 1 .. Len(p) : x[j] = <<>>
  BY DEF IdRows, IdOf
<1>3. FlattenSeq(x) = IdsOf(p, k)
  BY DEF IdsOf, IdRows
<1> HIDE DEF x
<1>4. IsSeq(x) /\ \A j \in 1 .. Len(x) : x[j] = <<>>
  BY <1>1, <1>2 DEF Rows
<1>5. FlattenSeq(x) = <<>>
  BY <1>4, FlattenEmpties
<1> QED
  BY <1>3, <1>5

-----------------------------------------------------------------------------
(* What each protocol makes of a message.                                   *)

Pairing == {"completions", "mistral", "responses", "bedrock", "radius"}

Messages(h) == IsSeq(h) /\ \A i \in 1 .. Len(h) : IsSeq(h[i].calls)

Renamed(parts) == [j \in 1 .. Len(parts) |-> [parts[j] EXCEPT !.id = NormalizeMistralToolID(@)]]

ConvertedParts(m) ==
  If(m.thinking, "thinking")
    \o (IF m.call # NoId THEN Part("result", m.call) ELSE If(m.text, "text"))
    \o If(m.image, "image") \o CallParts(m)

RadiusParts(m) ==
  If(m.thinking, "thinking") \o If(m.image, "image") \o CallParts(m)
    \o (IF m.call # NoId THEN Part("result", m.call) ELSE If(m.text, "text"))

CallItems(m) == [i \in 1 .. Len(m.calls) |-> [role |-> "item", parts |-> Part("call", m.calls[i])]]

ResponsesItems(m) ==
  CASE m.role = "system" -> <<[role |-> "system", parts |-> Part("text", NoId)]>>
    [] m.role = "tool" -> <<[role |-> "item", parts |-> Part("result", m.call)]>>
    [] OTHER -> <<[role  |-> IF m.role = "assistant" THEN "assistant" ELSE "user",
                   parts |-> If(m.text, "text") \o If(m.image, "image")]>>
                \o CallItems(m)

BedrockItems(m) ==
  IF m.role = "system" \/ BedrockMessageContent(m) = <<>> THEN <<>>
  ELSE <<[role  |-> IF m.role = "assistant" THEN "assistant" ELSE "user",
          parts |-> BedrockMessageContent(m)]>>

\* The parts of one message.
PartsOf(w, m) ==
  CASE w = "completions" -> ConvertedParts(m)
    [] w = "mistral" -> Renamed(ConvertedParts(m))
    [] w = "radius" -> RadiusParts(m)
    [] w \in {"responses", "codex"} -> PartsIn(ResponsesItems(m))
    [] w = "bedrock" -> PartsIn(BedrockItems(m))

AllParts(w, h) == FlattenSeq([i \in 1 .. Len(h) |-> PartsOf(w, h[i])])

LEMMA OnePart ==
  ASSUME NEW kind, NEW id
  PROVE  /\ IsSeq(Part(kind, id)) /\ Len(Part(kind, id)) = 1
         /\ Part(kind, id)[1].kind = kind /\ Part(kind, id)[1].id = id
<1> DEFINE part == [kind |-> kind, id |-> id]
<1>1. part.kind = kind /\ part.id = id
  OBVIOUS
<1> HIDE DEF part
<1>2. IsSeq(<<part>>) /\ Len(<<part>>) = 1 /\ <<part>>[1] = part
  BY Single
<1>3. Part(kind, id) = <<part>>
  BY DEF Part, part
<1> QED
  BY <1>1, <1>2, <1>3

LEMMA MaybePart ==
  ASSUME NEW present, NEW kind
  PROVE  /\ IsSeq(If(present, kind))
         /\ \A j \in 1 .. Len(If(present, kind)) : If(present, kind)[j].kind = kind
<1>1. CASE present
  <2>1. If(present, kind) = Part(kind, NoId)
    BY <1>1 DEF If
  <2>2. IsSeq(Part(kind, NoId)) /\ Len(Part(kind, NoId)) = 1 /\ Part(kind, NoId)[1].kind = kind
    BY OnePart
  <2> QED
    BY <2>1, <2>2
<1>2. CASE ~present
  <2>1. If(present, kind) = <<>>
    BY <1>2 DEF If
  <2> QED
    BY <2>1, Empty
<1> QED
  BY <1>1, <1>2

LEMMA CallPartsAre ==
  ASSUME NEW m, IsSeq(m.calls)
  PROVE  /\ IsSeq(CallParts(m)) /\ Len(CallParts(m)) = Len(m.calls)
         /\ \A j \in 1 .. Len(m.calls) : CallParts(m)[j] = [kind |-> "call", id |-> m.calls[j]]
<1> DEFINE p == CallParts(m)
           n == Len(m.calls)
<1>1. n \in Nat
  BY Elements
<1>2. p = [j \in 1 .. n |-> p[j]] /\ \A j \in 1 .. n : p[j] = [kind |-> "call", id |-> m.calls[j]]
  BY DEF CallParts
<1> HIDE DEF p, n
<1>3. IsSeq(p) /\ Len(p) = n
  BY <1>1, <1>2, BuiltUp
<1> QED
  BY <1>2, <1>3 DEF p, n

LEMMA ResultOrText ==
  ASSUME NEW m
  PROVE  IsSeq(IF m.call # NoId THEN Part("result", m.call) ELSE If(m.text, "text"))
  BY OnePart, MaybePart

LEMMA FourJoined ==
  ASSUME NEW p, NEW q, NEW r, NEW s, IsSeq(p), IsSeq(q), IsSeq(r), IsSeq(s)
  PROVE  IsSeq(p \o q \o r \o s)
<1>1. IsSeq(p \o q)
  BY Joined
<1> DEFINE t == p \o q
<1> HIDE DEF t
<1>2. IsSeq(t \o r)
  BY <1>1, Joined DEF t
<1> DEFINE u == t \o r
<1> HIDE DEF u
<1>3. IsSeq(u \o s)
  BY <1>2, Joined DEF u
<1> QED
  BY <1>3 DEF t, u

LEMMA ConvertedIsSeq ==
  ASSUME NEW m, IsSeq(m.calls)
  PROVE  IsSeq(ConvertedParts(m)) /\ IsSeq(RadiusParts(m)) /\ IsSeq(BedrockMessageContent(m))
<1> DEFINE p == If(m.thinking, "thinking")
           q == IF m.call # NoId THEN Part("result", m.call) ELSE If(m.text, "text")
           r == If(m.image, "image")
           s == CallParts(m)
           t == If(m.text, "text")
           u == Part("result", m.call)
<1>1. IsSeq(p) /\ IsSeq(q) /\ IsSeq(r) /\ IsSeq(s) /\ IsSeq(t) /\ IsSeq(u)
  BY MaybePart, OnePart, CallPartsAre, ResultOrText
<1>2. /\ ConvertedParts(m) = p \o q \o r \o s
      /\ RadiusParts(m) = p \o r \o s \o q
      /\ BedrockMessageContent(m) = IF m.call # NoId THEN u \o r ELSE p \o t \o r \o s
  BY DEF ConvertedParts, RadiusParts, BedrockMessageContent
<1> HIDE DEF p, q, r, s, t, u
<1>3. IsSeq(p \o q \o r \o s)
  BY <1>1, FourJoined
<1>4. IsSeq(p \o r \o s \o q)
  BY <1>1, FourJoined
<1>5. IsSeq(p \o t \o r \o s)
  BY <1>1, FourJoined
<1>6. IsSeq(u \o r)
  BY <1>1, Joined
<1> QED
  BY <1>2, <1>3, <1>4, <1>5, <1>6

LEMMA RenamedIsSeq ==
  ASSUME NEW p, IsSeq(p)
  PROVE  /\ IsSeq(Renamed(p)) /\ Len(Renamed(p)) = Len(p)
         /\ \A j \in 1 .. Len(p) : Renamed(p)[j] = [p[j] EXCEPT !.id = NormalizeMistralToolID(@)]
<1> DEFINE n == Len(p)
           r == Renamed(p)
<1>1. n \in Nat
  BY Elements
<1>2. r = [j \in 1 .. n |-> r[j]] /\ \A j \in 1 .. n : r[j] = [p[j] EXCEPT !.id = NormalizeMistralToolID(@)]
  BY DEF Renamed
<1> HIDE DEF n, r
<1>3. IsSeq(r) /\ Len(r) = n
  BY <1>1, <1>2, BuiltUp
<1> QED
  BY <1>2, <1>3 DEF n, r

\* Requests whose every entry has a row of parts.
Entries(r) == IsSeq(r) /\ \A i \in 1 .. Len(r) : IsSeq(r[i].parts)

PartRows(r) == [i \in 1 .. Len(r) |-> r[i].parts]

LEMMA PartRowsAre ==
  ASSUME NEW r, Entries(r)
  PROVE  /\ Rows(PartRows(r)) /\ Len(PartRows(r)) = Len(r)
         /\ PartsIn(r) = FlattenSeq(PartRows(r)) /\ IsSeq(PartsIn(r))
<1> DEFINE x == PartRows(r)
           n == Len(r)
<1>1. n \in Nat
  BY Elements DEF Entries
<1>2. x = [j \in 1 .. n |-> x[j]] /\ \A j \in 1 .. n : x[j] = r[j].parts
  BY DEF PartRows
<1>3. PartsIn(r) = FlattenSeq(x)
  BY DEF PartsIn, PartRows
<1> HIDE DEF x
<1>4. IsSeq(x) /\ Len(x) = n
  <2> HIDE DEF n
  <2> QED
    BY <1>1, <1>2, BuiltUp
<1>5. Rows(x)
  BY <1>2, <1>4 DEF Rows, Entries
<1>6. IsSeq(FlattenSeq(x))
  BY <1>5, FlattenRows
<1> QED
  BY <1>3, <1>4, <1>5, <1>6 DEF x

LEMMA PartsInJoined ==
  ASSUME NEW p, NEW q, Entries(p), Entries(q)
  PROVE  Entries(p \o q) /\ PartsIn(p \o q) = PartsIn(p) \o PartsIn(q)
<1>p. IsSeq(p) /\ IsSeq(q)
  BY DEF Entries
<1>1. /\ IsSeq(p \o q) /\ Len(p) \in Nat /\ Len(q) \in Nat
      /\ Len(p \o q) = Len(p) + Len(q)
      /\ \A i \in 1 .. Len(p) : (p \o q)[i] = p[i]
      /\ \A j \in 1 .. Len(q) : (p \o q)[Len(p) + j] = q[j]
  BY <1>p, Joined
<1> DEFINE r == p \o q
<1> HIDE DEF r
<1>2. Entries(r)
  <2>1. ASSUME NEW i \in 1 .. Len(r) PROVE IsSeq(r[i].parts)
    <3>1. CASE i <= Len(p)
      BY <1>1, <3>1 DEF r, Entries
    <3>2. CASE i > Len(p)
      <4> DEFINE j == i - Len(p)
      <4>1. j \in 1 .. Len(q) /\ i = Len(p) + j
        BY <1>1, <3>2 DEF r
      <4> HIDE DEF j
      <4>2. r[i] = q[j]
        BY <1>1, <4>1 DEF r
      <4> QED
        BY <4>1, <4>2 DEF Entries
    <3> QED
      BY <1>1, <3>1, <3>2 DEF r
  <2> QED
    BY <1>1, <2>1 DEF Entries, r
<1> DEFINE x == PartRows(p)
           y == PartRows(q)
           z == PartRows(r)
<1>3. Rows(x) /\ Len(x) = Len(p) /\ PartsIn(p) = FlattenSeq(x)
  BY PartRowsAre
<1>4. Rows(y) /\ Len(y) = Len(q) /\ PartsIn(q) = FlattenSeq(y)
  BY PartRowsAre
<1>5. IsSeq(z) /\ Len(z) = Len(r) /\ PartsIn(r) = FlattenSeq(z)
  BY <1>2, PartRowsAre DEF Rows
<1>6. ASSUME NEW i \in 1 .. Len(x) PROVE z[i] = x[i]
  BY <1>1, <1>3 DEF PartRows, r
<1>7. ASSUME NEW j \in 1 .. Len(y) PROVE z[Len(x) + j] = y[j]
  <2>1. j \in 1 .. Len(q) /\ Len(p) + j \in 1 .. Len(r)
    BY <1>1, <1>4 DEF r
  <2>2. r[Len(p) + j] = q[j]
    BY <1>1, <2>1 DEF r
  <2>3. z[Len(p) + j] = r[Len(p) + j].parts
    BY <2>1 DEF PartRows
  <2>4. y[j] = q[j].parts
    BY <2>1 DEF PartRows
  <2> QED
    BY <1>3, <2>2, <2>3, <2>4
<1> HIDE DEF x, y, z
<1>8. Len(z) = Len(x) + Len(y) /\ IsSeq(z)
  BY <1>1, <1>3, <1>4, <1>5 DEF r
<1>9. FlattenSeq(z) = FlattenSeq(x) \o FlattenSeq(y)
  BY <1>3, <1>4, <1>6, <1>7, <1>8, FlattenSplit
<1>10. PartsIn(r) = PartsIn(p) \o PartsIn(q)
  BY <1>3, <1>4, <1>5, <1>9
<1> QED
  BY <1>2, <1>10 DEF r

LEMMA OneEntry ==
  ASSUME NEW role, NEW parts, IsSeq(parts)
  PROVE  /\ Entries(<<[role |-> role, parts |-> parts]>>)
         /\ PartsIn(<<[role |-> role, parts |-> parts]>>) = parts
<1> DEFINE e == [role |-> role, parts |-> parts]
           r == <<e>>
           x == PartRows(r)
<1>1. e.parts = parts
  OBVIOUS
<1> HIDE DEF e
<1>2. IsSeq(r) /\ Len(r) = 1 /\ r[1] = e
  BY Single
<1> HIDE DEF r
<1>3. Entries(r)
  BY <1>1, <1>2 DEF Entries
<1>4. Rows(x) /\ Len(x) = 1 /\ PartsIn(r) = FlattenSeq(x)
  BY <1>2, <1>3, PartRowsAre
<1>5. x[1] = parts
  BY <1>1, <1>2 DEF PartRows
<1> HIDE DEF x
<1>6. IsSeq(<<parts>>) /\ Len(<<parts>>) = 1 /\ <<parts>>[1] = parts
  BY Single
<1>7. x = <<parts>>
  <2> DEFINE y == <<parts>>
  <2> HIDE DEF y
  <2>1. IsSeq(x) /\ IsSeq(y) /\ Len(x) = Len(y) /\ \A i \in 1 .. Len(x) : x[i] = y[i]
    BY <1>4, <1>5, <1>6 DEF Rows, y
  <2>2. x = y
    BY <2>1, SameSeq
  <2> QED
    BY <2>2 DEF y
<1>8. FlattenSeq(<<parts>>) = parts
  BY FlattenOne
<1> QED
  BY <1>3, <1>4, <1>7, <1>8 DEF r, e

LEMMA NoEntry == Entries(<<>>) /\ PartsIn(<<>>) = <<>>
<1>1. Entries(<<>>)
  BY Empty DEF Entries
<1> DEFINE x == PartRows(<<>>)
<1>2. Rows(x) /\ Len(x) = 0 /\ PartsIn(<<>>) = FlattenSeq(x)
  BY <1>1, Empty, PartRowsAre
<1> HIDE DEF x
<1>3. FlattenSeq(x) = <<>>
  BY <1>2, FlattenNone DEF Rows
<1> QED
  BY <1>1, <1>2, <1>3

\* The calls of a message as entries of their own.
LEMMA CallItemsAre ==
  ASSUME NEW m, IsSeq(m.calls)
  PROVE  Entries(CallItems(m)) /\ PartsIn(CallItems(m)) = CallParts(m)
<1> DEFINE n == Len(m.calls)
           r == CallItems(m)
           x == PartRows(r)
           p == CallParts(m)
<1>1. n \in Nat
  BY Elements
<1>2. r = [j \in 1 .. n |-> r[j]]
  BY DEF CallItems
<1>3. \A j \in 1 .. n : r[j].parts = Part("call", m.calls[j])
  BY DEF CallItems
<1> HIDE DEF r, n
<1>4. IsSeq(r) /\ Len(r) = n
  BY <1>1, <1>2, BuiltUp
<1>5. Entries(r)
  BY <1>3, <1>4, OnePart DEF Entries
<1>6. Rows(x) /\ Len(x) = n /\ PartsIn(r) = FlattenSeq(x)
  BY <1>4, <1>5, PartRowsAre
<1>7. IsSeq(p) /\ Len(p) = n /\ \A j \in 1 .. n : p[j] = [kind |-> "call", id |-> m.calls[j]]
  BY CallPartsAre DEF n
<1>8. \A j \in 1 .. n : x[j] = Part("call", m.calls[j])
  BY <1>3, <1>4 DEF PartRows
<1> HIDE DEF x, p
<1>9. \A j \in 1 .. Len(x) : x[j] = <<p[j]>>
  BY <1>6, <1>7, <1>8 DEF Part
<1>10. FlattenSeq(x) = p
  BY <1>6, <1>7, <1>9, FlattenSingles DEF Rows
<1> QED
  BY <1>5, <1>6, <1>10 DEF r, p

LEMMA ResponsesItemsAre ==
  ASSUME NEW m, IsSeq(m.calls)
  PROVE  Entries(ResponsesItems(m))
<1>1. CASE m.role = "system"
  <2>1. ResponsesItems(m) = <<[role |-> "system", parts |-> Part("text", NoId)]>>
    BY <1>1 DEF ResponsesItems
  <2> QED
    BY <2>1, OnePart, OneEntry
<1>2. CASE m.role # "system" /\ m.role = "tool"
  <2>1. ResponsesItems(m) = <<[role |-> "item", parts |-> Part("result", m.call)]>>
    BY <1>2 DEF ResponsesItems
  <2> QED
    BY <2>1, OnePart, OneEntry
<1>3. CASE m.role # "system" /\ m.role # "tool"
  <2> DEFINE role == IF m.role = "assistant" THEN "assistant" ELSE "user"
             parts == If(m.text, "text") \o If(m.image, "image")
             said == <<[role |-> role, parts |-> parts]>>
  <2>1. ResponsesItems(m) = said \o CallItems(m)
    BY <1>3 DEF ResponsesItems
  <2>2. IsSeq(parts)
    BY MaybePart, Joined
  <2> HIDE DEF parts, role
  <2>3. Entries(said)
    BY <2>2, OneEntry
  <2> HIDE DEF said
  <2>4. Entries(said \o CallItems(m))
    BY <2>3, CallItemsAre, PartsInJoined
  <2> QED
    BY <2>1, <2>4
<1> QED
  BY <1>1, <1>2, <1>3

LEMMA BedrockItemsAre ==
  ASSUME NEW m, IsSeq(m.calls)
  PROVE  Entries(BedrockItems(m))
<1>1. CASE m.role = "system" \/ BedrockMessageContent(m) = <<>>
  BY <1>1, NoEntry DEF BedrockItems
<1>2. CASE ~(m.role = "system" \/ BedrockMessageContent(m) = <<>>)
  <2> DEFINE role == IF m.role = "assistant" THEN "assistant" ELSE "user"
  <2>1. BedrockItems(m) = <<[role |-> role, parts |-> BedrockMessageContent(m)]>>
    BY <1>2 DEF BedrockItems
  <2>2. IsSeq(BedrockMessageContent(m))
    BY ConvertedIsSeq
  <2> HIDE DEF role
  <2> QED
    BY <2>1, <2>2, OneEntry
<1> QED
  BY <1>1, <1>2

LEMMA PartsOfIsSeq ==
  ASSUME NEW w \in Pairing \cup {"codex"}, NEW m, IsSeq(m.calls)
  PROVE  IsSeq(PartsOf(w, m))
<1>1. CASE w = "completions"
  BY <1>1, ConvertedIsSeq DEF PartsOf
<1>2. CASE w = "mistral"
  <2>1. PartsOf(w, m) = Renamed(ConvertedParts(m))
    BY <1>2 DEF PartsOf
  <2> QED
    BY <2>1, ConvertedIsSeq, RenamedIsSeq
<1>3. CASE w = "radius"
  BY <1>3, ConvertedIsSeq DEF PartsOf
<1>4. CASE w \in {"responses", "codex"}
  <2>1. PartsOf(w, m) = PartsIn(ResponsesItems(m))
    BY <1>4 DEF PartsOf
  <2> QED
    BY <2>1, ResponsesItemsAre, PartRowsAre
<1>5. CASE w = "bedrock"
  <2>1. PartsOf(w, m) = PartsIn(BedrockItems(m))
    BY <1>5 DEF PartsOf
  <2> QED
    BY <2>1, BedrockItemsAre, PartRowsAre
<1> QED
  BY <1>1, <1>2, <1>3, <1>4, <1>5 DEF Pairing

MessageRows(w, h) == [i \in 1 .. Len(h) |-> PartsOf(w, h[i])]

LEMMA MessageRowsAre ==
  ASSUME NEW w \in Pairing \cup {"codex"}, NEW h, Messages(h)
  PROVE  /\ Rows(MessageRows(w, h)) /\ Len(MessageRows(w, h)) = Len(h)
         /\ AllParts(w, h) = FlattenSeq(MessageRows(w, h)) /\ IsSeq(AllParts(w, h))
<1> DEFINE x == MessageRows(w, h)
           n == Len(h)
<1>1. n \in Nat
  BY Elements DEF Messages
<1>2. x = [j \in 1 .. n |-> x[j]] /\ \A j \in 1 .. n : x[j] = PartsOf(w, h[j])
  BY DEF MessageRows
<1>3. AllParts(w, h) = FlattenSeq(x)
  BY DEF AllParts, MessageRows
<1>7. \A j \in 1 .. n : IsSeq(h[j].calls)
  BY DEF Messages
<1> HIDE DEF x, n
<1>4. IsSeq(x) /\ Len(x) = n
  BY <1>1, <1>2, BuiltUp
<1>5. Rows(x)
  <2>1. ASSUME NEW j \in 1 .. n PROVE IsSeq(x[j])
    BY <1>2, <1>7, PartsOfIsSeq
  <2> QED
    BY <1>4, <2>1 DEF Rows
<1>6. IsSeq(FlattenSeq(x))
  BY <1>5, FlattenRows
<1> QED
  BY <1>3, <1>4, <1>5, <1>6 DEF x, n

LEMMA MessagesJoined ==
  ASSUME NEW h, NEW g, Messages(h), Messages(g)
  PROVE  /\ Messages(h \o g) /\ IsSeq(h \o g)
         /\ Len(h) \in Nat /\ Len(g) \in Nat /\ Len(h \o g) = Len(h) + Len(g)
         /\ \A i \in 1 .. Len(h) : (h \o g)[i] = h[i]
         /\ \A j \in 1 .. Len(g) : (h \o g)[Len(h) + j] = g[j]
<1>p. IsSeq(h) /\ IsSeq(g)
  BY DEF Messages
<1>1. /\ IsSeq(h \o g) /\ Len(h) \in Nat /\ Len(g) \in Nat
      /\ Len(h \o g) = Len(h) + Len(g)
      /\ \A i \in 1 .. Len(h) : (h \o g)[i] = h[i]
      /\ \A j \in 1 .. Len(g) : (h \o g)[Len(h) + j] = g[j]
  BY <1>p, Joined
<1> DEFINE r == h \o g
<1> HIDE DEF r
<1>2. Messages(r)
  <2>1. ASSUME NEW i \in 1 .. Len(r) PROVE IsSeq(r[i].calls)
    <3>1. CASE i <= Len(h)
      BY <1>1, <3>1 DEF r, Messages
    <3>2. CASE i > Len(h)
      <4> DEFINE j == i - Len(h)
      <4>1. j \in 1 .. Len(g) /\ i = Len(h) + j
        BY <1>1, <3>2 DEF r
      <4> HIDE DEF j
      <4>2. r[i] = g[j]
        BY <1>1, <4>1 DEF r
      <4> QED
        BY <4>1, <4>2 DEF Messages
    <3> QED
      BY <1>1, <3>1, <3>2 DEF r
  <2> QED
    BY <1>1, <2>1 DEF Messages, r
<1> QED
  BY <1>1, <1>2 DEF r

\* A longer history adds its parts and its calls at the end.
LEMMA AllPartsJoined ==
  ASSUME NEW w \in Pairing \cup {"codex"}, NEW h, NEW g, Messages(h), Messages(g)
  PROVE  AllParts(w, h \o g) = AllParts(w, h) \o AllParts(w, g)
<1> DEFINE r == h \o g
<1>1. /\ Messages(r) /\ Len(h) \in Nat /\ Len(g) \in Nat /\ Len(r) = Len(h) + Len(g)
      /\ \A i \in 1 .. Len(h) : r[i] = h[i]
      /\ \A j \in 1 .. Len(g) : r[Len(h) + j] = g[j]
  BY MessagesJoined
<1> HIDE DEF r
<1> DEFINE x == MessageRows(w, h)
           y == MessageRows(w, g)
           z == MessageRows(w, r)
<1>3. Rows(x) /\ Len(x) = Len(h) /\ AllParts(w, h) = FlattenSeq(x)
  BY MessageRowsAre
<1>4. Rows(y) /\ Len(y) = Len(g) /\ AllParts(w, g) = FlattenSeq(y)
  BY MessageRowsAre
<1>5. IsSeq(z) /\ Len(z) = Len(r) /\ AllParts(w, r) = FlattenSeq(z)
  BY <1>1, MessageRowsAre DEF Rows
<1>6. ASSUME NEW i \in 1 .. Len(x) PROVE z[i] = x[i]
  BY <1>1, <1>3 DEF MessageRows
<1>7. ASSUME NEW j \in 1 .. Len(y) PROVE z[Len(x) + j] = y[j]
  <2>1. j \in 1 .. Len(g) /\ Len(h) + j \in 1 .. Len(r)
    BY <1>1, <1>4
  <2>2. r[Len(h) + j] = g[j]
    BY <1>1, <2>1
  <2>3. z[Len(h) + j] = PartsOf(w, r[Len(h) + j])
    BY <2>1 DEF MessageRows
  <2>4. y[j] = PartsOf(w, g[j])
    BY <2>1 DEF MessageRows
  <2> QED
    BY <1>3, <2>2, <2>3, <2>4
<1> HIDE DEF x, y, z
<1>8. Len(z) = Len(x) + Len(y) /\ IsSeq(z)
  BY <1>1, <1>3, <1>4, <1>5
<1>9. FlattenSeq(z) = FlattenSeq(x) \o FlattenSeq(y)
  BY <1>3, <1>4, <1>6, <1>7, <1>8, FlattenSplit
<1> QED
  BY <1>3, <1>4, <1>5, <1>9 DEF r

CallRows(h) == [i \in 1 .. Len(h) |-> h[i].calls]

LEMMA CallRowsAre ==
  ASSUME NEW h, Messages(h)
  PROVE  /\ Rows(CallRows(h)) /\ Len(CallRows(h)) = Len(h)
         /\ CallsOf(h) = FlattenSeq(CallRows(h)) /\ IsSeq(CallsOf(h))
<1> DEFINE x == CallRows(h)
           n == Len(h)
<1>1. n \in Nat
  BY Elements DEF Messages
<1>2. x = [j \in 1 .. n |-> x[j]] /\ \A j \in 1 .. n : x[j] = h[j].calls
  BY DEF CallRows
<1>3. CallsOf(h) = FlattenSeq(x)
  BY DEF CallsOf, CallRows
<1> HIDE DEF x
<1>4. IsSeq(x) /\ Len(x) = n
  <2> HIDE DEF n
  <2> QED
    BY <1>1, <1>2, BuiltUp
<1>5. Rows(x)
  BY <1>2, <1>4 DEF Rows, Messages
<1>6. IsSeq(FlattenSeq(x))
  BY <1>5, FlattenRows
<1> QED
  BY <1>3, <1>4, <1>5, <1>6 DEF x

LEMMA CallsJoined ==
  ASSUME NEW h, NEW g, Messages(h), Messages(g)
  PROVE  CallsOf(h \o g) = CallsOf(h) \o CallsOf(g)
<1> DEFINE r == h \o g
<1>1. /\ Messages(r) /\ Len(h) \in Nat /\ Len(g) \in Nat /\ Len(r) = Len(h) + Len(g)
      /\ \A i \in 1 .. Len(h) : r[i] = h[i]
      /\ \A j \in 1 .. Len(g) : r[Len(h) + j] = g[j]
  BY MessagesJoined
<1> HIDE DEF r
<1> DEFINE x == CallRows(h)
           y == CallRows(g)
           z == CallRows(r)
<1>3. Rows(x) /\ Len(x) = Len(h) /\ CallsOf(h) = FlattenSeq(x)
  BY CallRowsAre
<1>4. Rows(y) /\ Len(y) = Len(g) /\ CallsOf(g) = FlattenSeq(y)
  BY CallRowsAre
<1>5. IsSeq(z) /\ Len(z) = Len(r) /\ CallsOf(r) = FlattenSeq(z)
  BY <1>1, CallRowsAre DEF Rows
<1>6. ASSUME NEW i \in 1 .. Len(x) PROVE z[i] = x[i]
  BY <1>1, <1>3 DEF CallRows
<1>7. ASSUME NEW j \in 1 .. Len(y) PROVE z[Len(x) + j] = y[j]
  <2>1. j \in 1 .. Len(g) /\ Len(h) + j \in 1 .. Len(r)
    BY <1>1, <1>4
  <2>2. r[Len(h) + j] = g[j]
    BY <1>1, <2>1
  <2>3. z[Len(h) + j] = r[Len(h) + j].calls
    BY <2>1 DEF CallRows
  <2>4. y[j] = g[j].calls
    BY <2>1 DEF CallRows
  <2> QED
    BY <1>3, <2>2, <2>3, <2>4
<1> HIDE DEF x, y, z
<1>8. Len(z) = Len(x) + Len(y) /\ IsSeq(z)
  BY <1>1, <1>3, <1>4, <1>5
<1>9. FlattenSeq(z) = FlattenSeq(x) \o FlattenSeq(y)
  BY <1>3, <1>4, <1>6, <1>7, <1>8, FlattenSplit
<1> QED
  BY <1>3, <1>4, <1>5, <1>9 DEF r

\* The parts of entries that come in rows.
LEMMA PartsInFlatten ==
  ASSUME NEW x, IsSeq(x), \A n \in 1 .. Len(x) : Entries(x[n]),
         NEW y, IsSeq(y), Len(y) = Len(x), \A n \in 1 .. Len(x) : y[n] = PartsIn(x[n])
  PROVE  PartsIn(FlattenSeq(x)) = FlattenSeq(y)
<1>1. Len(x) \in Nat
  BY Elements
<1>2. CASE Len(x) = 0
  BY <1>1, <1>2, FlattenNone, NoEntry
<1>3. CASE Len(x) > 0
  <2>1. PICK f : SumsOf(x, f) /\ FlattenSeq(x) = f[Len(x)]
    BY <1>3, FlattenIs
  <2>2. PICK g : SumsOf(y, g) /\ FlattenSeq(y) = g[Len(y)]
    BY <1>3, FlattenIs
  <2> DEFINE T == {n \in 1 .. Len(x) : Entries(f[n]) /\ PartsIn(f[n]) = g[n]}
  <2>3. 1 \in T
    <3>1. f[1] = x[1] /\ g[1] = y[1] /\ 1 \in 1 .. Len(x)
      BY <1>1, <1>3, <2>1, <2>2, SumsFirst
    <3> QED
      BY <3>1
  <2>4. ASSUME NEW m \in 1 .. Len(x), m < Len(x), m \in T PROVE m + 1 \in T
    <3>1. f[m + 1] = f[m] \o x[m + 1]
      BY <1>1, <2>1, <2>4, SumsStep
    <3>2. g[m + 1] = g[m] \o y[m + 1]
      BY <1>1, <2>2, <2>4, SumsStep
    <3>3. m + 1 \in 1 .. Len(x)
      BY <1>1, <2>4
    <3> DEFINE p == f[m]
               q == x[m + 1]
    <3>4. Entries(p) /\ Entries(q) /\ PartsIn(p) = g[m] /\ PartsIn(q) = y[m + 1]
      BY <2>4, <3>3
    <3> HIDE DEF p, q
    <3>5. Entries(p \o q) /\ PartsIn(p \o q) = PartsIn(p) \o PartsIn(q)
      BY <3>4, PartsInJoined
    <3>6. f[m + 1] = p \o q
      BY <3>1 DEF p, q
    <3> QED
      BY <3>2, <3>3, <3>4, <3>5, <3>6
  <2> HIDE DEF T
  <2>5. 1 .. Len(x) \subseteq T
    BY <1>1, <2>3, <2>4, UpTo
  <2> QED
    BY <1>1, <1>3, <2>1, <2>2, <2>5 DEF T
<1> QED
  BY <1>1, <1>2, <1>3

\* A request with an entry for each message.
LEMMA EntryEach ==
  ASSUME NEW w \in Pairing, NEW h, Messages(h), NEW r, r = [i \in 1 .. Len(h) |-> r[i]],
         \A i \in 1 .. Len(h) : r[i].parts = PartsOf(w, h[i])
  PROVE  PartsIn(r) = AllParts(w, h)
<1> DEFINE n == Len(h)
<1>1. n \in Nat
  BY Elements DEF Messages
<1>2. IsSeq(r) /\ Len(r) = n
  <2> HIDE DEF n
  <2> QED
    BY <1>1, BuiltUp DEF n
<1>3. PartRows(r) = MessageRows(w, h)
  BY <1>2 DEF PartRows, MessageRows
<1> QED
  BY <1>3 DEF PartsIn, PartRows, AllParts, MessageRows

\* A request with some entries for each message.
LEMMA EntriesEach ==
  ASSUME NEW w \in Pairing \cup {"codex"}, NEW h, Messages(h), NEW x, x = [i \in 1 .. Len(h) |-> x[i]],
         \A i \in 1 .. Len(h) : Entries(x[i]) /\ PartsIn(x[i]) = PartsOf(w, h[i])
  PROVE  PartsIn(FlattenSeq(x)) = AllParts(w, h)
<1> DEFINE n == Len(h)
           y == MessageRows(w, h)
<1>1. n \in Nat
  BY Elements DEF Messages
<1>2. IsSeq(x) /\ Len(x) = n
  <2> HIDE DEF n
  <2> QED
    BY <1>1, BuiltUp DEF n
<1>3. Rows(y) /\ Len(y) = n /\ AllParts(w, h) = FlattenSeq(y)
  BY MessageRowsAre
<1>4. \A i \in 1 .. n : y[i] = PartsIn(x[i])
  BY DEF MessageRows
<1> HIDE DEF y
<1>5. IsSeq(y) /\ Len(y) = Len(x) /\ \A i \in 1 .. Len(x) : y[i] = PartsIn(x[i])
  BY <1>2, <1>3, <1>4 DEF Rows
<1>6. PartsIn(FlattenSeq(x)) = FlattenSeq(y)
  BY <1>2, <1>5, PartsInFlatten
<1> QED
  BY <1>3, <1>6

LEMMA ResponsesInputIs ==
  ASSUME NEW w \in {"responses", "codex"}, NEW h, Messages(h)
  PROVE  PartsIn(ResponsesInput(h)) = AllParts(w, h)
<1> DEFINE x == [i \in 1 .. Len(h) |-> ResponsesItems(h[i])]
<1>1. ResponsesInput(h) = FlattenSeq(x)
  BY DEF ResponsesInput, ResponsesItems, CallItems
<1>2. x = [i \in 1 .. Len(h) |-> x[i]]
  OBVIOUS
<1>3. \A i \in 1 .. Len(h) : x[i] = ResponsesItems(h[i])
  OBVIOUS
<1> HIDE DEF x
<1>4. ASSUME NEW i \in 1 .. Len(h) PROVE Entries(x[i]) /\ PartsIn(x[i]) = PartsOf(w, h[i])
  <2>1. IsSeq(h[i].calls)
    BY DEF Messages
  <2>2. PartsOf(w, h[i]) = PartsIn(ResponsesItems(h[i]))
    BY DEF PartsOf
  <2> QED
    BY <1>3, <2>1, <2>2, ResponsesItemsAre
<1>5. w \in Pairing \cup {"codex"}
  BY DEF Pairing
<1>6. PartsIn(FlattenSeq(x)) = AllParts(w, h)
  BY <1>2, <1>4, <1>5, EntriesEach
<1> QED
  BY <1>1, <1>6

LEMMA RequestIs ==
  ASSUME NEW w \in Pairing, NEW h, Messages(h)
  PROVE  PartsIn(Request(w, h)) = AllParts(w, h)
<1>1. CASE w = "completions"
  <2> DEFINE r == ConvertMessages(h)
  <2>1. r = [i \in 1 .. Len(h) |-> r[i]]
    BY DEF ConvertMessages
  <2>2. ASSUME NEW i \in 1 .. Len(h) PROVE r[i].parts = PartsOf(w, h[i])
    BY <1>1 DEF ConvertMessages, ConvertedParts, PartsOf
  <2> HIDE DEF r
  <2>3. PartsIn(r) = AllParts(w, h)
    BY <2>1, <2>2, EntryEach
  <2> QED
    BY <1>1, <2>3 DEF Request, r
<1>2. CASE w = "mistral"
  <2> DEFINE r == ConvertMistralMessages(h)
  <2>1. r = [i \in 1 .. Len(h) |-> r[i]]
    BY DEF ConvertMistralMessages
  <2>2. ASSUME NEW i \in 1 .. Len(h) PROVE r[i].parts = PartsOf(w, h[i])
    <3> DEFINE m == ConvertMessages(h)[i]
    <3>1. r[i] = [m EXCEPT !.parts = Renamed(m.parts)]
      BY DEF ConvertMistralMessages, Renamed
    <3>2. m = [role |-> h[i].role, parts |-> ConvertedParts(h[i])]
      BY DEF ConvertMessages, ConvertedParts
    <3>3. \A o, p, q : [[role |-> o, parts |-> p] EXCEPT !.parts = q].parts = q
      OBVIOUS
    <3>5. m.parts = ConvertedParts(h[i])
      BY <3>2
    <3> HIDE DEF m, r
    <3>4. r[i].parts = Renamed(ConvertedParts(h[i]))
      BY <3>1, <3>2, <3>3, <3>5, Zenon
    <3> QED
      BY <1>2, <3>4 DEF PartsOf
  <2> HIDE DEF r
  <2>3. PartsIn(r) = AllParts(w, h)
    BY <2>1, <2>2, EntryEach
  <2> QED
    BY <1>2, <2>3 DEF Request, r
<1>3. CASE w = "radius"
  <2> DEFINE r == RadiusMessages(h)
  <2>1. r = [i \in 1 .. Len(h) |-> r[i]]
    BY DEF RadiusMessages
  <2>2. ASSUME NEW i \in 1 .. Len(h) PROVE r[i].parts = PartsOf(w, h[i])
    BY <1>3 DEF RadiusMessages, RadiusParts, PartsOf
  <2> HIDE DEF r
  <2>3. PartsIn(r) = AllParts(w, h)
    BY <2>1, <2>2, EntryEach
  <2> QED
    BY <1>3, <2>3 DEF Request, r
<1>4. CASE w = "responses"
  <2>1. Request(w, h) = ResponsesInput(h)
    BY <1>4 DEF Request
  <2>2. PartsIn(ResponsesInput(h)) = AllParts(w, h)
    BY <1>4, ResponsesInputIs
  <2> QED
    BY <2>1, <2>2
<1>5. CASE w = "bedrock"
  <2> DEFINE x == [i \in 1 .. Len(h) |-> BedrockItems(h[i])]
  <2>1. BedrockInput(h) = FlattenSeq(x)
    BY DEF BedrockInput, BedrockItems
  <2>2. x = [i \in 1 .. Len(h) |-> x[i]]
    OBVIOUS
  <2>3. \A i \in 1 .. Len(h) : x[i] = BedrockItems(h[i])
    OBVIOUS
  <2> HIDE DEF x
  <2>4. ASSUME NEW i \in 1 .. Len(h) PROVE Entries(x[i]) /\ PartsIn(x[i]) = PartsOf(w, h[i])
    <3>1. IsSeq(h[i].calls)
      BY DEF Messages
    <3>2. PartsOf(w, h[i]) = PartsIn(BedrockItems(h[i]))
      BY <1>5 DEF PartsOf
    <3> QED
      BY <2>3, <3>1, <3>2, BedrockItemsAre
  <2>5. PartsIn(FlattenSeq(x)) = AllParts(w, h)
    BY <2>2, <2>4, EntriesEach
  <2> QED
    BY <1>5, <2>1, <2>5 DEF Request
<1> QED
  BY <1>1, <1>2, <1>3, <1>4, <1>5 DEF Pairing

-----------------------------------------------------------------------------
(* The ids of a message's parts.                                            *)

SentIds(w, ids) ==
  IF w = "mistral" THEN [i \in 1 .. Len(ids) |-> NormalizeMistralToolID(ids[i])] ELSE ids

Has(p, k) == \E j \in 1 .. Len(p) : p[j].kind = k

Plain(p) == IsSeq(p) /\ \A j \in 1 .. Len(p) : p[j] = [kind |-> p[j].kind, id |-> p[j].id]

LEMMA HasJoined ==
  ASSUME NEW p, NEW q, IsSeq(p), IsSeq(q), NEW k, Has(p, k) \/ Has(q, k)
  PROVE  Has(p \o q, k)
<1>1. /\ Len(p) \in Nat /\ Len(q) \in Nat /\ Len(p \o q) = Len(p) + Len(q)
      /\ \A i \in 1 .. Len(p) : (p \o q)[i] = p[i]
      /\ \A j \in 1 .. Len(q) : (p \o q)[Len(p) + j] = q[j]
  BY Joined
<1>2. CASE Has(p, k)
  <2>1. PICK j \in 1 .. Len(p) : p[j].kind = k
    BY <1>2 DEF Has
  <2>2. j \in 1 .. Len(p \o q) /\ (p \o q)[j].kind = k
    BY <1>1, <2>1
  <2> QED
    BY <2>2 DEF Has
<1>3. CASE Has(q, k)
  <2>1. PICK j \in 1 .. Len(q) : q[j].kind = k
    BY <1>3 DEF Has
  <2> DEFINE i == Len(p) + j
  <2>2. i \in 1 .. Len(p \o q) /\ (p \o q)[i].kind = k
    BY <1>1, <2>1
  <2> HIDE DEF i
  <2> QED
    BY <2>2 DEF Has
<1> QED
  BY <1>2, <1>3

LEMMA ThreeIds ==
  ASSUME NEW p, NEW q, NEW r, IsSeq(p), IsSeq(q), IsSeq(r), NEW k
  PROVE  /\ IsSeq(p \o q) /\ IsSeq(p \o q \o r)
         /\ IdsOf(p \o q \o r, k) = IdsOf(p, k) \o IdsOf(q, k) \o IdsOf(r, k)
<1>1. IsSeq(p \o q)
  BY Joined
<1>2. IdsOf(p \o q, k) = IdsOf(p, k) \o IdsOf(q, k)
  BY IdsJoined
<1> DEFINE t == p \o q
<1> HIDE DEF t
<1>3. IsSeq(t \o r)
  BY <1>1, Joined DEF t
<1>4. IdsOf(t \o r, k) = IdsOf(t, k) \o IdsOf(r, k)
  BY <1>1, IdsJoined DEF t
<1> QED
  BY <1>1, <1>2, <1>3, <1>4 DEF t

LEMMA RenamedJoined ==
  ASSUME NEW p, NEW q, IsSeq(p), IsSeq(q)
  PROVE  Renamed(p \o q) = Renamed(p) \o Renamed(q)
<1> DEFINE u == p \o q
           x == Renamed(p)
           y == Renamed(q)
           z == Renamed(u)
           v == x \o y
<1>1. /\ IsSeq(u) /\ Len(p) \in Nat /\ Len(q) \in Nat /\ Len(u) = Len(p) + Len(q)
      /\ \A i \in 1 .. Len(p) : u[i] = p[i]
      /\ \A j \in 1 .. Len(q) : u[Len(p) + j] = q[j]
  BY Joined
<1> HIDE DEF u
<1>u. IsSeq(u)
  BY <1>1
<1>2. IsSeq(x) /\ Len(x) = Len(p) /\ \A j \in 1 .. Len(p) : x[j] = [p[j] EXCEPT !.id = NormalizeMistralToolID(@)]
  BY RenamedIsSeq
<1>3. IsSeq(y) /\ Len(y) = Len(q) /\ \A j \in 1 .. Len(q) : y[j] = [q[j] EXCEPT !.id = NormalizeMistralToolID(@)]
  BY RenamedIsSeq
<1>4. IsSeq(z) /\ Len(z) = Len(u) /\ \A j \in 1 .. Len(u) : z[j] = [u[j] EXCEPT !.id = NormalizeMistralToolID(@)]
  BY <1>u, RenamedIsSeq
<1> HIDE DEF x, y, z
<1>xy. IsSeq(x) /\ IsSeq(y)
  BY <1>2, <1>3
<1>5. /\ IsSeq(v) /\ Len(v) = Len(x) + Len(y)
      /\ \A i \in 1 .. Len(x) : v[i] = x[i]
      /\ \A j \in 1 .. Len(y) : v[Len(x) + j] = y[j]
  BY <1>xy, Joined
<1> HIDE DEF v
<1>6. ASSUME NEW i \in 1 .. Len(z) PROVE z[i] = v[i]
  <2>1. CASE i <= Len(p)
    <3>1. i \in 1 .. Len(p) /\ i \in 1 .. Len(x)
      BY <1>1, <1>2, <2>1
    <3>2. u[i] = p[i] /\ v[i] = x[i]
      BY <1>1, <1>5, <3>1
    <3> QED
      BY <1>2, <1>4, <3>1, <3>2
  <2>2. CASE i > Len(p)
    <3> DEFINE j == i - Len(p)
    <3>1. j \in 1 .. Len(q) /\ i = Len(p) + j
      BY <1>1, <1>4, <2>2
    <3> HIDE DEF j
    <3>2. u[i] = q[j]
      BY <1>1, <3>1
    <3>3. v[i] = y[j]
      BY <1>2, <1>3, <1>5, <3>1
    <3>4. i \in 1 .. Len(u)
      BY <1>4
    <3>5. z[i] = [u[i] EXCEPT !.id = NormalizeMistralToolID(@)]
      BY <1>4, <3>4
    <3>6. y[j] = [q[j] EXCEPT !.id = NormalizeMistralToolID(@)]
      BY <1>3, <3>1
    <3> QED
      BY <3>2, <3>3, <3>5, <3>6, Zenon
  <2> QED
    BY <1>1, <1>4, <2>1, <2>2
<1>7. IsSeq(z) /\ IsSeq(v) /\ Len(z) = Len(v)
  BY <1>1, <1>2, <1>3, <1>4, <1>5
<1>8. z = v
  BY <1>6, <1>7, SameSeq
<1> QED
  BY <1>8 DEF u, v, x, y, z

LEMMA RenamedPlain ==
  ASSUME NEW p, Plain(p)
  PROVE  /\ IsSeq(Renamed(p)) /\ Len(Renamed(p)) = Len(p)
         /\ \A j \in 1 .. Len(p) : /\ Renamed(p)[j].kind = p[j].kind
                                   /\ Renamed(p)[j].id = NormalizeMistralToolID(p[j].id)
<1>1. /\ IsSeq(Renamed(p)) /\ Len(Renamed(p)) = Len(p)
      /\ \A j \in 1 .. Len(p) : Renamed(p)[j] = [p[j] EXCEPT !.id = NormalizeMistralToolID(@)]
  BY RenamedIsSeq DEF Plain
<1>2. ASSUME NEW k, NEW i, NEW n
      PROVE  /\ [[kind |-> k, id |-> i] EXCEPT !.id = n].kind = k
             /\ [[kind |-> k, id |-> i] EXCEPT !.id = n].id = n
  OBVIOUS
<1>3. ASSUME NEW j \in 1 .. Len(p)
      PROVE  Renamed(p)[j].kind = p[j].kind /\ Renamed(p)[j].id = NormalizeMistralToolID(p[j].id)
  <2> DEFINE n == NormalizeMistralToolID(p[j].id)
             k == p[j].kind
             i == p[j].id
  <2>1. Renamed(p)[j] = [p[j] EXCEPT !.id = n]
    BY <1>1
  <2>2. p[j] = [kind |-> k, id |-> i]
    BY DEF Plain
  <2>3. Renamed(p)[j] = [[kind |-> k, id |-> i] EXCEPT !.id = n]
    BY <2>1, <2>2, Zenon
  <2> HIDE DEF n, k, i
  <2>4. Renamed(p)[j].kind = k /\ Renamed(p)[j].id = n
    BY <1>2, <2>3, Zenon
  <2> QED
    BY <2>4 DEF n, k
<1> QED
  BY <1>1, <1>3

\* Parts of one kind with these ids, sent on this protocol.
SentAs(w, p) == IF w = "mistral" THEN Renamed(p) ELSE p

LEMMA SentIsSeq ==
  ASSUME NEW p, Plain(p), NEW w
  PROVE  IsSeq(SentAs(w, p)) /\ Len(SentAs(w, p)) = Len(p) /\ \A j \in 1 .. Len(p) : SentAs(w, p)[j].kind = p[j].kind
<1>1. CASE w = "mistral"
  BY <1>1, RenamedPlain DEF SentAs
<1>2. CASE w # "mistral"
  BY <1>2 DEF SentAs, Plain
<1> QED
  BY <1>1, <1>2

LEMMA SentThree ==
  ASSUME NEW p, NEW q, NEW r, IsSeq(p), IsSeq(q), IsSeq(r), NEW w
  PROVE  SentAs(w, p \o q \o r) = SentAs(w, p) \o SentAs(w, q) \o SentAs(w, r)
<1>1. CASE w = "mistral"
  <2>1. IsSeq(p \o q) /\ Renamed(p \o q) = Renamed(p) \o Renamed(q)
    BY Joined, RenamedJoined
  <2> DEFINE t == p \o q
  <2> HIDE DEF t
  <2>2. Renamed(t \o r) = Renamed(t) \o Renamed(r)
    BY <2>1, RenamedJoined DEF t
  <2> QED
    BY <1>1, <2>1, <2>2 DEF SentAs, t
<1>2. CASE w # "mistral"
  BY <1>2 DEF SentAs
<1> QED
  BY <1>1, <1>2

LEMMA SentOfKind ==
  ASSUME NEW p, Plain(p), NEW w, NEW k, NEW ids, IsSeq(ids), Len(ids) = Len(p),
         \A j \in 1 .. Len(p) : p[j].kind = k /\ p[j].id = ids[j]
  PROVE  /\ IdsOf(SentAs(w, p), k) = SentIds(w, ids)
         /\ IsSeq(SentIds(w, ids)) /\ Len(SentIds(w, ids)) = Len(ids)
<1>1. CASE w = "mistral"
  <2> DEFINE s == SentIds(w, ids)
             n == Len(ids)
  <2>1. n \in Nat
    BY Elements
  <2>2. s = [i \in 1 .. n |-> s[i]] /\ \A i \in 1 .. n : s[i] = NormalizeMistralToolID(ids[i])
    BY <1>1 DEF SentIds
  <2>3. SentAs(w, p) = Renamed(p)
    BY <1>1 DEF SentAs
  <2> HIDE DEF s, n
  <2>4. IsSeq(s) /\ Len(s) = n
    BY <2>1, <2>2, BuiltUp
  <2> DEFINE q == Renamed(p)
  <2>5. /\ IsSeq(q) /\ Len(q) = Len(p)
        /\ \A j \in 1 .. Len(p) : q[j].kind = p[j].kind /\ q[j].id = NormalizeMistralToolID(p[j].id)
    BY RenamedPlain
  <2> HIDE DEF q
  <2>6. IsSeq(q) /\ Len(s) = Len(q) /\ \A j \in 1 .. Len(q) : q[j].kind = k /\ q[j].id = s[j]
    BY <2>2, <2>4, <2>5 DEF n
  <2>7. IdsOf(q, k) = s
    BY <2>4, <2>6, IdsOfKind
  <2> QED
    BY <2>3, <2>4, <2>7 DEF q, s, n
<1>2. CASE w # "mistral"
  <2>1. IdsOf(p, k) = ids
    BY IdsOfKind DEF Plain
  <2> QED
    BY <1>2, <2>1 DEF SentAs, SentIds
<1> QED
  BY <1>1, <1>2

LEMMA SentOfOthers ==
  ASSUME NEW p, Plain(p), NEW w, NEW k, \A j \in 1 .. Len(p) : p[j].kind # k
  PROVE  IdsOf(SentAs(w, p), k) = <<>>
<1> DEFINE q == SentAs(w, p)
<1>1. IsSeq(q) /\ Len(q) = Len(p) /\ \A j \in 1 .. Len(p) : q[j].kind = p[j].kind
  BY SentIsSeq
<1> HIDE DEF q
<1>2. IsSeq(q) /\ \A j \in 1 .. Len(q) : q[j].kind # k
  BY <1>1
<1>3. IdsOf(q, k) = <<>>
  BY <1>2, IdsOfOthers
<1> QED
  BY <1>3 DEF q

LEMMA PartPlain ==
  ASSUME NEW kind, NEW id
  PROVE  Plain(Part(kind, id))
<1> DEFINE part == [kind |-> kind, id |-> id]
<1>1. part = [kind |-> part.kind, id |-> part.id]
  OBVIOUS
<1> HIDE DEF part
<1>2. IsSeq(<<part>>) /\ Len(<<part>>) = 1 /\ <<part>>[1] = part
  BY Single
<1>3. Part(kind, id) = <<part>>
  BY DEF Part, part
<1> QED
  BY <1>1, <1>2, <1>3 DEF Plain

LEMMA MaybePlain ==
  ASSUME NEW present, NEW kind
  PROVE  Plain(If(present, kind)) /\ (present => Has(If(present, kind), kind))
<1>1. CASE present
  <2>1. If(present, kind) = Part(kind, NoId)
    BY <1>1 DEF If
  <2>2. Plain(Part(kind, NoId)) /\ Len(Part(kind, NoId)) = 1 /\ Part(kind, NoId)[1].kind = kind
    BY OnePart, PartPlain
  <2>3. Has(Part(kind, NoId), kind)
    BY <2>2 DEF Has
  <2> QED
    BY <2>1, <2>2, <2>3
<1>2. CASE ~present
  <2>1. If(present, kind) = <<>>
    BY <1>2 DEF If
  <2> QED
    BY <1>2, <2>1, Empty DEF Plain
<1> QED
  BY <1>1, <1>2

LEMMA CallPartsPlain ==
  ASSUME NEW m, IsSeq(m.calls)
  PROVE  /\ Plain(CallParts(m)) /\ Len(CallParts(m)) = Len(m.calls)
         /\ \A j \in 1 .. Len(m.calls) : CallParts(m)[j].kind = "call" /\ CallParts(m)[j].id = m.calls[j]
<1> DEFINE p == CallParts(m)
<1>1. IsSeq(p) /\ Len(p) = Len(m.calls) /\ \A j \in 1 .. Len(m.calls) : p[j] = [kind |-> "call", id |-> m.calls[j]]
  BY CallPartsAre
<1> HIDE DEF p
<1>2. ASSUME NEW j \in 1 .. Len(p)
      PROVE  p[j] = [kind |-> p[j].kind, id |-> p[j].id] /\ p[j].kind = "call" /\ p[j].id = m.calls[j]
  <2>1. p[j] = [kind |-> "call", id |-> m.calls[j]]
    BY <1>1
  <2>3. p[j].kind = "call" /\ p[j].id = m.calls[j]
    BY <2>1
  <2> QED
    BY <2>1, <2>3, Zenon
<1>3. Plain(p)
  BY <1>1, <1>2 DEF Plain
<1> QED
  BY <1>1, <1>2, <1>3 DEF p

\* A text, an image and calls, in an order of the protocol's.
LEMMA ThreeParts ==
  ASSUME NEW m, IsSeq(m.calls), m.role \notin {"system", "tool"}, m.call = NoId, ~m.thinking,
         NEW w \in Pairing \cup {"codex"}
  PROVE  LET T == If(m.text, "text")
             I == If(m.image, "image")
             C == CallParts(m)
         IN  PartsOf(w, m) = IF w = "radius" THEN SentAs(w, I \o C \o T) ELSE SentAs(w, T \o I \o C)
<1> DEFINE T == If(m.text, "text")
           I == If(m.image, "image")
           C == CallParts(m)
<1>1. IsSeq(T) /\ IsSeq(I) /\ IsSeq(C)
  BY MaybePart, CallPartsAre
<1>2. If(m.thinking, "thinking") = <<>>
  BY DEF If
<1>3. <<>> \o T = T /\ <<>> \o I = I
  BY <1>1, NextToNothing
<1>4. ConvertedParts(m) = T \o I \o C
  <2>1. ConvertedParts(m) = <<>> \o T \o I \o C
    BY <1>2 DEF ConvertedParts
  <2> QED
    BY <1>3, <2>1
<1>5. RadiusParts(m) = I \o C \o T
  <2>1. RadiusParts(m) = <<>> \o I \o C \o T
    BY <1>2 DEF RadiusParts
  <2> QED
    BY <1>3, <2>1
<1>6. BedrockMessageContent(m) = T \o I \o C
  <2>1. BedrockMessageContent(m) = <<>> \o T \o I \o C
    BY <1>2 DEF BedrockMessageContent
  <2> QED
    BY <1>3, <2>1
<1>7. CASE w \in {"completions", "mistral", "radius"}
  <2> HIDE DEF T, I, C
  <2> QED
    BY <1>4, <1>5, <1>7 DEF PartsOf, SentAs, T, I, C
<1>8. CASE w \in {"responses", "codex"}
  <2> DEFINE role == IF m.role = "assistant" THEN "assistant" ELSE "user"
             said == <<[role |-> role, parts |-> T \o I]>>
  <2>1. ResponsesItems(m) = said \o CallItems(m)
    BY DEF ResponsesItems
  <2> HIDE DEF T, I, C
  <2>2. IsSeq(T \o I)
    BY <1>1, Joined
  <2> HIDE DEF role
  <2>3. Entries(said) /\ PartsIn(said) = T \o I
    BY <2>2, OneEntry
  <2> HIDE DEF said
  <2>4. Entries(CallItems(m)) /\ PartsIn(CallItems(m)) = C
    BY CallItemsAre DEF C
  <2>5. PartsIn(said \o CallItems(m)) = PartsIn(said) \o PartsIn(CallItems(m))
    BY <2>3, <2>4, PartsInJoined
  <2>6. PartsOf(w, m) = T \o I \o C
    BY <1>8, <2>1, <2>3, <2>4, <2>5 DEF PartsOf
  <2> QED
    BY <1>8, <2>6 DEF SentAs, T, I, C
<1>9. CASE w = "bedrock"
  <2> HIDE DEF T, I, C
  <2>1. PartsOf(w, m) = PartsIn(BedrockItems(m))
    BY <1>9 DEF PartsOf
  <2>2. PartsIn(BedrockItems(m)) = BedrockMessageContent(m)
    <3>1. CASE BedrockMessageContent(m) = <<>>
      BY <3>1, NoEntry DEF BedrockItems
    <3>2. CASE BedrockMessageContent(m) # <<>>
      <4> DEFINE role == IF m.role = "assistant" THEN "assistant" ELSE "user"
      <4>1. BedrockItems(m) = <<[role |-> role, parts |-> BedrockMessageContent(m)]>>
        BY <3>2 DEF BedrockItems
      <4>2. IsSeq(BedrockMessageContent(m))
        BY ConvertedIsSeq
      <4> HIDE DEF role
      <4> QED
        BY <4>1, <4>2, OneEntry
    <3> QED
      BY <3>1, <3>2
  <2> QED
    BY <1>6, <1>9, <2>1, <2>2 DEF SentAs, T, I, C
<1> QED
  BY <1>7, <1>8, <1>9 DEF Pairing

LEMMA SpokenIds ==
  ASSUME NEW m, IsSeq(m.calls), m.role \notin {"system", "tool"}, m.call = NoId, ~m.thinking,
         NEW w \in Pairing \cup {"codex"}
  PROVE  /\ IdsOf(PartsOf(w, m), "call") = SentIds(w, m.calls)
         /\ IdsOf(PartsOf(w, m), "result") = <<>>
         /\ IsSeq(SentIds(w, m.calls)) /\ Len(SentIds(w, m.calls)) = Len(m.calls)
         /\ m.image => Has(PartsOf(w, m), "image")
<1> DEFINE T == If(m.text, "text")
           I == If(m.image, "image")
           C == CallParts(m)
           st == SentAs(w, T)
           si == SentAs(w, I)
           sc == SentAs(w, C)
           ids == SentIds(w, m.calls)
<1>1. Plain(T) /\ Plain(I) /\ Plain(C)
  BY MaybePlain, CallPartsPlain
<1>2. IsSeq(T) /\ IsSeq(I) /\ IsSeq(C)
  BY <1>1 DEF Plain
<1>3. PartsOf(w, m) = IF w = "radius" THEN SentAs(w, I \o C \o T) ELSE SentAs(w, T \o I \o C)
  BY ThreeParts
<1>4. /\ \A j \in 1 .. Len(T) : T[j].kind = "text"
      /\ \A j \in 1 .. Len(I) : I[j].kind = "image"
  BY MaybePart
<1>5. Len(C) = Len(m.calls) /\ \A j \in 1 .. Len(C) : C[j].kind = "call" /\ C[j].id = m.calls[j]
  BY CallPartsPlain
<1>6. m.image => Has(I, "image")
  BY MaybePlain
<1> HIDE DEF T, I, C
<1>7. /\ SentAs(w, I \o C \o T) = si \o sc \o st
      /\ SentAs(w, T \o I \o C) = st \o si \o sc
  BY <1>2, SentThree
<1>8. IdsOf(sc, "call") = ids /\ IsSeq(ids) /\ Len(ids) = Len(m.calls)
  <2> DEFINE c == m.calls
  <2>1. IsSeq(c) /\ Len(c) = Len(C) /\ \A j \in 1 .. Len(C) : C[j].kind = "call" /\ C[j].id = c[j]
    BY <1>5
  <2> HIDE DEF c
  <2>2. /\ IdsOf(SentAs(w, C), "call") = SentIds(w, c)
        /\ IsSeq(SentIds(w, c)) /\ Len(SentIds(w, c)) = Len(c)
    BY <1>1, <2>1, SentOfKind
  <2> QED
    BY <2>2 DEF c
<1>9. IdsOf(sc, "result") = <<>>
  BY <1>1, <1>5, SentOfOthers
<1>10. IdsOf(st, "call") = <<>> /\ IdsOf(st, "result") = <<>>
  BY <1>1, <1>4, SentOfOthers
<1>11. IdsOf(si, "call") = <<>> /\ IdsOf(si, "result") = <<>>
  BY <1>1, <1>4, SentOfOthers
<1>12. IsSeq(st) /\ IsSeq(si) /\ IsSeq(sc)
  BY <1>1, SentIsSeq
<1>13. m.image => Has(si, "image")
  <2>1. Len(si) = Len(I) /\ \A j \in 1 .. Len(I) : si[j].kind = I[j].kind
    BY <1>1, SentIsSeq
  <2> HIDE DEF si
  <2> QED
    BY <1>6, <2>1 DEF Has
<1> HIDE DEF st, si, sc, ids
<1>14. <<>> \o <<>> = <<>> /\ <<>> \o ids = ids /\ ids \o <<>> = ids
  BY <1>8, NextToNothing, Empty
<1>15. CASE w = "radius"
  <2>1. PartsOf(w, m) = si \o sc \o st
    BY <1>3, <1>7, <1>15
  <2>2. \A k : IdsOf(si \o sc \o st, k) = IdsOf(si, k) \o IdsOf(sc, k) \o IdsOf(st, k)
    BY <1>12, ThreeIds
  <2>3. IdsOf(PartsOf(w, m), "call") = ids
    BY <1>8, <1>10, <1>11, <1>14, <2>1, <2>2
  <2>4. IdsOf(PartsOf(w, m), "result") = <<>>
    BY <1>9, <1>10, <1>11, <1>14, <2>1, <2>2
  <2>5. m.image => Has(si \o sc \o st, "image")
    <3>1. IsSeq(si \o sc)
      BY <1>12, Joined
    <3>2. m.image => Has(si \o sc, "image")
      BY <1>12, <1>13, HasJoined
    <3> QED
      BY <1>12, <3>1, <3>2, HasJoined
  <2> QED
    BY <1>8, <2>1, <2>3, <2>4, <2>5 DEF ids
<1>16. CASE w # "radius"
  <2>1. PartsOf(w, m) = st \o si \o sc
    BY <1>3, <1>7, <1>16
  <2>2. \A k : IdsOf(st \o si \o sc, k) = IdsOf(st, k) \o IdsOf(si, k) \o IdsOf(sc, k)
    BY <1>12, ThreeIds
  <2>3. IdsOf(PartsOf(w, m), "call") = ids
    BY <1>8, <1>10, <1>11, <1>14, <2>1, <2>2
  <2>4. IdsOf(PartsOf(w, m), "result") = <<>>
    BY <1>9, <1>10, <1>11, <1>14, <2>1, <2>2
  <2>5. m.image => Has(st \o si \o sc, "image")
    <3>1. IsSeq(st \o si)
      BY <1>12, Joined
    <3>2. m.image => Has(st \o si, "image")
      BY <1>12, <1>13, HasJoined
    <3> QED
      BY <1>12, <3>1, <3>2, HasJoined
  <2> QED
    BY <1>8, <2>1, <2>3, <2>4, <2>5 DEF ids
<1> QED
  BY <1>15, <1>16

\* The answer of a tool: without a call it answers it would go out as text.
LEMMA AnswerParts ==
  ASSUME NEW m, m.role = "tool", m.call # NoId, m.calls = <<>>, ~m.thinking, ~m.image,
         NEW w \in Pairing \cup {"codex"}
  PROVE  PartsOf(w, m) = SentAs(w, Part("result", m.call))
<1> DEFINE P == Part("result", m.call)
<1>1. IsSeq(P) /\ IsSeq(m.calls) /\ Len(m.calls) = 0 /\ P # <<>>
  BY OnePart, Empty
<1>2. If(m.thinking, "thinking") = <<>> /\ If(m.image, "image") = <<>>
  BY DEF If
<1>3. CallParts(m) = <<>>
  <2>1. IsSeq(CallParts(m)) /\ Len(CallParts(m)) = 0
    BY <1>1, CallPartsAre
  <2> DEFINE p == CallParts(m)
  <2> HIDE DEF p
  <2>2. p = <<>>
    BY <2>1, SameSeq, Empty DEF p
  <2> QED
    BY <2>2 DEF p
<1>4. <<>> \o P = P /\ P \o <<>> = P /\ <<>> \o <<>> = <<>>
  BY <1>1, NextToNothing, Empty
<1>5. ConvertedParts(m) = P
  <2>1. ConvertedParts(m) = <<>> \o P \o <<>> \o <<>>
    BY <1>2, <1>3 DEF ConvertedParts
  <2> QED
    BY <1>4, <2>1
<1>6. RadiusParts(m) = P
  <2>1. RadiusParts(m) = <<>> \o <<>> \o <<>> \o P
    BY <1>2, <1>3 DEF RadiusParts
  <2> QED
    BY <1>4, <2>1
<1>7. BedrockMessageContent(m) = P
  <2>1. BedrockMessageContent(m) = P \o <<>>
    BY <1>2 DEF BedrockMessageContent
  <2> QED
    BY <1>4, <2>1
<1>8. CASE w \in {"completions", "mistral", "radius"}
  <2> HIDE DEF P
  <2> QED
    BY <1>5, <1>6, <1>8 DEF PartsOf, SentAs, P
<1>9. CASE w \in {"responses", "codex"}
  <2>1. ResponsesItems(m) = <<[role |-> "item", parts |-> P]>>
    BY DEF ResponsesItems
  <2> HIDE DEF P
  <2>2. PartsIn(ResponsesItems(m)) = P
    BY <1>1, <2>1, OneEntry
  <2> QED
    BY <1>9, <2>2 DEF PartsOf, SentAs, P
<1>10. CASE w = "bedrock"
  <2> HIDE DEF P
  <2>1. BedrockItems(m) = <<[role |-> "user", parts |-> P]>>
    BY <1>1, <1>7 DEF BedrockItems
  <2>2. PartsIn(BedrockItems(m)) = P
    BY <1>1, <2>1, OneEntry
  <2> QED
    BY <1>10, <2>2 DEF PartsOf, SentAs, P
<1> QED
  BY <1>8, <1>9, <1>10 DEF Pairing

-----------------------------------------------------------------------------
(* What a round adds to the history.                                        *)

LEMMA OneMessage ==
  ASSUME NEW m, IsSeq(m.calls), NEW w \in Pairing \cup {"codex"}
  PROVE  /\ Messages(<<m>>) /\ CallsOf(<<m>>) = m.calls /\ AllParts(w, <<m>>) = PartsOf(w, m)
<1> DEFINE h == <<m>>
           x == CallRows(h)
           y == MessageRows(w, h)
<1>1. IsSeq(h) /\ Len(h) = 1 /\ h[1] = m
  BY Single
<1> HIDE DEF h
<1>2. Messages(h)
  BY <1>1 DEF Messages
<1>3. Rows(x) /\ Len(x) = 1 /\ CallsOf(h) = FlattenSeq(x) /\ x[1] = m.calls
  BY <1>1, <1>2, CallRowsAre DEF CallRows
<1>4. Rows(y) /\ Len(y) = 1 /\ AllParts(w, h) = FlattenSeq(y) /\ y[1] = PartsOf(w, m)
  BY <1>1, <1>2, MessageRowsAre DEF MessageRows
<1> HIDE DEF x, y
<1>5. ASSUME NEW z, Rows(z), Len(z) = 1 PROVE FlattenSeq(z) = z[1]
  <2>1. IsSeq(z) /\ IsSeq(z[1])
    BY <1>5 DEF Rows
  <2> DEFINE one == <<z[1]>>
  <2>2. IsSeq(one) /\ Len(one) = 1 /\ one[1] = z[1]
    BY Single
  <2> HIDE DEF one
  <2>3. z = one
    <3>1. IsSeq(z) /\ IsSeq(one) /\ Len(z) = Len(one) /\ \A i \in 1 .. Len(z) : z[i] = one[i]
      BY <1>5, <2>1, <2>2
    <3> QED
      BY <3>1, SameSeq
  <2>4. FlattenSeq(<<z[1]>>) = z[1]
    BY <2>1, FlattenOne
  <2> QED
    BY <2>3, <2>4 DEF one
<1> QED
  BY <1>2, <1>3, <1>4, <1>5 DEF h

\* The answers to these calls.
ToolAnswer(id) == [Message("tool") EXCEPT !.call = id]

LEMMA ToolAnswerIs ==
  ASSUME NEW id
  PROVE  /\ ToolAnswer(id).role = "tool" /\ ToolAnswer(id).call = id /\ ToolAnswer(id).calls = <<>>
         /\ ToolAnswer(id).thinking = FALSE /\ ToolAnswer(id).image = FALSE
  BY DEF ToolAnswer, Message

LEMMA SentOne ==
  ASSUME NEW w, NEW p, Plain(p), NEW j \in 1 .. Len(p)
  PROVE  SentAs(w, Part(p[j].kind, p[j].id)) = <<SentAs(w, p)[j]>>
<1> DEFINE part == [kind |-> p[j].kind, id |-> p[j].id]
           one == <<part>>
<1>1. part = p[j]
  BY DEF Plain
<1> HIDE DEF part
<1>2. IsSeq(one) /\ Len(one) = 1 /\ one[1] = part
  BY Single
<1>3. Part(p[j].kind, p[j].id) = one
  BY DEF Part, part
<1> HIDE DEF one
<1>4. CASE w = "mistral"
  <2> DEFINE r == Renamed(one)
             o == <<Renamed(p)[j]>>
  <2>0. IsSeq(one)
    BY <1>2
  <2>1. IsSeq(r) /\ Len(r) = 1 /\ r[1] = [part EXCEPT !.id = NormalizeMistralToolID(@)]
    BY <1>2, <2>0, RenamedIsSeq
  <2>2. Renamed(p)[j] = [p[j] EXCEPT !.id = NormalizeMistralToolID(@)]
    BY RenamedIsSeq DEF Plain
  <2>3. IsSeq(o) /\ Len(o) = 1 /\ o[1] = Renamed(p)[j]
    BY Single
  <2> HIDE DEF r, o
  <2>4. r = o
    <3>1. IsSeq(r) /\ IsSeq(o) /\ Len(r) = Len(o) /\ \A i \in 1 .. Len(r) : r[i] = o[i]
      BY <1>1, <2>1, <2>2, <2>3
    <3> QED
      BY <3>1, SameSeq
  <2> QED
    BY <1>3, <1>4, <2>4 DEF SentAs, r, o
<1>5. CASE w # "mistral"
  BY <1>1, <1>3, <1>5 DEF SentAs, one
<1> QED
  BY <1>4, <1>5

LEMMA AnswersAre ==
  ASSUME NEW ids, IsSeq(ids), \A i \in 1 .. Len(ids) : ids[i] # NoId,
         NEW w \in Pairing \cup {"codex"}, NEW g, g = [i \in 1 .. Len(ids) |-> ToolAnswer(ids[i])]
  PROVE  /\ Messages(g) /\ Len(g) = Len(ids) /\ CallsOf(g) = <<>>
         /\ IdsOf(AllParts(w, g), "call") = <<>>
         /\ IdsOf(AllParts(w, g), "result") = SentIds(w, ids)
<1> DEFINE n == Len(ids)
           p == [i \in 1 .. n |-> [kind |-> "result", id |-> ids[i]]]
<1>1. n \in Nat
  BY Elements
<1>2. /\ p = [i \in 1 .. n |-> p[i]]
      /\ \A i \in 1 .. n : p[i] = [kind |-> "result", id |-> ids[i]]
  OBVIOUS
<1>3. \A i \in 1 .. n : g[i] = ToolAnswer(ids[i])
  OBVIOUS
<1>4. g = [i \in 1 .. n |-> g[i]]
  OBVIOUS
<1> HIDE DEF p
<1>5. \A i \in 1 .. n : p[i].kind = "result" /\ p[i].id = ids[i]
  BY <1>2
<1>6. IsSeq(p) /\ Len(p) = n
  <2> HIDE DEF n
  <2> QED
    BY <1>1, <1>2, BuiltUp
<1>7. Plain(p)
  BY <1>2, <1>5, <1>6 DEF Plain
<1>8. IsSeq(g) /\ Len(g) = n
  <2> HIDE DEF n
  <2> QED
    BY <1>1, <1>4, BuiltUp
<1>9. ASSUME NEW i \in 1 .. n
      PROVE  g[i].calls = <<>> /\ PartsOf(w, g[i]) = SentAs(w, Part("result", ids[i]))
  <2> DEFINE m == ToolAnswer(ids[i])
  <2>1. m.role = "tool" /\ m.call = ids[i] /\ m.calls = <<>> /\ m.thinking = FALSE /\ m.image = FALSE
    BY ToolAnswerIs
  <2>2. ids[i] # NoId
    OBVIOUS
  <2> HIDE DEF m
  <2>3. m.role = "tool" /\ m.call # NoId /\ m.calls = <<>> /\ ~m.thinking /\ ~m.image
    BY <2>1, <2>2
  <2>4. PartsOf(w, m) = SentAs(w, Part("result", m.call))
    BY <2>3, AnswerParts
  <2>5. g[i] = m
    BY <1>3 DEF m
  <2> QED
    BY <2>1, <2>4, <2>5
<1>10. Messages(g)
  BY <1>8, <1>9, Empty DEF Messages
<1> DEFINE x == CallRows(g)
           y == MessageRows(w, g)
           s == SentAs(w, p)
<1>11. Rows(x) /\ Len(x) = Len(g) /\ CallsOf(g) = FlattenSeq(x)
  BY <1>10, CallRowsAre
<1>12. \A i \in 1 .. Len(x) : x[i] = <<>>
  BY <1>8, <1>9, <1>11 DEF CallRows
<1>13. Rows(y) /\ Len(y) = Len(g) /\ AllParts(w, g) = FlattenSeq(y)
  BY <1>10, MessageRowsAre
<1>14. IsSeq(s) /\ Len(s) = n
  BY <1>6, <1>7, SentIsSeq
<1>15. ASSUME NEW i \in 1 .. Len(y) PROVE y[i] = <<s[i]>>
  <2>1. i \in 1 .. n /\ i \in 1 .. Len(p)
    BY <1>6, <1>8, <1>13
  <2>2. y[i] = PartsOf(w, g[i])
    BY <1>8, <2>1 DEF MessageRows
  <2>3. SentAs(w, Part(p[i].kind, p[i].id)) = <<s[i]>>
    BY <1>7, <2>1, SentOne
  <2> QED
    BY <1>5, <1>9, <2>1, <2>2, <2>3
<1>16. IdsOf(s, "result") = SentIds(w, ids)
  BY <1>5, <1>6, <1>7, SentOfKind
<1>17. IdsOf(s, "call") = <<>>
  BY <1>5, <1>6, <1>7, SentOfOthers
<1> HIDE DEF x, y, s
<1>18. FlattenSeq(x) = <<>>
  BY <1>11, <1>12, FlattenEmpties DEF Rows
<1>19. FlattenSeq(y) = s
  <2>1. IsSeq(y) /\ IsSeq(s) /\ Len(s) = Len(y)
    BY <1>8, <1>13, <1>14 DEF Rows
  <2> QED
    BY <1>15, <2>1, FlattenSingles
<1> QED
  BY <1>8, <1>10, <1>11, <1>13, <1>16, <1>17, <1>18, <1>19

\* Each call has its result, and no result is there without its call.
Balanced(w, h) ==
  /\ IdsOf(AllParts(w, h), "call") = IdsOf(AllParts(w, h), "result")
  /\ Len(IdsOf(AllParts(w, h), "call")) = Len(CallsOf(h))

LEMMA BalancedJoined ==
  ASSUME NEW w \in Pairing, NEW h, NEW g, Messages(h), Messages(g), Balanced(w, h), Balanced(w, g)
  PROVE  Balanced(w, h \o g)
<1> DEFINE p == AllParts(w, h)
           q == AllParts(w, g)
           a == CallsOf(h)
           b == CallsOf(g)
<1>1. AllParts(w, h \o g) = p \o q
  BY AllPartsJoined
<1>2. CallsOf(h \o g) = a \o b
  BY CallsJoined
<1>3. IsSeq(p) /\ IsSeq(q)
  BY MessageRowsAre
<1>4. IsSeq(a) /\ IsSeq(b)
  BY CallRowsAre
<1>5. /\ IdsOf(p, "call") = IdsOf(p, "result") /\ Len(IdsOf(p, "call")) = Len(a)
      /\ IdsOf(q, "call") = IdsOf(q, "result") /\ Len(IdsOf(q, "call")) = Len(b)
  BY DEF Balanced
<1> HIDE DEF p, q, a, b
<1>6. \A k : /\ IdsOf(p \o q, k) = IdsOf(p, k) \o IdsOf(q, k)
             /\ IsSeq(IdsOf(p, k)) /\ IsSeq(IdsOf(q, k))
  BY <1>3, IdsJoined
<1> DEFINE c == IdsOf(p, "call")
           d == IdsOf(q, "call")
<1>7. IsSeq(c) /\ IsSeq(d) /\ IdsOf(p \o q, "call") = c \o d /\ IdsOf(p \o q, "result") = c \o d
  BY <1>5, <1>6
<1>8. Len(c) = Len(a) /\ Len(d) = Len(b)
  BY <1>5
<1> HIDE DEF c, d
<1>9. Len(c \o d) = Len(c) + Len(d)
  BY <1>7, Joined
<1>10. Len(a \o b) = Len(a) + Len(b)
  BY <1>4, Joined
<1> QED
  BY <1>1, <1>2, <1>7, <1>8, <1>9, <1>10 DEF Balanced

\* An answer of the model and what follows it.
LEMMA RoundBalanced ==
  ASSUME NEW w \in Pairing, NEW m, IsSeq(m.calls), m.role \notin {"system", "tool"},
         m.call = NoId, ~m.thinking, NEW g, Messages(g), CallsOf(g) = <<>>,
         IdsOf(AllParts(w, g), "call") = <<>>,
         IdsOf(AllParts(w, g), "result") = SentIds(w, m.calls)
  PROVE  Balanced(w, <<m>> \o g)
<1> DEFINE h == <<m>>
           p == AllParts(w, h)
           q == AllParts(w, g)
           ids == SentIds(w, m.calls)
<1>1. Messages(h) /\ CallsOf(h) = m.calls /\ p = PartsOf(w, m)
  BY OneMessage
<1>2. /\ IdsOf(PartsOf(w, m), "call") = ids /\ IdsOf(PartsOf(w, m), "result") = <<>>
      /\ IsSeq(ids) /\ Len(ids) = Len(m.calls)
  BY SpokenIds
<1> HIDE DEF h
<1>3. AllParts(w, h \o g) = p \o q
  BY <1>1, AllPartsJoined
<1>4. CallsOf(h \o g) = m.calls \o <<>>
  BY <1>1, CallsJoined
<1>5. IsSeq(p) /\ IsSeq(q)
  BY <1>1, MessageRowsAre
<1>6. IdsOf(p, "call") = ids /\ IdsOf(p, "result") = <<>>
  BY <1>1, <1>2
<1> HIDE DEF p, q, ids
<1>7. \A k : IdsOf(p \o q, k) = IdsOf(p, k) \o IdsOf(q, k)
  BY <1>5, IdsJoined
<1>8. ids \o <<>> = ids /\ <<>> \o ids = ids /\ m.calls \o <<>> = m.calls
  BY <1>2, NextToNothing
<1>9. IdsOf(p \o q, "call") = ids /\ IdsOf(p \o q, "result") = ids
  BY <1>6, <1>7, <1>8 DEF q, ids
<1>10. Balanced(w, h \o g)
  BY <1>2, <1>3, <1>4, <1>8, <1>9 DEF Balanced
<1> QED
  BY <1>10 DEF h

\* What the next request of the Codex client has, and does not have.
CodexPaired(h) ==
  LET c == CodexContinuation(h)
      rest == SubSeq(h, c + 1, Len(h))
      p == AllParts("codex", rest)
  IN /\ Messages(rest)
     /\ IdsOf(p, "call") = <<>>
     /\ c > 0 => IdsOf(p, "result") = h[c].calls

\* A history that ends with an answer of the model and with what follows it.
EndsInRound(all, h, m, g) ==
  /\ IsSeq(h) /\ m.role = "assistant" /\ m.response = TRUE
  /\ IsSeq(g) /\ Len(g) > 0 /\ \A j \in 1 .. Len(g) : g[j].role # "assistant"
  /\ all = h \o (<<m>> \o g)

LEMMA NamedIsLast ==
  ASSUME NEW all, NEW h, NEW m, NEW g, EndsInRound(all, h, m, g)
  PROVE  /\ CodexContinuation(all) > 0 /\ all[CodexContinuation(all)] = m
         /\ SubSeq(all, CodexContinuation(all) + 1, Len(all)) = g
<1> DEFINE one == <<m>>
           t == one \o g
           n == Len(h) + 1
           named == {i \in 1 .. Len(all) - 1 : all[i].role = "assistant" /\ all[i].response}
<1>0. /\ IsSeq(h) /\ m.role = "assistant" /\ m.response = TRUE
      /\ IsSeq(g) /\ Len(g) > 0 /\ \A j \in 1 .. Len(g) : g[j].role # "assistant"
      /\ all = h \o (<<m>> \o g)
  BY DEF EndsInRound
<1>h. IsSeq(h) /\ IsSeq(g)
  BY <1>0
<1>1. IsSeq(one) /\ Len(one) = 1 /\ one[1] = m
  BY Single
<1> HIDE DEF one
<1>o. IsSeq(one)
  BY <1>1
<1>2. /\ IsSeq(t) /\ Len(g) \in Nat /\ Len(t) = Len(one) + Len(g)
      /\ \A i \in 1 .. Len(one) : t[i] = one[i]
      /\ \A j \in 1 .. Len(g) : t[Len(one) + j] = g[j]
  BY <1>o, <1>h, Joined
<1>a. all = h \o t
  BY <1>0 DEF one
<1> HIDE DEF t
<1>t. IsSeq(t)
  BY <1>2
<1>3. /\ IsSeq(all) /\ Len(h) \in Nat /\ Len(t) \in Nat /\ Len(all) = Len(h) + Len(t)
      /\ \A j \in 1 .. Len(t) : all[Len(h) + j] = t[j]
  <2>1. /\ IsSeq(h \o t) /\ Len(h) \in Nat /\ Len(t) \in Nat /\ Len(h \o t) = Len(h) + Len(t)
        /\ \A j \in 1 .. Len(t) : (h \o t)[Len(h) + j] = t[j]
    BY <1>t, <1>h, Joined
  <2> QED
    BY <1>a, <2>1
<1>4. n \in Nat /\ n > 0 /\ Len(all) = n + Len(g) /\ all[n] = m
  BY <1>0, <1>1, <1>2, <1>3
<1>5. ASSUME NEW j \in 1 .. Len(g) PROVE all[n + j] = g[j]
  <2>1. 1 + j \in 1 .. Len(t) /\ Len(h) + (1 + j) = n + j
    BY <1>1, <1>2, <1>3
  <2>2. t[1 + j] = g[j]
    BY <1>1, <1>2
  <2> QED
    BY <1>3, <2>1, <2>2
<1> HIDE DEF n
<1>6. n \in named
  BY <1>0, <1>2, <1>4
<1>7. ASSUME NEW i \in named PROVE i <= n
  <2>1. SUFFICES ASSUME i > n PROVE FALSE
    BY <1>4
  <2> DEFINE j == i - n
  <2>2. j \in 1 .. Len(g) /\ i = n + j
    BY <1>2, <1>4, <2>1
  <2> HIDE DEF j
  <2>3. all[i] = g[j]
    BY <1>5, <2>2
  <2> QED
    BY <1>0, <2>2, <2>3
<1>8. Max(named) = n
  <2>1. \A x \in named : n >= x /\ x \in Nat
    BY <1>2, <1>4, <1>7
  <2> HIDE DEF named
  <2>2. \A x \in named : (\A y \in named : x >= y) => x = n
    BY <1>4, <1>6, <2>1
  <2> QED
    BY <1>6, <2>1, <2>2 DEF Max
<1>9. CodexContinuation(all) = n
  BY <1>6, <1>8 DEF CodexContinuation
<1>10. SubSeq(all, n + 1, Len(all)) = g
  <2> DEFINE u == SubSeq(all, n + 1, Len(all))
             D == Range(all)
  <2>1. all \in Seq(D)
    BY <1>3 DEF IsSeq
  <2> HIDE DEF D
  <2>2. u = [i \in 1 .. Len(all) - n |-> all[n + i]]
    <3>1. u = [i \in 1 .. (Len(all) - (n + 1) + 1) |-> all[(n + 1) + i - 1]]
      BY <1>2, <1>4, <2>1
    <3>2. Len(all) - (n + 1) + 1 = Len(all) - n
      BY <1>2, <1>4
    <3>3. \A i \in 1 .. Len(all) - n : (n + 1) + i - 1 = n + i
      BY <1>2, <1>4
    <3> HIDE DEF u
    <3> QED
      BY <3>1, <3>2, <3>3
  <2>3. Len(all) - n = Len(g)
    BY <1>2, <1>4
  <2>4. g = [i \in 1 .. Len(g) |-> g[i]]
    BY <1>h DEF IsSeq
  <2> HIDE DEF u
  <2>5. u = g
    BY <1>5, <2>2, <2>3, <2>4
  <2> QED
    BY <2>5 DEF u
<1> QED
  BY <1>4, <1>9, <1>10

PairedInv ==
  /\ Messages(history)
  /\ wire \in Pairing => Balanced(wire, history) /\ Has(AllParts(wire, history), "image")
  /\ wire = "codex" => CodexPaired(history)

LEMMA PairedRequests ==
  ASSUME wire \in Wires, PairedInv
  PROVE  RequestsArePaired
<1>1. RequestParts = PartsIn(Request(wire, history))
  BY DEF RequestParts, PartsIn
<1>2. \A k : PartIds(k) = IdsOf(RequestParts, k)
  BY DEF PartIds, IdsOf, IdOf
<1>3. ASSUME wire \in Pairing
      PROVE  /\ PartIds("call") = PartIds("result")
             /\ Len(PartIds("call")) = Len(FlattenSeq([i \in 1 .. Len(history) |-> history[i].calls]))
             /\ \E p \in Range(RequestParts) : p.kind = "image"
  <2> DEFINE all == AllParts(wire, history)
  <2>0. Messages(history) /\ Balanced(wire, history) /\ Has(all, "image")
    BY <1>3 DEF PairedInv
  <2>1. RequestParts = all
    BY <1>1, <1>3, <2>0, RequestIs
  <2>2. IsSeq(all)
    BY <1>3, <2>0, MessageRowsAre
  <2>3. IdsOf(all, "call") = IdsOf(all, "result") /\ Len(IdsOf(all, "call")) = Len(CallsOf(history))
    BY <2>0 DEF Balanced
  <2> HIDE DEF all
  <2>4. PICK j \in 1 .. Len(all) : all[j].kind = "image"
    BY <2>0 DEF Has
  <2>5. all[j] \in Range(all)
    BY <2>2, Elements
  <2>6. PartIds("call") = PartIds("result") /\ Len(PartIds("call")) = Len(CallsOf(history))
    BY <1>2, <2>1, <2>3
  <2> QED
    BY <2>1, <2>4, <2>5, <2>6 DEF CallsOf
<1>4. ASSUME wire = "codex"
      PROVE  /\ PartIds("call") = <<>>
             /\ CodexContinuation(history) > 0 =>
                  PartIds("result") = history[CodexContinuation(history)].calls
  <2> DEFINE c == CodexContinuation(history)
             rest == SubSeq(history, c + 1, Len(history))
             p == AllParts("codex", rest)
  <2>1. Messages(rest) /\ IdsOf(p, "call") = <<>> /\ (c > 0 => IdsOf(p, "result") = history[c].calls)
    BY <1>4 DEF PairedInv, CodexPaired
  <2>2. Request(wire, history) = ResponsesInput(rest)
    BY <1>4 DEF Request, CodexInput
  <2> HIDE DEF c, rest
  <2>3. PartsIn(ResponsesInput(rest)) = p
    BY <2>1, ResponsesInputIs
  <2>4. RequestParts = p
    BY <1>1, <2>2, <2>3
  <2> QED
    BY <1>2, <2>1, <2>4 DEF c
<1> QED
  BY <1>3, <1>4 DEF RequestsArePaired, Pairing

LEMMA NoIds ==
  ASSUME NEW w
  PROVE  SentIds(w, <<>>) = <<>>
<1>1. CASE w = "mistral"
  <2>1. [i \in 1 .. Len(<<>>) |-> NormalizeMistralToolID(<<>>[i])] = <<>>
    OBVIOUS
  <2> QED
    BY <1>1, <2>1 DEF SentIds
<1>2. CASE w # "mistral"
  BY <1>2 DEF SentIds
<1> QED
  BY <1>1, <1>2

LEMMA UserMessage ==
  ASSUME NEW w \in Pairing \cup {"codex"}
  PROVE  LET g == <<Message("user")>>
         IN  /\ Messages(g) /\ IsSeq(g) /\ Len(g) = 1 /\ g[1].role = "user" /\ CallsOf(g) = <<>>
             /\ IdsOf(AllParts(w, g), "call") = <<>> /\ IdsOf(AllParts(w, g), "result") = <<>>
<1> DEFINE m == Message("user")
           g == <<m>>
<1>1. m.role = "user" /\ m.calls = <<>> /\ m.call = NoId /\ m.thinking = FALSE
  BY DEF Message
<1> HIDE DEF m
<1>2. IsSeq(g) /\ Len(g) = 1 /\ g[1] = m
  BY Single
<1>3. IsSeq(m.calls)
  BY <1>1, Empty
<1>4. Messages(g) /\ CallsOf(g) = m.calls /\ AllParts(w, g) = PartsOf(w, m)
  BY <1>3, OneMessage
<1>5. IdsOf(PartsOf(w, m), "call") = SentIds(w, m.calls) /\ IdsOf(PartsOf(w, m), "result") = <<>>
  <2>1. m.role \notin {"system", "tool"} /\ m.call = NoId /\ ~m.thinking
    BY <1>1
  <2> QED
    BY <1>3, <2>1, SpokenIds
<1> HIDE DEF g
<1>6. IdsOf(AllParts(w, g), "call") = <<>> /\ IdsOf(AllParts(w, g), "result") = <<>>
  BY <1>1, <1>4, <1>5, NoIds
<1> QED
  BY <1>1, <1>2, <1>4, <1>6 DEF g, m

LEMMA AgainPaired ==
  ASSUME wire \in Wires, ResultOK, PairedInv, AskAgain
  PROVE  PairedInv'
<1>0. stage = "returned" /\ wire' = wire
  BY DEF AskAgain
<1>1. CASE result.stop = "error"
  <2>1. history' = history
    BY <1>1 DEF AskAgain
  <2> QED
    BY <1>0, <2>1 DEF PairedInv
<1>2. CASE result.stop # "error"
  <2> DEFINE calls == result.calls
             ids == [i \in 1 .. Len(calls) |-> calls[i].id]
             m == [Message("assistant") EXCEPT !.text = result.text > 0, !.calls = ids, !.response = TRUE]
             answers == [i \in 1 .. Len(ids) |-> ToolAnswer(ids[i])]
             g == IF ids = <<>> THEN <<Message("user")>> ELSE answers
  <2>1. history' = Append(history, m) \o g
    BY <1>2, Zenon DEF AskAgain, ToolAnswer
  <2>2. IsSeq(calls) /\ \A i \in 1 .. Len(calls) : calls[i].id # NoId
    BY <1>0 DEF ResultOK
  <2>3. Len(calls) \in Nat
    BY <2>2, Elements
  <2>4. ids = [i \in 1 .. Len(calls) |-> ids[i]] /\ \A i \in 1 .. Len(calls) : ids[i] = calls[i].id
    OBVIOUS
  <2>5. m.role = "assistant" /\ m.calls = ids /\ m.call = NoId /\ m.thinking = FALSE /\ m.response = TRUE
    <3> HIDE DEF ids
    <3> QED
      BY DEF Message
  <2> HIDE DEF calls
  <2> HIDE DEF ids
  <2>6. IsSeq(ids) /\ Len(ids) = Len(calls)
    BY <2>3, <2>4, BuiltUp
  <2>7. \A i \in 1 .. Len(ids) : ids[i] # NoId
    BY <2>2, <2>4, <2>6
  <2>8. ASSUME NEW w \in Pairing \cup {"codex"}
        PROVE  /\ Messages(g) /\ CallsOf(g) = <<>>
               /\ IdsOf(AllParts(w, g), "call") = <<>> /\ IdsOf(AllParts(w, g), "result") = SentIds(w, ids)
               /\ Len(g) > 0 /\ \A j \in 1 .. Len(g) : g[j].role # "assistant"
    <3>1. CASE ids = <<>>
      <4>1. g = <<Message("user")>>
        BY <3>1
      <4> HIDE DEF g
      <4> QED
        BY <3>1, <4>1, UserMessage, NoIds
    <3>2. CASE ids # <<>>
      <4>1. g = answers
        BY <3>2
      <4>2. answers = [i \in 1 .. Len(ids) |-> ToolAnswer(ids[i])]
        OBVIOUS
      <4>3. \A i \in 1 .. Len(ids) : answers[i] = ToolAnswer(ids[i])
        OBVIOUS
      <4> HIDE DEF answers
      <4>4. /\ Messages(answers) /\ Len(answers) = Len(ids) /\ CallsOf(answers) = <<>>
            /\ IdsOf(AllParts(w, answers), "call") = <<>>
            /\ IdsOf(AllParts(w, answers), "result") = SentIds(w, ids)
        BY <2>6, <2>7, <4>2, AnswersAre
      <4>5. Len(ids) > 0
        <5>1. Len(ids) # 0
          BY <2>6, <3>2, SameSeq, Empty
        <5> QED
          BY <2>3, <2>6, <5>1
      <4>6. \A j \in 1 .. Len(answers) : answers[j].role # "assistant"
        <5>1. ASSUME NEW j \in 1 .. Len(answers) PROVE answers[j].role # "assistant"
          <6>1. answers[j] = ToolAnswer(ids[j])
            BY <4>3, <4>4
          <6>2. ToolAnswer(ids[j]).role = "tool"
            BY ToolAnswerIs
          <6> QED
            BY <6>1, <6>2
        <5> QED
          BY <5>1
      <4> HIDE DEF g
      <4> QED
        BY <4>1, <4>4, <4>5, <4>6
    <3> QED
      BY <3>1, <3>2
  <2>9. m.role \notin {"system", "tool"} /\ m.call = NoId /\ ~m.thinking /\ IsSeq(m.calls)
    BY <2>5, <2>6
  <2> HIDE DEF m
  <2>10. Messages(g) /\ IsSeq(g)
    <3>1. "codex" \in Pairing \cup {"codex"}
      OBVIOUS
    <3> HIDE DEF g
    <3>2. Messages(g)
      BY <2>8, <3>1
    <3> QED
      BY <3>2 DEF Messages
  <2> HIDE DEF g
  <2> DEFINE one == <<m>>
             t == one \o g
  <2>11. Messages(one)
    <3>1. "codex" \in Pairing \cup {"codex"}
      OBVIOUS
    <3> QED
      BY <2>9, <3>1, OneMessage
  <2>12. Messages(history) /\ IsSeq(history) /\ IsSeq(one)
    BY <2>11 DEF PairedInv, Messages
  <2>13. history' = history \o t
    <3>1. Append(history, m) = history \o one
      BY <2>12, Added
    <3> HIDE DEF one
    <3>2. (history \o one) \o g = history \o t
      BY <2>10, <2>12, Grouped
    <3> QED
      BY <2>1, <3>1, <3>2
  <2>14. Messages(t)
    <3> HIDE DEF one
    <3> QED
      BY <2>10, <2>11, MessagesJoined
  <2>15. Messages(history')
    <3> HIDE DEF t
    <3> QED
      BY <2>12, <2>13, <2>14, MessagesJoined
  <2>16. ASSUME wire \in Pairing
         PROVE  Balanced(wire, history') /\ Has(AllParts(wire, history'), "image")
    <3>1. Balanced(wire, history) /\ Has(AllParts(wire, history), "image")
      BY <2>16 DEF PairedInv
    <3>2. /\ CallsOf(g) = <<>> /\ IdsOf(AllParts(wire, g), "call") = <<>>
          /\ IdsOf(AllParts(wire, g), "result") = SentIds(wire, m.calls)
      BY <2>5, <2>8, <2>16
    <3>3. Balanced(wire, t)
      BY <2>9, <2>10, <2>16, <3>2, RoundBalanced
    <3> HIDE DEF t
    <3>4. Balanced(wire, history \o t)
      BY <2>12, <2>14, <2>16, <3>1, <3>3, BalancedJoined
    <3>5. AllParts(wire, history \o t) = AllParts(wire, history) \o AllParts(wire, t)
      BY <2>12, <2>14, <2>16, AllPartsJoined
    <3>6. IsSeq(AllParts(wire, history)) /\ IsSeq(AllParts(wire, t))
      BY <2>12, <2>14, <2>16, MessageRowsAre
    <3>7. Has(AllParts(wire, history \o t), "image")
      BY <3>1, <3>5, <3>6, HasJoined
    <3> QED
      BY <2>13, <3>4, <3>7
  <2>17. ASSUME wire = "codex" PROVE CodexPaired(history')
    <3> DEFINE all == history \o t
               c == CodexContinuation(all)
    <3>1. /\ Len(g) > 0 /\ \A j \in 1 .. Len(g) : g[j].role # "assistant"
          /\ IdsOf(AllParts("codex", g), "call") = <<>>
          /\ IdsOf(AllParts("codex", g), "result") = SentIds("codex", ids)
      BY <2>8
    <3>2. c > 0 /\ all[c] = m /\ SubSeq(all, c + 1, Len(all)) = g
      <4>1. EndsInRound(all, history, m, g)
        BY <2>5, <2>10, <2>12, <3>1 DEF EndsInRound
      <4> HIDE DEF all
      <4> QED
        BY <4>1, NamedIsLast
    <3>3. SentIds("codex", ids) = ids
      BY DEF SentIds
    <3> HIDE DEF all
    <3>4. CodexPaired(all)
      BY <2>5, <2>10, <3>1, <3>2, <3>3 DEF CodexPaired
    <3> QED
      BY <2>13, <3>4 DEF all
  <2> QED
    BY <1>0, <2>15, <2>16, <2>17 DEF PairedInv
<1> QED
  BY <1>1, <1>2

LEMMA SystemParts ==
  ASSUME NEW m, m.role = "system", m.call = NoId, m.calls = <<>>, m.text, ~m.thinking, ~m.image,
         NEW w \in Pairing \cup {"codex"}
  PROVE  PartsOf(w, m) = IF w = "bedrock" THEN <<>> ELSE SentAs(w, Part("text", NoId))
<1> DEFINE P == Part("text", NoId)
<1>1. IsSeq(P) /\ IsSeq(m.calls) /\ Len(m.calls) = 0
  BY OnePart, Empty
<1>2. /\ If(m.thinking, "thinking") = <<>> /\ If(m.image, "image") = <<>> /\ If(m.text, "text") = P
  BY DEF If
<1>3. CallParts(m) = <<>>
  <2>1. IsSeq(CallParts(m)) /\ Len(CallParts(m)) = 0
    BY <1>1, CallPartsAre
  <2> DEFINE p == CallParts(m)
  <2> HIDE DEF p
  <2>2. p = <<>>
    BY <2>1, SameSeq, Empty DEF p
  <2> QED
    BY <2>2 DEF p
<1>4. <<>> \o P = P /\ P \o <<>> = P /\ <<>> \o <<>> = <<>>
  BY <1>1, NextToNothing, Empty
<1>5. ConvertedParts(m) = P
  <2>1. ConvertedParts(m) = <<>> \o P \o <<>> \o <<>>
    BY <1>2, <1>3 DEF ConvertedParts
  <2> QED
    BY <1>4, <2>1
<1>6. RadiusParts(m) = P
  <2>1. RadiusParts(m) = <<>> \o <<>> \o <<>> \o P
    BY <1>2, <1>3 DEF RadiusParts
  <2> QED
    BY <1>4, <2>1
<1>8. CASE w \in {"completions", "mistral", "radius"}
  <2> HIDE DEF P
  <2> QED
    BY <1>5, <1>6, <1>8 DEF PartsOf, SentAs, P
<1>9. CASE w \in {"responses", "codex"}
  <2>1. ResponsesItems(m) = <<[role |-> "system", parts |-> P]>>
    BY DEF ResponsesItems
  <2> HIDE DEF P
  <2>2. PartsIn(ResponsesItems(m)) = P
    BY <1>1, <2>1, OneEntry
  <2> QED
    BY <1>9, <2>2 DEF PartsOf, SentAs, P
<1>10. CASE w = "bedrock"
  BY <1>10, NoEntry DEF PartsOf, BedrockItems
<1> QED
  BY <1>8, <1>9, <1>10 DEF Pairing

LEMMA SystemIds ==
  ASSUME NEW m, m.role = "system", m.call = NoId, m.calls = <<>>, m.text, ~m.thinking, ~m.image,
         NEW w \in Pairing \cup {"codex"}
  PROVE  IdsOf(PartsOf(w, m), "call") = <<>> /\ IdsOf(PartsOf(w, m), "result") = <<>>
<1>1. PartsOf(w, m) = IF w = "bedrock" THEN <<>> ELSE SentAs(w, Part("text", NoId))
  BY SystemParts
<1>2. CASE w = "bedrock"
  <2>1. ASSUME NEW k PROVE IdsOf(<<>>, k) = <<>>
    BY Empty, IdsOfOthers
  <2> QED
    BY <1>1, <1>2, <2>1
<1>3. CASE w # "bedrock"
  <2> DEFINE P == Part("text", NoId)
  <2>1. Plain(P) /\ Len(P) = 1 /\ P[1].kind = "text"
    BY OnePart, PartPlain
  <2> HIDE DEF P
  <2>2. IdsOf(SentAs(w, P), "call") = <<>> /\ IdsOf(SentAs(w, P), "result") = <<>>
    BY <2>1, SentOfOthers
  <2> QED
    BY <1>1, <1>3, <2>2 DEF P
<1> QED
  BY <1>2, <1>3

LEMMA InitPaired ==
  ASSUME CallInit
  PROVE  PairedInv
<1> DEFINE s == Message("system")
           u == [Message("user") EXCEPT !.image = TRUE]
           h == <<s>>
           g == <<u>>
<1>1. /\ s.role = "system" /\ s.call = NoId /\ s.calls = <<>> /\ s.text = TRUE
      /\ s.thinking = FALSE /\ s.image = FALSE
  BY DEF Message
<1>2. /\ u.role = "user" /\ u.call = NoId /\ u.calls = <<>>
      /\ u.thinking = FALSE /\ u.image = TRUE
  BY DEF Message
<1>3. history = <<s, u>>
  BY DEF CallInit
<1> HIDE DEF s, u
<1>4. history = h \o g
  <2> DEFINE p == <<s, u>>
             r == h \o g
  <2>1. p = [i \in 1 .. 2 |-> p[i]] /\ p[1] = s /\ p[2] = u
    OBVIOUS
  <2>2. IsSeq(h) /\ Len(h) = 1 /\ h[1] = s
    BY Single
  <2> HIDE DEF p
  <2>3. IsSeq(p) /\ Len(p) = 2
    BY <2>1, BuiltUp
  <2>h. IsSeq(h)
    BY <2>2
  <2>4. /\ IsSeq(r) /\ Len(r) = Len(h) + 1 /\ \A i \in 1 .. Len(h) : r[i] = h[i]
        /\ r[Len(h) + 1] = u
    <3> HIDE DEF h
    <3> QED
      BY <2>h, OneMore
  <2> HIDE DEF r
  <2>5. ASSUME NEW i \in 1 .. 2 PROVE p[i] = r[i]
    <3>1. i = 1 \/ i = 2
      OBVIOUS
    <3>2. r[1] = s /\ r[2] = u
      BY <2>2, <2>4
    <3> QED
      BY <2>1, <3>1, <3>2
  <2>6. IsSeq(p) /\ IsSeq(r) /\ Len(p) = Len(r) /\ Len(p) = 2
    BY <2>2, <2>3, <2>4
  <2>7. p = r
    BY <2>5, <2>6, SameSeq
  <2> QED
    BY <1>3, <2>7 DEF p, r
<1>5. IsSeq(s.calls) /\ IsSeq(u.calls)
  BY <1>1, <1>2, Empty
<1>6. ASSUME NEW w \in Pairing \cup {"codex"}
      PROVE  /\ Messages(h) /\ CallsOf(h) = <<>> /\ AllParts(w, h) = PartsOf(w, s)
             /\ Messages(g) /\ CallsOf(g) = <<>> /\ AllParts(w, g) = PartsOf(w, u)
             /\ IdsOf(AllParts(w, h), "call") = <<>> /\ IdsOf(AllParts(w, h), "result") = <<>>
             /\ IdsOf(AllParts(w, g), "call") = <<>> /\ IdsOf(AllParts(w, g), "result") = <<>>
             /\ Has(AllParts(w, g), "image")
  <2>1. Messages(h) /\ CallsOf(h) = s.calls /\ AllParts(w, h) = PartsOf(w, s)
    BY <1>5, OneMessage
  <2>2. Messages(g) /\ CallsOf(g) = u.calls /\ AllParts(w, g) = PartsOf(w, u)
    BY <1>5, OneMessage
  <2>3. IdsOf(PartsOf(w, s), "call") = <<>> /\ IdsOf(PartsOf(w, s), "result") = <<>>
    <3>1. s.role = "system" /\ s.call = NoId /\ s.calls = <<>> /\ s.text /\ ~s.thinking /\ ~s.image
      BY <1>1
    <3> QED
      BY <3>1, SystemIds
  <2>4. /\ IdsOf(PartsOf(w, u), "call") = SentIds(w, u.calls) /\ IdsOf(PartsOf(w, u), "result") = <<>>
        /\ u.image => Has(PartsOf(w, u), "image")
    <3>1. u.role \notin {"system", "tool"} /\ u.call = NoId /\ ~u.thinking
      BY <1>2
    <3> QED
      BY <1>5, <3>1, SpokenIds
  <2> HIDE DEF h, g
  <2> QED
    BY <1>1, <1>2, <2>1, <2>2, <2>3, <2>4, NoIds
<1>7. Messages(h) /\ Messages(g)
  <2>1. "codex" \in Pairing \cup {"codex"}
    OBVIOUS
  <2> HIDE DEF h, g
  <2> QED
    BY <1>6, <2>1
<1>L. Len(history) = 2 /\ history[1].role = "system"
  BY <1>1, <1>3
<1> HIDE DEF h, g
<1>8. Messages(history)
  BY <1>4, <1>7, MessagesJoined
<1>9. ASSUME NEW w \in Pairing \cup {"codex"}
      PROVE  /\ IdsOf(AllParts(w, history), "call") = <<>> /\ IdsOf(AllParts(w, history), "result") = <<>>
             /\ Has(AllParts(w, history), "image") /\ CallsOf(history) = <<>>
  <2> DEFINE p == AllParts(w, h)
             q == AllParts(w, g)
  <2>1. AllParts(w, history) = p \o q
    BY <1>4, <1>7, AllPartsJoined
  <2>2. IsSeq(p) /\ IsSeq(q)
    BY <1>7, MessageRowsAre
  <2>3. /\ IdsOf(p, "call") = <<>> /\ IdsOf(p, "result") = <<>>
        /\ IdsOf(q, "call") = <<>> /\ IdsOf(q, "result") = <<>> /\ Has(q, "image")
    BY <1>6
  <2>4. CallsOf(history) = CallsOf(h) \o CallsOf(g)
    BY <1>4, <1>7, CallsJoined
  <2> HIDE DEF p, q
  <2>5. \A k : IdsOf(p \o q, k) = IdsOf(p, k) \o IdsOf(q, k)
    BY <2>2, IdsJoined
  <2>6. Has(p \o q, "image")
    BY <2>2, <2>3, HasJoined
  <2>7. <<>> \o <<>> = <<>>
    OBVIOUS
  <2> QED
    BY <1>6, <2>1, <2>3, <2>4, <2>5, <2>6, <2>7
<1>10. ASSUME wire \in Pairing
       PROVE  Balanced(wire, history) /\ Has(AllParts(wire, history), "image")
  BY <1>9, <1>10 DEF Balanced
<1>11. CodexPaired(history)
  <2>1. CodexContinuation(history) = 0
    BY <1>L DEF CodexContinuation
  <2>2. SubSeq(history, 1, Len(history)) = history
    <3>1. history \in Seq(Range(history))
      BY <1>8 DEF Messages, IsSeq
    <3> QED
      BY <3>1
  <2> DEFINE c == CodexContinuation(history)
  <2>3. c = 0 /\ c + 1 = 1
    BY <2>1
  <2>4. SubSeq(history, c + 1, Len(history)) = history
    BY <2>2, <2>3
  <2>5. IdsOf(AllParts("codex", history), "call") = <<>>
    BY <1>9
  <2> HIDE DEF c
  <2>6. Messages(SubSeq(history, c + 1, Len(history)))
    BY <1>8, <2>4
  <2>7. IdsOf(AllParts("codex", SubSeq(history, c + 1, Len(history))), "call") = <<>>
    BY <2>4, <2>5
  <2>8. ~(c > 0)
    BY <2>3
  <2> QED
    BY <2>6, <2>7, <2>8, Zenon DEF CodexPaired, c
<1> QED
  BY <1>8, <1>10, <1>11 DEF PairedInv

LEMMA NextPaired ==
  ASSUME CallInv, PairedInv, [CallNext]_callVars
  PROVE  PairedInv'
<1>1. CASE AskAgain
  BY <1>1, AgainPaired DEF CallInv
<1>2. CASE ~AskAgain
  <2>1. UNCHANGED <<wire, history>>
    BY <1>2 DEF CallNext, callVars, AskRefused, RetryAfterDelay, CanceledInBackoff, AskAccepted, Deliver,
                DeliverLast, StreamEnds, StreamBreaks
  <2> QED
    BY <2>1 DEF PairedInv
<1> QED
  BY <1>1, <1>2

\* In every request that is sent each tool call has its answer and each
\* answer its call, in the form of every protocol and however long the history.
THEOREM PairedRequestsAlways == CallSpec => []RequestsArePaired
<1>1. CallInit => PairedInv
  BY InitPaired
<1>2. CallInv /\ PairedInv /\ [CallNext]_callVars => PairedInv'
  BY NextPaired
<1>3. CallInv /\ PairedInv => RequestsArePaired
  BY PairedRequests DEF CallInv
<1> QED
  BY <1>1, <1>2, <1>3, CallInvariant, PTL DEF CallSpec

-----------------------------------------------------------------------------
(* The shape of the conversation.                                           *)

\* A request that waits for its delay was not the last that may be tried.
CallShape == CallTypeOK /\ (stage = "backoff" => attempt < MaxRetries)

LEMMA RefusedIsNone == ~Refused.ok
  BY DEF Refused

LEMMA InitShape ==
  ASSUME ProviderBounds, CallInit
  PROVE  CallShape
<1>1. /\ wire \in Wire /\ attempt = 0 /\ asked = 0 /\ stage = "asking" /\ result = Refused
      /\ MaxRetries \in Nat /\ MaxAsked \in Nat
  BY DEF ProviderBounds, CallInit
<1> QED
  BY <1>1, RefusedIsNone DEF CallShape, CallTypeOK

LEMMA NextShape ==
  ASSUME ProviderBounds, CallShape, [CallNext]_callVars
  PROVE  CallShape'
<1> USE DEF ProviderBounds, CallShape, CallTypeOK
<1>1. CASE AskRefused
  BY <1>1 DEF AskRefused
<1>2. CASE RetryAfterDelay
  BY <1>2 DEF RetryAfterDelay
<1>3. CASE CanceledInBackoff
  BY <1>3 DEF CanceledInBackoff
<1>4. CASE AskAccepted
  <2>1. UNCHANGED <<wire, attempt, result, asked>> /\ stage' = "streaming" /\ stage = "asking"
    BY <1>4 DEF AskAccepted
  <2> QED
    BY <2>1
<1>5. ASSUME NEW s \in 1 .. MaxCalls + 1, Deliver(s) PROVE CallShape'
  <2>1. UNCHANGED <<wire, attempt, result, asked, stage>>
    BY <1>5 DEF Deliver
  <2> QED
    BY <2>1
<1>6. CASE DeliverLast
  <2>1. UNCHANGED <<wire, attempt, result, asked>> /\ stage' \in {"closing", "closed"}
        /\ stage \in {"streaming", "closing"}
    BY <1>6 DEF DeliverLast
  <2> QED
    BY <2>1
<1>7. CASE StreamEnds
  <2>1. UNCHANGED <<wire, attempt, asked>> /\ stage' = IF result'.ok THEN "returned" ELSE "refused"
    BY <1>7 DEF StreamEnds
  <2> QED
    BY <2>1
<1>8. CASE StreamBreaks
  BY <1>8, RefusedIsNone DEF StreamBreaks
<1>9. CASE AskAgain
  <2>1. /\ stage' = "asking" /\ attempt' = 0 /\ asked' = asked + 1 /\ asked < MaxAsked
        /\ result' = Refused /\ UNCHANGED wire
    BY <1>9 DEF AskAgain
  <2> QED
    BY <2>1, RefusedIsNone
<1>10. CASE UNCHANGED callVars
  BY <1>10 DEF callVars
<1> QED
  BY <1>1, <1>2, <1>3, <1>4, <1>5, <1>6, <1>7, <1>8, <1>9, <1>10 DEF CallNext

\* A request is tried again at most MaxRetries times, and nothing counts as
\* returned while the conversation is elsewhere.
THEOREM CallTyped == CallSpec => []CallTypeOK
<1>1. CallInit => CallShape
  BY ProviderBounds, InitShape
<1>2. CallShape /\ [CallNext]_callVars => CallShape'
  BY ProviderBounds, NextShape
<1>3. CallShape => CallTypeOK
  BY DEF CallShape
<1> QED
  BY <1>1, <1>2, <1>3, PTL DEF CallSpec
=============================================================================
