---------------------------- MODULE AgentLoopProofs ----------------------------
(***************************************************************************)
(* Proofs about AgentLoop, for every number of calls, answers, retries and *)
(* injected messages.                                                      *)
(*                                                                         *)
(* The context is in order because it is so at every step: what is settled *)
(* stays settled when messages are appended, only the last answer can have *)
(* calls under way, and only the end of a run can be an error, which the   *)
(* retry takes off and which an overflow throws away.                      *)
(***************************************************************************)
EXTENDS AgentLoop, TLAPS

\* Message i is no error, and its calls and results are complete.
SettledAt(s, i) ==
  /\ ~IsError(s[i])
  /\ s[i].role = "assistant" => Answered(s, i)
  /\ s[i].role = "tool" => Called(s, i)

Settled(s) == \A i \in DOMAIN s : SettledAt(s, i)

\* An error, with whatever calls it has, may come at the end.
SettledBeforeEnd(s) ==
  \A i \in DOMAIN s : SettledAt(s, i) \/ (i = Len(s) /\ IsError(s[i]))

\* The last answer, at place a, has calls, and the results of those before call k.
UnderWay(s, a, k) ==
  /\ s[a].role = "assistant" /\ ~IsError(s[a])
  /\ s[a].calls >= 1 /\ k \in 1 .. s[a].calls + 1
  /\ Len(s) = a + k - 1
  /\ \A i \in 1 .. a - 1 : SettledAt(s, i)
  /\ \A j \in 1 .. k - 1 : s[a + j].role = "tool" /\ s[a + j].call = j

\* Its calls are those that the loop works on; several are executed one after
\* the other only when the answer was cut off.
CallsUnderWay(s, a) ==
  /\ UnderWay(s, a, next)
  /\ s[a].calls = Len(outcome)
  /\ phase = "sequential" => Len(outcome) = 1 \/ s[a].stop = "length"

\* A context of a history of h messages and then the prompt of the turn.
Framed(s, h) ==
  /\ h < Len(s)
  /\ s[h + 1] = User(Prompt)
  /\ \A i \in DOMAIN s : s[i].role = "history" <=> i <= h

HasPrompt == messages # <<>> => \E h \in HookedLengths : Framed(messages, h)

\* What the phase of a run says about its messages.
PhaseFits ==
  /\ phase = "start" => Settled(messages) /\ (continuing \/ messages = <<>>)
  /\ phase \in {"drain", "provider", "refused"} =>
       /\ Settled(messages)
       /\ messages # <<>> /\ Last(messages).role # "assistant"
  /\ phase = "answered" => Settled(messages) /\ messages # <<>>
  /\ phase \in {"parallel", "sequential"} => \E a \in DOMAIN messages : CallsUnderWay(messages, a)
  /\ phase = "ended" =>
       /\ SettledBeforeEnd(messages)
       /\ runErr = "none" => Settled(messages)
  /\ phase = "backoff" => SettledBeforeEnd(messages)

IsAborted(x) == x.role = "assistant" /\ x.stop = "aborted"

\* Answers are aborted only when the context is done, and then not retried.
AbortsFit ==
  /\ \A i \in DOMAIN messages : IsAborted(messages[i]) => ctxDone
  /\ phase = "backoff" => \A i \in DOMAIN messages : ~IsAborted(messages[i])

\* What is saved is the end of the messages, behind the history's length.
SaveFits ==
  /\ phase # "saved" => saved = <<>> /\ verdict = "none"
  /\ phase = "saved" =>
       /\ Len(messages) >= HistoryLength
       /\ saved = SubSeq(messages, HistoryLength + 1, Len(messages))
       /\ SettledBeforeEnd(messages)
       /\ verdict = "completed" => Settled(messages)
       /\ verdict = "aborted" => ctxDone

AgentInv ==
  /\ AgentTypeOK
  /\ HasPrompt
  /\ PhaseFits
  /\ AbortsFit
  /\ SaveFits

-----------------------------------------------------------------------------
(* Messages.                                                                *)

\* What the role of a message says of it.
LEMMA MessageShapes ==
  ASSUME NEW x \in Message
  PROVE  /\ x.role \in {"history", "user", "assistant", "tool"}
         /\ x.role = "assistant" =>
              /\ x.calls \in 0 .. MaxCalls
              /\ x.stop \in {"stop", "length", "error", "aborted"}
         /\ x.role = "user" => x.id \in Injected \cup {Prompt}
         /\ x.role = "tool" => x.call \in 1 .. MaxCalls /\ x.result \in ToolOutcome \cup {"aborted"}
BY DEF Message

\* The messages that a run makes.
LEMMA MadeMessages ==
  /\ [role |-> "history"] \in Message
  /\ \A m \in Injected \cup {Prompt} :
       User(m) \in Message /\ User(m).role = "user" /\ User(m).id = m
  /\ \A n \in 0 .. MaxCalls, r \in {"stop", "length", "error", "aborted"} :
       /\ Assistant(n, r) \in Message
       /\ Assistant(n, r).role = "assistant"
       /\ Assistant(n, r).calls = n
       /\ Assistant(n, r).stop = r
  /\ \A j \in 1 .. MaxCalls, r \in ToolOutcome \cup {"aborted"} :
       /\ ToolResult(j, r) \in Message
       /\ ToolResult(j, r).role = "tool"
       /\ ToolResult(j, r).call = j
<1>1. [role |-> "history"] \in Message
  BY DEF Message
<1>2. \A m \in Injected \cup {Prompt} :
        User(m) \in Message /\ User(m).role = "user" /\ User(m).id = m
  BY DEF Message, User
<1>3. \A n \in 0 .. MaxCalls, r \in {"stop", "length", "error", "aborted"} :
        /\ Assistant(n, r) \in Message
        /\ Assistant(n, r).role = "assistant"
        /\ Assistant(n, r).calls = n
        /\ Assistant(n, r).stop = r
  BY DEF Message, Assistant
<1>4. \A j \in 1 .. MaxCalls, r \in ToolOutcome \cup {"aborted"} :
        /\ ToolResult(j, r) \in Message
        /\ ToolResult(j, r).role = "tool"
        /\ ToolResult(j, r).call = j
  BY DEF Message, ToolResult
<1> QED
  BY <1>1, <1>2, <1>3, <1>4

\* Context r begins with context s.
Begins(s, r) == Len(s) <= Len(r) /\ \A i \in DOMAIN s : r[i] = s[i]

\* What is settled stays settled when messages are appended.
LEMMA SettledStays ==
  ASSUME NEW s \in Seq(Message), NEW r \in Seq(Message), Begins(s, r),
         NEW i \in DOMAIN s, SettledAt(s, i)
  PROVE  SettledAt(r, i)
<1>1. i \in 1 .. Len(s) /\ s[i] \in Message /\ r[i] = s[i]
  BY DEF Begins
<1>2. s[i].role = "assistant" => Answered(r, i)
  BY <1>1 DEF SettledAt, Answered, Begins
<1>3. ASSUME s[i].role = "tool" PROVE Called(r, i)
  <2>1. s[i].call \in Nat \ {0} /\ s[i].call < i
    BY <1>1, <1>3, MessageShapes, AgentAssumption DEF SettledAt, Called
  <2>2. i - s[i].call \in DOMAIN s
    BY <1>1, <2>1
  <2>3. r[i - s[i].call] = s[i - s[i].call]
    BY <2>2 DEF Begins
  <2> QED
    BY <1>1, <1>3, <2>1, <2>3 DEF SettledAt, Called
<1> QED
  BY <1>1, <1>2, <1>3 DEF SettledAt

\* Users and answers without calls leave a context settled.
LEMMA SettledGrows ==
  ASSUME NEW s \in Seq(Message), NEW r \in Seq(Message), Begins(s, r), Settled(s),
         \A i \in Len(s) + 1 .. Len(r) : SettledAt(r, i)
  PROVE  Settled(r)
BY SettledStays DEF Settled, Begins

\* The frame of a context stays when messages are appended.
LEMMA FrameStays ==
  ASSUME NEW s \in Seq(Message), NEW r \in Seq(Message), Begins(s, r), NEW h \in Nat, Framed(s, h),
         \A i \in Len(s) + 1 .. Len(r) : r[i].role # "history"
  PROVE  Framed(r, h)
<1>1. h < Len(r) /\ r[h + 1] = User(Prompt)
  BY DEF Framed, Begins
<1>2. \A i \in DOMAIN r : r[i].role = "history" <=> i <= h
  BY DEF Framed, Begins
<1> QED
  BY <1>1, <1>2 DEF Framed

\* A message at the end.
LEMMA AppendedMessage ==
  ASSUME NEW s \in Seq(Message), NEW x \in Message
  PROVE  /\ Append(s, x) \in Seq(Message)
         /\ Len(Append(s, x)) = Len(s) + 1
         /\ Append(s, x)[Len(s) + 1] = x
         /\ Last(Append(s, x)) = x
         /\ Begins(s, Append(s, x))
BY DEF Begins, Last

\* Queued messages at the end.
LEMMA AppendedUsers ==
  ASSUME NEW s \in Seq(Message), NEW q \in Seq(Injected)
  PROVE  LET r == s \o Users(q)
         IN  /\ r \in Seq(Message)
             /\ Len(r) = Len(s) + Len(q)
             /\ \A i \in Len(s) + 1 .. Len(r) : r[i].role = "user"
             /\ Begins(s, r)
<1>1. Users(q) \in Seq(Message) /\ Len(Users(q)) = Len(q)
  <2>1. \A i \in DOMAIN q : User(q[i]) \in Message
    BY MadeMessages
  <2> QED
    BY <2>1 DEF Users
<1>2. \A i \in DOMAIN q : Users(q)[i].role = "user"
  BY MadeMessages DEF Users
<1> DEFINE r == s \o Users(q)
<1>3. /\ r \in Seq(Message) /\ Len(r) = Len(s) + Len(q)
      /\ \A i \in 1 .. Len(s) : r[i] = s[i]
      /\ \A i \in Len(s) + 1 .. Len(r) : r[i] = Users(q)[i - Len(s)]
  BY <1>1
<1> HIDE DEF r
<1>4. \A i \in Len(s) + 1 .. Len(r) : i - Len(s) \in DOMAIN q
  BY <1>3
<1>5. \A i \in Len(s) + 1 .. Len(r) : r[i].role = "user"
  BY <1>2, <1>3, <1>4
<1> QED
  BY <1>3, <1>5 DEF Begins, r

\* Users need nothing after them.
LEMMA UserSettled ==
  ASSUME NEW s, NEW i, s[i].role \in {"user", "history"}
  PROVE  SettledAt(s, i)
BY DEF SettledAt, IsError

\* What a drain takes is of the queue, and something if there is anything.
LEMMA TakenTyped ==
  ASSUME NEW q \in Seq(Injected), NEW m \in {"all", "one"}
  PROVE  /\ Taken(q, m) \in Seq(Injected) /\ Left(q, m) \in Seq(Injected)
         /\ q # <<>> => Len(Taken(q, m)) >= 1
BY DEF Taken, Left

\* The largest number of a set, where there is one.
LEMMA MaxIs ==
  ASSUME NEW S \in SUBSET Nat, NEW i \in S, \A j \in S : j <= i
  PROVE  Max(S) = i
<1>1. \E x \in S : \A y \in S : x >= y
  OBVIOUS
<1>2. Max(S) \in S /\ \A y \in S : Max(S) >= y
  BY <1>1, Zenon DEF Max
<1> DEFINE m == Max(S)
<1> HIDE DEF m
<1>3. m \in S /\ m >= i /\ m <= i
  BY <1>2 DEF m
<1>4. m = i
  BY <1>3
<1> QED
  BY <1>4 DEF m

\* The history of a framed context is as long as its frame says.
LEMMA PastIs ==
  ASSUME NEW s \in Seq(Message), NEW h \in Nat, Framed(s, h)
  PROVE  PastLength(s) = h
<1> DEFINE S == {0} \cup {i \in DOMAIN s : s[i].role = "history"}
<1>1. S \in SUBSET Nat
  OBVIOUS
<1>2. h \in S
  <2>1. h = 0 \/ h \in DOMAIN s
    BY DEF Framed
  <2> QED
    BY <2>1 DEF Framed
<1>3. \A j \in S : j <= h
  BY DEF Framed
<1> HIDE DEF S
<1>4. Max(S) = h
  BY <1>1, <1>2, <1>3, MaxIs
<1> QED
  BY <1>4 DEF S, PastLength

\* A hook puts n messages in the place of the history, and leaves the rest.
LEMMA HookedIs ==
  ASSUME NEW s \in Seq(Message), NEW h \in Nat, Framed(s, h), NEW n \in Nat
  PROVE  /\ Hooked(n, s) \in Seq(Message)
         /\ Len(Hooked(n, s)) = n + Len(s) - h
         /\ \A i \in 1 .. n : Hooked(n, s)[i].role = "history"
         /\ \A i \in n + 1 .. Len(Hooked(n, s)) :
              i - n + h \in h + 1 .. Len(s) /\ Hooked(n, s)[i] = s[i - n + h]
<1> DEFINE past == History(n)
           rest == SubSeq(s, h + 1, Len(s))
<1>1. past \in Seq(Message) /\ Len(past) = n /\ \A i \in 1 .. n : past[i].role = "history"
  BY MadeMessages DEF History
<1>2. h < Len(s)
  BY DEF Framed
<1>3. /\ rest \in Seq(Message) /\ Len(rest) = Len(s) - h
      /\ \A i \in 1 .. Len(s) - h : rest[i] = s[i + h]
  BY <1>2
<1>4. Hooked(n, s) = past \o rest
  BY PastIs DEF Hooked
<1> DEFINE r == past \o rest
           m == Len(s) - h
<1> HIDE DEF past, rest, m
<1>5. m \in Nat /\ m = Len(s) - h /\ Len(rest) = m
  BY <1>2, <1>3 DEF m
<1>6. /\ r \in Seq(Message) /\ Len(r) = n + m
      /\ \A i \in 1 .. n : r[i] = past[i]
      /\ \A i \in n + 1 .. n + m : r[i] = rest[i - n]
  <2>1. past \in Seq(Message) /\ rest \in Seq(Message) /\ Len(past) = n /\ Len(rest) = m
    BY <1>1, <1>3, <1>5
  <2>2. /\ r \in Seq(Message) /\ Len(r) = Len(past) + Len(rest)
        /\ \A i \in 1 .. Len(past) + Len(rest) :
             r[i] = IF i <= Len(past) THEN past[i] ELSE rest[i - Len(past)]
    BY <2>1, SMTT(20)
  <2> HIDE DEF r
  <2>3. r \in Seq(Message) /\ Len(r) = n + m
    BY <2>1, <2>2
  <2>4. ASSUME NEW i \in 1 .. n PROVE r[i] = past[i]
    <3>1. i \in 1 .. n + m /\ i <= n
      BY <1>5
    <3> QED
      BY <2>1, <2>2, <3>1
  <2>5. ASSUME NEW i \in n + 1 .. n + m PROVE r[i] = rest[i - n]
    <3>1. i \in 1 .. n + m /\ ~(i <= n)
      BY <1>5
    <3> QED
      BY <2>1, <2>2, <3>1
  <2> QED
    BY <2>3, <2>4, <2>5
<1> HIDE DEF r
<1>7. Len(r) = n + Len(s) - h
  BY <1>5, <1>6
<1>8. \A i \in 1 .. n : r[i].role = "history"
  BY <1>1, <1>6
<1>9. ASSUME NEW i \in n + 1 .. Len(r)
      PROVE  i - n + h \in h + 1 .. Len(s) /\ r[i] = s[i - n + h]
  <2>1. i - n \in 1 .. Len(s) - h /\ i - n + h \in h + 1 .. Len(s)
    BY <1>2, <1>7
  <2>2. r[i] = rest[i - n] /\ rest[i - n] = s[i - n + h]
    BY <1>3, <1>5, <1>6, <2>1
  <2> QED
    BY <2>1, <2>2
<1>10. Hooked(n, s) = r
  BY <1>4 DEF r
<1> QED
  BY <1>6, <1>7, <1>8, <1>9, <1>10

\* What was settled is so with the hook's history.
LEMMA HookedSettled ==
  ASSUME NEW s \in Seq(Message), NEW h \in Nat, Framed(s, h), NEW n \in Nat, Settled(s)
  PROVE  /\ Framed(Hooked(n, s), n)
         /\ Settled(Hooked(n, s))
         /\ Last(Hooked(n, s)) = Last(s)
<1> DEFINE r == Hooked(n, s)
<1>1. /\ r \in Seq(Message) /\ Len(r) = n + Len(s) - h
      /\ \A i \in 1 .. n : r[i].role = "history"
      /\ \A i \in n + 1 .. Len(r) : i - n + h \in h + 1 .. Len(s) /\ r[i] = s[i - n + h]
  BY HookedIs
<1> HIDE DEF r
<1>2. /\ h < Len(s) /\ s[h + 1] = User(Prompt)
      /\ \A i \in DOMAIN s : s[i].role = "history" <=> i <= h
  BY DEF Framed
<1>3. Framed(r, n)
  <2>1. n < Len(r) /\ r[n + 1] = User(Prompt)
    <3>1. n + 1 \in n + 1 .. Len(r) /\ n + 1 - n + h = h + 1
      BY <1>1, <1>2
    <3> QED
      BY <1>1, <1>2, <3>1
  <2>2. \A i \in DOMAIN r : r[i].role = "history" <=> i <= n
    BY <1>1, <1>2
  <2> QED
    BY <2>1, <2>2 DEF Framed
<1>4. Last(r) = Last(s)
  BY <1>1, <1>2 DEF Last
<1>5. ASSUME NEW i \in DOMAIN r PROVE SettledAt(r, i)
  <2>1. CASE i <= n
    BY <1>1, <2>1, UserSettled
  <2>2. CASE i > n
    <3> DEFINE k == i - n + h
    <3>1. k \in h + 1 .. Len(s) /\ k \in DOMAIN s /\ r[i] = s[k]
      BY <1>1, <1>2, <2>2, SMTT(20)
    <3>2. SettledAt(s, k) /\ s[k] \in Message
      BY <3>1 DEF Settled
    <3>3. ASSUME NEW j \in Nat, k + j \in DOMAIN s
          PROVE  i + j \in DOMAIN r /\ r[i + j] = s[k + j]
      <4>1. i \in Nat /\ Len(s) \in Nat /\ k + j <= Len(s)
        BY <3>3
      <4>2. i + j \in n + 1 .. n + Len(s) - h /\ i + j - n + h = k + j
        BY <2>2, <4>1
      <4>3. i + j \in n + 1 .. Len(r) /\ i + j \in DOMAIN r
        BY <1>1, <4>2
      <4>4. r[i + j] = s[i + j - n + h]
        BY <1>1, <4>3, SMTT(20)
      <4> QED
        BY <4>2, <4>3, <4>4
    <3>4. r[i].role = "assistant" => Answered(r, i)
      BY <3>1, <3>2, <3>3, MessageShapes, AgentAssumption DEF SettledAt, Answered
    <3>5. ASSUME r[i].role = "tool" PROVE Called(r, i)
      <4> DEFINE c == s[k].call
      <4>1. c \in Nat \ {0} /\ c < k /\ s[k - c].role = "assistant" /\ c <= s[k - c].calls
        BY <3>1, <3>2, <3>5, MessageShapes, AgentAssumption DEF SettledAt, Called
      <4> HIDE DEF c
      <4>2. k - c \in DOMAIN s /\ ~(k - c <= h)
        BY <1>2, <3>1, <4>1
      <4>3. c < i /\ i - c \in n + 1 .. Len(r) /\ i - c - n + h = k - c
        BY <1>1, <1>2, <2>2, <3>1, <4>1, <4>2, SMTT(20)
      <4>4. r[i - c] = s[k - c]
        BY <1>1, <4>3
      <4> QED
        BY <3>1, <4>1, <4>3, <4>4 DEF Called, c
    <3> QED
      BY <3>1, <3>2, <3>4, <3>5 DEF SettledAt
  <2> QED
    BY <1>1, <2>1, <2>2
<1> QED
  BY <1>3, <1>4, <1>5 DEF Settled, r

\* Without the error at its end, a context is settled.
LEMMA TrimmedSettled ==
  ASSUME NEW s \in Seq(Message), SettledBeforeEnd(s), \A i \in DOMAIN s : ~IsAborted(s[i])
  PROVE  /\ Trimmed(s) \in Seq(Message)
         /\ Settled(Trimmed(s))
         /\ Begins(Trimmed(s), s)
         /\ \A h \in Nat : Framed(s, h) => Framed(Trimmed(s), h)
<1>1. CASE s # <<>> /\ IsError(Last(s))
  <2>0. PICK n \in Nat : Len(s) = n + 1
    BY <1>1
  <2> DEFINE r == SubSeq(s, 1, n)
  <2>1. Len(s) \in Nat \ {0} /\ Last(s) = s[Len(s)] /\ Len(s) \in DOMAIN s
    BY <1>1 DEF Last
  <2>2. Trimmed(s) = r
    <3>1. Last(s).role = "assistant" /\ Last(s).stop = "error"
      BY <1>1, <2>1 DEF IsError, IsAborted
    <3> QED
      BY <1>1, <2>0, <3>1 DEF Trimmed
  <2>3. /\ r \in Seq(Message) /\ Len(r) = Len(s) - 1
        /\ \A i \in 1 .. Len(s) - 1 : r[i] = s[i]
    <3>1. n <= Len(s)
      BY <2>0
    <3>2. r \in Seq(Message) /\ Len(r) = n /\ \A i \in 1 .. n : r[i] = s[i]
      BY <3>1
    <3> HIDE DEF r
    <3> QED
      BY <2>0, <3>2
  <2> HIDE DEF r
  <2>4. ASSUME NEW i \in DOMAIN r PROVE SettledAt(r, i)
    <3>1. i \in DOMAIN s /\ i # Len(s) /\ r[i] = s[i] /\ i \in 1 .. Len(s) - 1
      BY <2>1, <2>3
    <3>2. SettledAt(s, i) /\ s[i] \in Message
      BY <3>1 DEF SettledBeforeEnd
    <3>3. ASSUME r[i].role = "assistant" PROVE Answered(r, i)
      <4>1. s[i].calls \in Nat /\ \A j \in 1 .. s[i].calls :
              i + j \in DOMAIN s /\ s[i + j].role = "tool" /\ s[i + j].call = j
        BY <3>1, <3>2, <3>3, MessageShapes, AgentAssumption DEF SettledAt, Answered
      <4>2. \A j \in 1 .. s[i].calls : i + j # Len(s)
        BY <1>1, <2>1, <4>1 DEF IsError
      <4>3. ASSUME NEW j \in 1 .. s[i].calls PROVE i + j \in DOMAIN r /\ r[i + j] = s[i + j]
        <5>1. i + j \in 1 .. Len(s) /\ i + j # Len(s)
          BY <4>1, <4>2
        <5>2. i + j \in 1 .. Len(s) - 1
          BY <2>1, <5>1
        <5>3. r[i + j] = s[i + j] /\ Len(r) = Len(s) - 1 /\ DOMAIN r = 1 .. Len(r)
          BY <2>3, <5>2
        <5> QED
          BY <5>2, <5>3
      <4> QED
        BY <3>1, <4>1, <4>3 DEF Answered
    <3>4. ASSUME r[i].role = "tool" PROVE Called(r, i)
      <4>1. s[i].call \in Nat \ {0} /\ s[i].call < i
        BY <3>1, <3>2, <3>4, MessageShapes, AgentAssumption DEF SettledAt, Called
      <4>2. i - s[i].call \in 1 .. Len(s) - 1
        BY <3>1, <4>1
      <4> QED
        BY <2>3, <3>1, <3>2, <3>4, <4>1, <4>2 DEF SettledAt, Called
    <3> QED
      BY <3>1, <3>2, <3>3, <3>4 DEF SettledAt
  <2>5. ASSUME NEW h \in Nat, Framed(s, h) PROVE Framed(r, h)
    <3>1. h < Len(s) /\ s[h + 1].role = "user" /\ s[h + 1] = User(Prompt)
      BY <2>5, MadeMessages DEF Framed
    <3>2. h + 1 # Len(s)
      BY <1>1, <2>1, <3>1 DEF IsError
    <3> QED
      BY <2>1, <2>3, <2>5, <3>1, <3>2 DEF Framed
  <2> QED
    BY <2>1, <2>2, <2>3, <2>4, <2>5 DEF Settled, Begins
<1>2. CASE ~(s # <<>> /\ IsError(Last(s)))
  <2>1. Trimmed(s) = s
    BY <1>2 DEF Trimmed, IsError
  <2>2. \A i \in DOMAIN s : SettledAt(s, i)
    BY <1>2 DEF SettledBeforeEnd, Last
  <2> QED
    BY <2>1, <2>2 DEF Settled, Begins
<1> QED
  BY <1>1, <1>2

-----------------------------------------------------------------------------
(* The steps of a run.                                                      *)

\* Until a run is saved, there is nothing to say of what it saves.
LEMMA NothingSavedYet ==
  ASSUME SaveFits, phase # "saved", phase' # "saved", UNCHANGED <<saved, verdict>>
  PROVE  SaveFits'
BY DEF SaveFits

\* The prompt of a context stays where it is when messages are appended.
LEMMA PromptStays ==
  ASSUME messages \in Seq(Message), messages' \in Seq(Message), messages # <<>>,
         HasPrompt, Begins(messages, messages'),
         \A i \in Len(messages) + 1 .. Len(messages') : messages'[i].role # "history"
  PROVE  HasPrompt'
<1>1. PICK h \in HookedLengths : Framed(messages, h)
  BY DEF HasPrompt
<1>2. Framed(messages', h)
  BY <1>1, FrameStays, AgentAssumption
<1> QED
  BY <1>2 DEF HasPrompt

\* A run starts with a settled context that asks for an answer.
LEMMA StartStep ==
  ASSUME AgentInv, Start
  PROVE  AgentInv'
<1>1. /\ AgentTypeOK /\ HasPrompt /\ AbortsFit /\ SaveFits
      /\ Settled(messages) /\ (continuing \/ messages = <<>>)
  BY DEF AgentInv, PhaseFits, Start
<1> DEFINE s == IF continuing THEN messages ELSE <<User(Prompt)>>
<1>2. PICK n \in HookedLengths : messages' = Hooked(n, s)
  BY DEF Start
<1>3. /\ phase = "start" /\ phase' = "drain" /\ runErr' = "none"
      /\ UNCHANGED <<queueVars, ctxDone, outcome, next, answers, turnVars>>
  BY DEF Start
<1>4. n \in Nat
  BY AgentAssumption
<1>5. \E h \in Nat : /\ s \in Seq(Message) /\ Framed(s, h) /\ Settled(s)
                     /\ Last(s).role # "assistant"
                     /\ \A i \in DOMAIN s : ~(s[i].role = "history") /\ IsAborted(s[i]) => ctxDone
  <2>1. CASE continuing
    <3>1. messages # <<>> /\ Last(messages).role # "assistant"
      BY <2>1 DEF Start, CannotContinue
    <3>2. PICK h \in HookedLengths : Framed(messages, h)
      BY <1>1, <3>1 DEF HasPrompt
    <3> QED
      BY <1>1, <2>1, <3>1, <3>2, AgentAssumption DEF AbortsFit, AgentTypeOK
  <2>2. CASE ~continuing
    <3> DEFINE u == User(Prompt)
    <3>1. u \in Message /\ u.role = "user"
      BY MadeMessages
    <3> HIDE DEF u
    <3>2. <<u>> \in Seq(Message) /\ Len(<<u>>) = 1 /\ <<u>>[1] = u
      BY <3>1
    <3>3. u = User(Prompt) /\ s = <<u>>
      BY <2>2 DEF u
    <3>4. Framed(s, 0) /\ Last(s) = u
      BY <3>1, <3>2, <3>3 DEF Framed, Last
    <3>5. Settled(s)
      BY <3>1, <3>2, <3>3, UserSettled DEF Settled
    <3>6. \A i \in DOMAIN s : ~IsAborted(s[i])
      BY <3>1, <3>2, <3>3 DEF IsAborted
    <3>7. s \in Seq(Message) /\ Last(s).role # "assistant" /\ 0 \in Nat
      BY <3>1, <3>2, <3>3, <3>4
    <3> HIDE DEF s
    <3> QED
      BY <3>4, <3>5, <3>6, <3>7
  <2> QED
    BY <2>1, <2>2
<1> HIDE DEF s
<1>6. PICK h \in Nat : /\ s \in Seq(Message) /\ Framed(s, h) /\ Settled(s)
                       /\ Last(s).role # "assistant"
                       /\ \A i \in DOMAIN s : ~(s[i].role = "history") /\ IsAborted(s[i]) => ctxDone
  BY <1>5
<1>7. /\ Framed(messages', n) /\ Settled(messages') /\ Last(messages') = Last(s)
      /\ messages' \in Seq(Message)
  BY <1>2, <1>4, <1>6, HookedIs, HookedSettled
<1>8. \A i \in DOMAIN messages' : IsAborted(messages'[i]) => ctxDone
  <2> SUFFICES ASSUME NEW i \in DOMAIN messages', IsAborted(messages'[i])
               PROVE  ctxDone
    OBVIOUS
  <2>1. i \in n + 1 .. Len(messages')
    BY <1>4, <1>7 DEF Framed, IsAborted
  <2>2. i - n + h \in h + 1 .. Len(s) /\ messages'[i] = s[i - n + h]
    BY <1>2, <1>4, <1>6, <2>1, HookedIs
  <2>3. i - n + h \in DOMAIN s /\ s[i - n + h].role = "assistant"
    BY <1>6, <2>2 DEF IsAborted
  <2> QED
    BY <1>6, <2>2, <2>3
<1>9. messages' # <<>>
  BY <1>4, <1>7 DEF Framed
<1>10. AgentTypeOK'
  BY <1>1, <1>3, <1>7 DEF AgentTypeOK, Phases, queueVars, turnVars
<1>11. HasPrompt'
  BY <1>7 DEF HasPrompt
<1>12. PhaseFits'
  BY <1>3, <1>6, <1>7, <1>9 DEF PhaseFits
<1>13. AbortsFit'
  BY <1>3, <1>8 DEF AbortsFit
<1>14. SaveFits'
  BY <1>1, <1>3, NothingSavedYet DEF turnVars
<1> QED
  BY <1>10, <1>11, <1>12, <1>13, <1>14 DEF AgentInv

\* A run that cannot start has no messages.
LEMMA NoStartStep ==
  ASSUME AgentInv, StartRefused \/ StartFails
  PROVE  AgentInv'
<1>1. AgentTypeOK /\ SaveFits
  BY DEF AgentInv
<1>2. /\ phase = "start" /\ phase' = "ended" /\ runErr' \in Errors
      /\ messages' = <<>>
      /\ UNCHANGED <<queueVars, ctxDone, outcome, next, answers, turnVars>>
  BY DEF StartRefused, StartFails, End, Errors
<1>3. AgentTypeOK'
  BY <1>1, <1>2 DEF AgentTypeOK, Phases, queueVars, turnVars
<1>4. PhaseFits'
  BY <1>2 DEF PhaseFits, SettledBeforeEnd, Settled
<1>5. HasPrompt' /\ AbortsFit'
  BY <1>2 DEF HasPrompt, AbortsFit
<1>6. SaveFits'
  BY <1>1, <1>2, NothingSavedYet DEF turnVars
<1> QED
  BY <1>3, <1>4, <1>5, <1>6 DEF AgentInv

\* Users at the end of a settled context leave it settled.
LEMMA UsersStep ==
  ASSUME AgentTypeOK, HasPrompt, AbortsFit, Settled(messages), messages # <<>>,
         NEW q \in Seq(Injected), messages' = messages \o Users(q),
         UNCHANGED ctxDone, phase' # "backoff"
  PROVE  /\ messages' \in Seq(Message) /\ messages' # <<>>
         /\ HasPrompt' /\ AbortsFit' /\ Settled(messages')
         /\ Last(messages').role = "assistant" => q = <<>> /\ Last(messages).role = "assistant"
<1>1. messages \in Seq(Message)
  BY DEF AgentTypeOK
<1>2. /\ messages' \in Seq(Message)
      /\ Len(messages') = Len(messages) + Len(q)
      /\ \A i \in Len(messages) + 1 .. Len(messages') : messages'[i].role = "user"
      /\ Begins(messages, messages')
  BY <1>1, AppendedUsers
<1>3. HasPrompt'
  BY <1>1, <1>2, PromptStays
<1>4. Settled(messages')
  <2>1. \A i \in Len(messages) + 1 .. Len(messages') : SettledAt(messages', i)
    BY <1>2 DEF SettledAt, IsError
  <2>2. \A i \in DOMAIN messages : SettledAt(messages', i)
    BY <1>1, <1>2, SettledStays DEF Settled
  <2> QED
    BY <1>1, <1>2, <2>1, <2>2 DEF Settled
<1>5. AbortsFit'
  BY <1>1, <1>2 DEF AbortsFit, IsAborted, Begins
<1>6. Len(messages) >= 1 /\ messages' # <<>>
  BY <1>1, <1>2
<1>7. Last(messages').role = "assistant" => q = <<>> /\ Last(messages).role = "assistant"
  <2>1. CASE Len(q) = 0
    BY <1>1, <1>2, <1>6, <2>1 DEF Last, Begins
  <2>2. CASE Len(q) >= 1
    BY <1>1, <1>2, <1>6, <2>2, SMTT(20) DEF Last
  <2> QED
    BY <2>1, <2>2
<1> QED
  BY <1>2, <1>3, <1>4, <1>5, <1>6, <1>7

\* Steering goes behind what the provider is to answer.
LEMMA DrainStep ==
  ASSUME AgentInv, Drain
  PROVE  AgentInv'
<1>1. /\ AgentTypeOK /\ HasPrompt /\ AbortsFit /\ SaveFits
      /\ Settled(messages) /\ messages # <<>> /\ Last(messages).role # "assistant"
  BY DEF AgentInv, PhaseFits, Drain
<1> DEFINE q == Taken(steering, SteeringMode)
<1>2. /\ phase = "drain" /\ phase' \in {"refused", "provider"}
      /\ messages' = messages \o Users(q)
      /\ steering' = Left(steering, SteeringMode)
      /\ UNCHANGED <<followUp, accepted, ctxDone, outcome, next, runErr, answers, turnVars>>
  BY DEF Drain
<1>3. q \in Seq(Injected) /\ steering' \in Seq(Injected)
  BY <1>1, <1>2, TakenTyped, AgentAssumption DEF AgentTypeOK
<1> HIDE DEF q
<1>4. /\ messages' \in Seq(Message) /\ messages' # <<>>
      /\ HasPrompt' /\ AbortsFit' /\ Settled(messages')
      /\ Last(messages').role # "assistant"
  BY <1>1, <1>2, <1>3, UsersStep
<1>5. AgentTypeOK'
  BY <1>1, <1>2, <1>3, <1>4 DEF AgentTypeOK, Phases, turnVars
<1>6. PhaseFits'
  BY <1>2, <1>4 DEF PhaseFits
<1>7. SaveFits'
  BY <1>1, <1>2, NothingSavedYet DEF turnVars
<1> QED
  BY <1>4, <1>5, <1>6, <1>7 DEF AgentInv

\* Queued messages are what the provider is asked next.
LEMMA GoOnStep ==
  ASSUME AgentInv, GoOn
  PROVE  AgentInv'
<1>1. /\ AgentTypeOK /\ HasPrompt /\ AbortsFit /\ SaveFits
      /\ Settled(messages) /\ messages # <<>>
      /\ steering \in Seq(Injected) /\ followUp \in Seq(Injected)
  BY DEF AgentInv, PhaseFits, GoOn, AgentTypeOK
<1>2. /\ phase = "answered" /\ phase' = "drain"
      /\ UNCHANGED <<accepted, ctxDone, outcome, next, runErr, answers, turnVars>>
  BY DEF GoOn
<1>3. PICK q \in Seq(Injected) :
        /\ messages' = messages \o Users(q) /\ Len(q) >= 1
        /\ steering' \in Seq(Injected) /\ followUp' \in Seq(Injected)
  <2>1. CASE steering # <<>>
    BY <1>1, <2>1, TakenTyped, AgentAssumption DEF GoOn
  <2>2. CASE steering = <<>>
    BY <1>1, <2>2, TakenTyped, AgentAssumption DEF GoOn
  <2> QED
    BY <2>1, <2>2
<1>4. /\ messages' \in Seq(Message) /\ messages' # <<>>
      /\ HasPrompt' /\ AbortsFit' /\ Settled(messages')
      /\ Last(messages').role # "assistant"
  <2>1. q # <<>> /\ phase' # "backoff" /\ UNCHANGED ctxDone
    BY <1>2, <1>3
  <2> QED
    BY <1>1, <1>3, <2>1, UsersStep
<1>5. AgentTypeOK'
  BY <1>1, <1>2, <1>3, <1>4 DEF AgentTypeOK, Phases, turnVars
<1>6. PhaseFits'
  BY <1>2, <1>4 DEF PhaseFits
<1>7. SaveFits'
  BY <1>1, <1>2, NothingSavedYet DEF turnVars
<1> QED
  BY <1>4, <1>5, <1>6, <1>7 DEF AgentInv

\* A message of the loop is put behind the prompt.
LEMMA MessageStep ==
  ASSUME AgentTypeOK, HasPrompt, AbortsFit, messages # <<>>,
         NEW x \in Message, x.role # "history", IsAborted(x) => ctxDone,
         messages' = Append(messages, x), UNCHANGED ctxDone, phase' # "backoff"
  PROVE  /\ messages' \in Seq(Message) /\ messages' # <<>>
         /\ HasPrompt' /\ AbortsFit'
<1>1. messages \in Seq(Message)
  BY DEF AgentTypeOK
<1>2. /\ messages' \in Seq(Message) /\ Len(messages') = Len(messages) + 1
      /\ messages'[Len(messages) + 1] = x /\ Begins(messages, messages')
  BY <1>1, AppendedMessage
<1>3. HasPrompt'
  BY <1>1, <1>2, PromptStays
<1>4. AbortsFit'
  <2> SUFFICES ASSUME NEW i \in DOMAIN messages', IsAborted(messages'[i])
               PROVE  ctxDone
    BY DEF AbortsFit
  <2>1. CASE i \in DOMAIN messages
    BY <1>2, <2>1 DEF AbortsFit, Begins
  <2>2. CASE i = Len(messages) + 1
    BY <1>2, <2>2
  <2> QED
    BY <1>1, <1>2, <2>1, <2>2
<1> QED
  BY <1>1, <1>2, <1>3, <1>4

\* An answer without calls, and an error, at the end of a settled context.
LEMMA AnswerAppended ==
  ASSUME NEW s \in Seq(Message), Settled(s), NEW x \in Message, x.role = "assistant"
  PROVE  /\ IsError(x) => SettledBeforeEnd(Append(s, x))
         /\ ~IsError(x) /\ x.calls = 0 => Settled(Append(s, x))
         /\ ~IsError(x) /\ x.calls >= 1 => UnderWay(Append(s, x), Len(s) + 1, 1)
<1> DEFINE r == Append(s, x)
<1>1. /\ r \in Seq(Message) /\ Len(r) = Len(s) + 1
      /\ r[Len(s) + 1] = x /\ Begins(s, r)
  BY AppendedMessage
<1> HIDE DEF r
<1>2. \A i \in 1 .. Len(s) : SettledAt(r, i)
  BY <1>1, SettledStays DEF Settled
<1>3. ASSUME IsError(x) PROVE SettledBeforeEnd(r)
  BY <1>1, <1>2, <1>3 DEF SettledBeforeEnd
<1>4. ASSUME ~IsError(x), x.calls = 0 PROVE Settled(r)
  <2>1. SettledAt(r, Len(s) + 1)
    BY <1>1, <1>4 DEF SettledAt, Answered
  <2> QED
    BY <1>1, <1>2, <2>1 DEF Settled
<1>5. ASSUME ~IsError(x), x.calls >= 1 PROVE UnderWay(r, Len(s) + 1, 1)
  <2>1. x.calls \in Nat
    BY MessageShapes, AgentAssumption
  <2> QED
    BY <1>1, <1>2, <1>5, <2>1 DEF UnderWay
<1> QED
  BY <1>3, <1>4, <1>5 DEF r

\* The result of the next call.
LEMMA ResultAppended ==
  ASSUME NEW s \in Seq(Message), NEW a \in DOMAIN s, NEW k \in Nat, UnderWay(s, a, k),
         k <= s[a].calls, NEW x \in Message, x.role = "tool", x.call = k
  PROVE  /\ UnderWay(Append(s, x), a, k + 1)
         /\ a \in DOMAIN Append(s, x)
         /\ Append(s, x)[a] = s[a]
<1> DEFINE r == Append(s, x)
<1>1. /\ r \in Seq(Message) /\ Len(r) = Len(s) + 1
      /\ r[Len(s) + 1] = x /\ Begins(s, r)
  BY AppendedMessage
<1> HIDE DEF r
<1>2. a \in 1 .. Len(s) /\ a \in DOMAIN r /\ r[a] = s[a] /\ s[a].calls \in Nat
  BY <1>1, MessageShapes, AgentAssumption DEF Begins, UnderWay
<1>3. Len(s) = a + k - 1 /\ k >= 1
  BY DEF UnderWay
<1>4. \A i \in 1 .. a - 1 : SettledAt(r, i)
  <2>1. \A i \in 1 .. a - 1 : i \in DOMAIN s /\ SettledAt(s, i)
    BY <1>2 DEF UnderWay
  <2> QED
    BY <1>1, <2>1, SettledStays
<1>5. \A j \in 1 .. k : r[a + j].role = "tool" /\ r[a + j].call = j
  <2> TAKE j \in 1 .. k
  <2>1. CASE j = k
    BY <1>1, <1>2, <1>3, <2>1
  <2>2. CASE j \in 1 .. k - 1
    <3>1. a + j \in DOMAIN s
      BY <1>2, <1>3, <2>2
    <3> QED
      BY <1>1, <2>2, <3>1 DEF UnderWay, Begins
  <2> QED
    BY <2>1, <2>2
<1> QED
  BY <1>1, <1>2, <1>3, <1>4, <1>5, SMTT(20) DEF UnderWay, r

\* With the result of its last call, an answer is settled.
LEMMA ResultsComplete ==
  ASSUME NEW s \in Seq(Message), NEW a \in DOMAIN s, NEW k \in Nat, UnderWay(s, a, k),
         k > s[a].calls
  PROVE  Settled(s) /\ s # <<>> /\ Last(s).role = "tool"
<1> DEFINE c == s[a].calls
<1>1. a \in Nat \ {0} /\ c \in Nat \ {0} /\ k = c + 1 /\ Len(s) = a + c
  BY MessageShapes, AgentAssumption, SMTT(20) DEF UnderWay
<1>2. /\ s[a].role = "assistant" /\ ~IsError(s[a])
      /\ \A i \in 1 .. a - 1 : SettledAt(s, i)
      /\ \A j \in 1 .. k - 1 : s[a + j].role = "tool" /\ s[a + j].call = j
  BY DEF UnderWay
<1>3. c = s[a].calls
  OBVIOUS
<1> HIDE DEF c
<1>4. \A j \in 1 .. c : a + j \in DOMAIN s /\ s[a + j].role = "tool" /\ s[a + j].call = j
  BY <1>1, <1>2
<1>5. SettledAt(s, a)
  BY <1>2, <1>3, <1>4 DEF SettledAt, Answered
<1>6. ASSUME NEW i \in DOMAIN s, i > a PROVE SettledAt(s, i)
  <2>1. PICK j \in 1 .. c : i = a + j
    <3>1. i - a \in 1 .. c /\ i = a + (i - a)
      BY <1>1, <1>6
    <3> QED
      BY <3>1
  <2>2. s[i].role = "tool" /\ s[i].call = j
    BY <1>4, <2>1
  <2>3. j \in Nat /\ i - j = a /\ j < i /\ j <= c
    BY <1>1, <2>1
  <2>4. Called(s, i)
    BY <1>2, <1>3, <2>2, <2>3 DEF Called
  <2> QED
    BY <2>2, <2>4 DEF SettledAt, IsError
<1>7. Settled(s)
  BY <1>1, <1>2, <1>5, <1>6 DEF Settled
<1>8. Last(s).role = "tool"
  BY <1>1, <1>4 DEF Last
<1> QED
  BY <1>1, <1>7, <1>8

\* A failed request leaves an error at the end, and no other.
LEMMA ProviderFailsStep ==
  ASSUME AgentInv, ProviderFails
  PROVE  AgentInv'
<1>1. /\ AgentTypeOK /\ HasPrompt /\ AbortsFit /\ SaveFits
      /\ Settled(messages) /\ messages # <<>> /\ messages \in Seq(Message)
  BY DEF AgentInv, PhaseFits, ProviderFails, AgentTypeOK
<1> DEFINE stop == IF ctxDone THEN "aborted" ELSE "error"
           x == Assistant(0, stop)
<1>2. /\ phase \in {"provider", "refused"} /\ phase' = "ended" /\ runErr' \in Errors
      /\ messages' = Append(messages, x)
      /\ UNCHANGED <<queueVars, ctxDone, outcome, next, answers, turnVars>>
  BY DEF ProviderFails, End
<1>3. /\ x \in Message /\ x.role = "assistant" /\ x.calls = 0 /\ x.stop = stop
  BY MadeMessages, AgentAssumption
<1>4. IsError(x) /\ (IsAborted(x) => ctxDone)
  BY <1>3 DEF IsError, IsAborted
<1> HIDE DEF x
<1>5. messages' \in Seq(Message) /\ HasPrompt' /\ AbortsFit'
  BY <1>1, <1>2, <1>3, <1>4, MessageStep
<1>6. SettledBeforeEnd(messages')
  BY <1>1, <1>2, <1>3, <1>4, AnswerAppended
<1>7. AgentTypeOK'
  BY <1>1, <1>2, <1>5 DEF AgentTypeOK, Phases, queueVars, turnVars
<1>8. PhaseFits'
  BY <1>2, <1>6 DEF PhaseFits, Errors
<1>9. SaveFits'
  BY <1>1, <1>2, NothingSavedYet DEF turnVars
<1> QED
  BY <1>5, <1>7, <1>8, <1>9 DEF AgentInv

\* An answer ends the run with its error, or is final, or has calls to work on.
LEMMA AnswersStep ==
  ASSUME AgentInv, NEW n \in 0 .. MaxCalls, NEW e \in {"stop", "length", "error"}, Answers(n, e)
  PROVE  AgentInv'
<1>1. /\ AgentTypeOK /\ HasPrompt /\ AbortsFit /\ SaveFits
      /\ Settled(messages) /\ messages # <<>> /\ messages \in Seq(Message)
  BY DEF AgentInv, PhaseFits, Answers, AgentTypeOK
<1> DEFINE x == Assistant(n, e)
<1>2. /\ phase = "provider" /\ answers < MaxAnswers /\ answers' = answers + 1
      /\ messages' = Append(messages, x)
      /\ outcome' = [i \in 1 .. n |-> "running"]
      /\ next' = 1
      /\ UNCHANGED <<queueVars, ctxDone, turnVars>>
  BY DEF Answers
<1>3. /\ x \in Message /\ x.role = "assistant" /\ x.calls = n /\ x.stop = e
  BY MadeMessages
<1>4. (IsError(x) <=> e = "error") /\ ~IsAborted(x)
  BY <1>3 DEF IsError, IsAborted
<1>5. \/ e = "error" /\ phase' = "ended" /\ runErr' \in Errors
      \/ e # "error" /\ n = 0 /\ phase' = "answered" /\ runErr' = runErr
      \/ e # "error" /\ n > 1 /\ phase' = "parallel" /\ runErr' = runErr
      \/ /\ e # "error" /\ n # 0 /\ phase' = "sequential" /\ runErr' = runErr
         /\ n = 1 \/ e = "length"
  BY AgentAssumption DEF Answers, End
<1> HIDE DEF x
<1>6. messages' \in Seq(Message) /\ messages' # <<>> /\ HasPrompt' /\ AbortsFit'
  <2>1. phase' # "backoff"
    BY <1>5
  <2> QED
    BY <1>1, <1>2, <1>3, <1>4, <2>1, MessageStep
<1>7. n \in Nat /\ n <= MaxCalls /\ outcome' \in Seq({"running"}) /\ Len(outcome') = n
  BY <1>2, AgentAssumption
<1>8. AgentTypeOK'
  <2>1. outcome' \in Seq(ToolOutcome \cup {"running"})
    BY <1>2, <1>7
  <2>2. next' \in 1 .. MaxCalls + 1 /\ answers' \in 0 .. MaxAnswers
    BY <1>1, <1>2, AgentAssumption DEF AgentTypeOK
  <2>3. phase' \in Phases /\ runErr' \in Errors \cup {"none", "canceled"}
    BY <1>1, <1>5 DEF AgentTypeOK, Phases
  <2> QED
    BY <1>1, <1>2, <1>6, <2>1, <2>2, <2>3 DEF AgentTypeOK, queueVars, turnVars
<1>9. PhaseFits'
  <2>1. CASE e = "error"
    <3>1. SettledBeforeEnd(messages')
      BY <1>1, <1>2, <1>3, <1>4, <2>1, AnswerAppended
    <3> QED
      BY <1>5, <2>1, <3>1 DEF PhaseFits, Errors
  <2>2. CASE e # "error" /\ n = 0
    <3>1. Settled(messages')
      BY <1>1, <1>2, <1>3, <1>4, <2>2, AnswerAppended
    <3> QED
      BY <1>5, <1>6, <2>2, <3>1 DEF PhaseFits
  <2>3. CASE e # "error" /\ n # 0
    <3> DEFINE a == Len(messages) + 1
    <3>1. a \in DOMAIN messages' /\ messages'[a] = x
      BY <1>1, <1>2, <1>3, AppendedMessage
    <3>2. UnderWay(messages', a, 1)
      BY <1>1, <1>2, <1>3, <1>4, <1>7, <2>3, AnswerAppended
    <3> HIDE DEF a
    <3>3. phase' = "sequential" => n = 1 \/ e = "length"
      BY <1>5
    <3>4. \E b \in DOMAIN messages' :
            /\ UnderWay(messages', b, next')
            /\ messages'[b].calls = Len(outcome')
            /\ phase' = "sequential" => Len(outcome') = 1 \/ messages'[b].stop = "length"
      BY <1>2, <1>3, <1>7, <3>1, <3>2, <3>3
    <3> QED
      BY <1>5, <2>3, <3>4 DEF PhaseFits, CallsUnderWay
  <2> QED
    BY <2>1, <2>2, <2>3
<1>10. SaveFits'
  BY <1>1, <1>2, <1>5, NothingSavedYet DEF turnVars
<1> QED
  BY <1>6, <1>8, <1>9, <1>10 DEF AgentInv

\* What a step leaves that does not touch the messages.
LEMMA SameMessages ==
  ASSUME HasPrompt, AbortsFit, UNCHANGED <<messages, ctxDone>>, phase' # "backoff"
  PROVE  HasPrompt' /\ AbortsFit'
BY DEF HasPrompt, AbortsFit

\* A final answer ends the run.
LEMMA FinishStep ==
  ASSUME AgentInv, Finish
  PROVE  AgentInv'
<1>1. AgentTypeOK /\ HasPrompt /\ AbortsFit /\ SaveFits /\ Settled(messages)
  BY DEF AgentInv, PhaseFits, Finish
<1>2. /\ phase = "answered" /\ phase' = "ended" /\ runErr' = "none"
      /\ UNCHANGED <<queueVars, ctxDone, messages, outcome, next, answers, turnVars>>
  BY DEF Finish, End
<1>3. AgentTypeOK'
  BY <1>1, <1>2 DEF AgentTypeOK, Phases, queueVars, turnVars
<1>4. PhaseFits'
  BY <1>1, <1>2 DEF PhaseFits, SettledBeforeEnd, Settled
<1>5. HasPrompt' /\ AbortsFit' /\ SaveFits'
  BY <1>1, <1>2, SameMessages, NothingSavedYet DEF turnVars
<1> QED
  BY <1>3, <1>4, <1>5 DEF AgentInv

\* What is known of the calls that the loop works on.
LEMMA WorkingOn ==
  ASSUME AgentInv, phase \in {"parallel", "sequential"}
  PROVE  \E a \in DOMAIN messages :
           /\ UnderWay(messages, a, next)
           /\ messages[a].calls = Len(outcome) /\ Len(outcome) <= MaxCalls
           /\ a = Len(messages) - next + 1
           /\ phase = "sequential" => Len(outcome) = 1 \/ messages[a].stop = "length"
<1>1. AgentTypeOK /\ \E a \in DOMAIN messages : CallsUnderWay(messages, a)
  BY DEF AgentInv, PhaseFits
<1>2. PICK a \in DOMAIN messages : CallsUnderWay(messages, a)
  BY <1>1
<1>t. messages \in Seq(Message) /\ next \in Nat
  BY <1>1, AgentAssumption DEF AgentTypeOK
<1>3. messages[a].calls \in 0 .. MaxCalls
  <2>1. messages[a] \in Message /\ messages[a].role = "assistant"
    BY <1>t, <1>2 DEF CallsUnderWay, UnderWay
  <2> QED
    BY <2>1, MessageShapes
<1>4. messages[a].calls <= MaxCalls
  BY <1>3, AgentAssumption
<1>5. a = Len(messages) - next + 1
  BY <1>t, <1>2 DEF CallsUnderWay, UnderWay
<1> QED
  BY <1>2, <1>4, <1>5 DEF CallsUnderWay

\* Calls that run in parallel end in any order, and nothing is appended yet.
LEMMA ToolEndsStep ==
  ASSUME AgentInv, NEW i \in 1 .. MaxCalls, NEW r \in ToolOutcome, ToolEnds(i, r)
  PROVE  AgentInv'
<1>1. AgentTypeOK /\ HasPrompt /\ AbortsFit /\ SaveFits
  BY DEF AgentInv
<1>2. /\ phase = "parallel" /\ i \in DOMAIN outcome
      /\ outcome' = [outcome EXCEPT ![i] = r]
      /\ UNCHANGED <<queueVars, ctxDone, phase, messages, next, runErr, answers, turnVars>>
  BY DEF ToolEnds, Calls
<1>3. outcome' \in Seq(ToolOutcome \cup {"running"}) /\ Len(outcome') = Len(outcome)
  BY <1>1, <1>2 DEF AgentTypeOK
<1>4. AgentTypeOK'
  BY <1>1, <1>2, <1>3 DEF AgentTypeOK, queueVars, turnVars
<1>5. PICK a \in DOMAIN messages :
        UnderWay(messages, a, next) /\ messages[a].calls = Len(outcome)
  BY <1>2, WorkingOn
<1>6. PhaseFits'
  BY <1>2, <1>3, <1>5 DEF PhaseFits, CallsUnderWay
<1>7. HasPrompt' /\ AbortsFit' /\ SaveFits'
  BY <1>1, <1>2, SameMessages, NothingSavedYet DEF turnVars
<1> QED
  BY <1>4, <1>6, <1>7 DEF AgentInv

\* The result of the next call is put behind those before it.
LEMMA NextResult ==
  ASSUME AgentInv, phase \in {"parallel", "sequential"}, next \in DOMAIN outcome,
         NEW r \in ToolOutcome \cup {"aborted"},
         messages' = Append(messages, ToolResult(next, r)),
         next' = next + 1, UNCHANGED <<ctxDone, outcome>>, phase' # "backoff"
  PROVE  /\ messages' \in Seq(Message)
         /\ HasPrompt' /\ AbortsFit'
         /\ next' \in 1 .. MaxCalls + 1
         /\ \E a \in DOMAIN messages' :
              /\ a \in DOMAIN messages /\ a = Len(messages) - next + 1 /\ messages'[a] = messages[a]
              /\ UnderWay(messages', a, next')
              /\ messages'[a].calls = Len(outcome)
              /\ phase = "sequential" => Len(outcome) = 1 \/ messages[a].stop = "length"
<1>1. /\ AgentTypeOK /\ HasPrompt /\ AbortsFit
      /\ messages \in Seq(Message) /\ outcome \in Seq(ToolOutcome \cup {"running"})
  BY DEF AgentInv, AgentTypeOK
<1>2. PICK a \in DOMAIN messages :
        /\ UnderWay(messages, a, next)
        /\ messages[a].calls = Len(outcome) /\ Len(outcome) <= MaxCalls
        /\ a = Len(messages) - next + 1
        /\ phase = "sequential" => Len(outcome) = 1 \/ messages[a].stop = "length"
  BY WorkingOn
<1>3. next \in Nat /\ next >= 1 /\ next <= Len(outcome) /\ Len(outcome) \in Nat
  BY <1>1
<1>4. next \in 1 .. MaxCalls /\ next' \in 1 .. MaxCalls + 1
  BY <1>2, <1>3, AgentAssumption
<1> DEFINE x == ToolResult(next, r)
<1>5. x \in Message /\ x.role = "tool" /\ x.call = next
  BY <1>4, MadeMessages
<1> HIDE DEF x
<1>6. messages' = Append(messages, x)
  BY DEF x
<1>7. messages # <<>>
  BY <1>1, <1>2
<1>8. messages' \in Seq(Message) /\ HasPrompt' /\ AbortsFit'
  BY <1>1, <1>5, <1>6, <1>7, MessageStep DEF IsAborted
<1>9. /\ UnderWay(messages', a, next + 1)
      /\ a \in DOMAIN messages' /\ messages'[a] = messages[a]
  BY <1>1, <1>2, <1>3, <1>5, <1>6, ResultAppended
<1> QED
  BY <1>2, <1>4, <1>8, <1>9

\* When all parallel calls have ended, their results come in their order.
LEMMA CollectStep ==
  ASSUME AgentInv, Collect
  PROVE  AgentInv'
<1>1. AgentTypeOK /\ SaveFits
  BY DEF AgentInv
<1>2. /\ phase = "parallel" /\ next \in DOMAIN outcome /\ outcome[next] # "running"
      /\ next' = next + 1
      /\ UNCHANGED <<queueVars, ctxDone, phase, outcome, answers, turnVars>>
  BY DEF Collect, Calls
<1>3. PICK r \in ToolOutcome \cup {"aborted"} : messages' = Append(messages, ToolResult(next, r))
  <2>1. outcome \in Seq(ToolOutcome \cup {"running"})
    BY <1>1 DEF AgentTypeOK
  <2>2. outcome[next] \in ToolOutcome
    BY <1>2, <2>1
  <2>3. \/ messages' = Append(messages, ToolResult(next, "aborted"))
        \/ messages' = Append(messages, ToolResult(next, outcome[next]))
    BY DEF Collect
  <2> QED
    BY <2>2, <2>3
<1>4. runErr' \in Errors \cup {"none", "canceled"}
  BY <1>1 DEF Collect, AgentTypeOK
<1>5. /\ messages' \in Seq(Message) /\ HasPrompt' /\ AbortsFit'
      /\ next' \in 1 .. MaxCalls + 1
      /\ \E a \in DOMAIN messages' :
           UnderWay(messages', a, next') /\ messages'[a].calls = Len(outcome)
  BY <1>2, <1>3, NextResult
<1>6. AgentTypeOK'
  BY <1>1, <1>2, <1>4, <1>5 DEF AgentTypeOK, queueVars, turnVars
<1>7. PhaseFits'
  BY <1>2, <1>5 DEF PhaseFits, CallsUnderWay
<1>8. SaveFits'
  BY <1>1, <1>2, NothingSavedYet DEF turnVars
<1> QED
  BY <1>5, <1>6, <1>7, <1>8 DEF AgentInv

\* When an answer has its results, the loop ends or goes on with a settled
\* context.
LEMMA AfterCallsStep ==
  ASSUME AgentInv, AfterParallel \/ AfterSequential
  PROVE  AgentInv'
<1>1. /\ AgentTypeOK /\ HasPrompt /\ AbortsFit /\ SaveFits
      /\ messages \in Seq(Message) /\ next \in Nat /\ outcome \in Seq(ToolOutcome \cup {"running"})
  BY AgentAssumption DEF AgentInv, AgentTypeOK
<1>2. /\ phase \in {"parallel", "sequential"} /\ next > Len(outcome)
      /\ UNCHANGED <<queueVars, ctxDone, messages, outcome, next, answers, turnVars>>
      /\ phase' \in {"ended", "drain"}
  BY DEF AfterParallel, AfterSequential, End
<1>3. runErr' \in Errors \cup {"none", "canceled"}
  BY <1>1 DEF AfterParallel, AfterSequential, End, AgentTypeOK
<1>4. PICK a \in DOMAIN messages :
        UnderWay(messages, a, next) /\ messages[a].calls = Len(outcome)
  BY <1>2, WorkingOn
<1>5. Settled(messages) /\ messages # <<>> /\ Last(messages).role = "tool"
  BY <1>1, <1>2, <1>4, ResultsComplete
<1>6. AgentTypeOK'
  BY <1>1, <1>2, <1>3 DEF AgentTypeOK, Phases, queueVars, turnVars
<1>7. PhaseFits'
  BY <1>2, <1>5 DEF PhaseFits, SettledBeforeEnd, Settled
<1>8. HasPrompt' /\ AbortsFit' /\ SaveFits'
  BY <1>1, <1>2, SameMessages, NothingSavedYet DEF turnVars
<1> QED
  BY <1>6, <1>7, <1>8 DEF AgentInv

\* A call of a sequence ends with its result, also when that ends the run: then
\* it was the only one, for an answer that was cut off executes nothing.
LEMMA CallEndsStep ==
  ASSUME AgentInv, NEW r \in ToolOutcome, CallEnds(r)
  PROVE  AgentInv'
<1>1. /\ AgentTypeOK /\ SaveFits
      /\ next \in Nat /\ outcome \in Seq(ToolOutcome \cup {"running"})
  BY AgentAssumption DEF AgentInv, AgentTypeOK
<1> DEFINE canceled == r = "failed" /\ ctxDone /\ ~Truncated
<1>2. /\ phase = "sequential" /\ next \in DOMAIN outcome /\ next' = next + 1
      /\ UNCHANGED <<queueVars, ctxDone, outcome, answers, turnVars>>
  BY DEF CallEnds, Calls
<1>3. \/ canceled /\ phase' = "ended" /\ runErr' = "canceled"
      \/ ~canceled /\ phase' = phase /\ runErr' = runErr
  BY DEF CallEnds, End
<1>4. PICK q \in ToolOutcome \cup {"aborted"} : messages' = Append(messages, ToolResult(next, q))
  <2>1. "done" \in ToolOutcome
    BY DEF ToolOutcome
  <2> QED
    BY <2>1 DEF CallEnds
<1>5. phase' # "backoff"
  BY <1>2, <1>3
<1>6. /\ messages' \in Seq(Message) /\ HasPrompt' /\ AbortsFit'
      /\ next' \in 1 .. MaxCalls + 1
      /\ \E a \in DOMAIN messages' :
           /\ a \in DOMAIN messages /\ a = Len(messages) - next + 1 /\ messages'[a] = messages[a]
           /\ UnderWay(messages', a, next')
           /\ messages'[a].calls = Len(outcome)
           /\ phase = "sequential" => Len(outcome) = 1 \/ messages[a].stop = "length"
  BY <1>2, <1>4, <1>5, NextResult
<1>7. PICK a \in DOMAIN messages' :
        /\ a = Len(messages) - next + 1 /\ messages'[a] = messages[a]
        /\ UnderWay(messages', a, next')
        /\ messages'[a].calls = Len(outcome)
        /\ Len(outcome) = 1 \/ messages[a].stop = "length"
  BY <1>2, <1>6
<1>8. AgentTypeOK'
  <2>1. phase' \in Phases /\ runErr' \in Errors \cup {"none", "canceled"}
    BY <1>1, <1>3 DEF AgentTypeOK, Phases
  <2> QED
    BY <1>1, <1>2, <1>6, <2>1 DEF AgentTypeOK, queueVars, turnVars
<1>9. PhaseFits'
  <2>1. CASE ~canceled
    <3>1. phase' = "sequential"
      BY <1>2, <1>3, <2>1
    <3>2. \E b \in DOMAIN messages' :
            /\ UnderWay(messages', b, next') /\ messages'[b].calls = Len(outcome')
            /\ Len(outcome') = 1 \/ messages'[b].stop = "length"
      BY <1>2, <1>7
    <3> QED
      BY <3>1, <3>2 DEF PhaseFits, CallsUnderWay
  <2>2. CASE canceled
    <3>1. Len(outcome) = 1
      BY <1>7, <2>2 DEF Truncated
    <3>2. next' \in Nat /\ next' > messages'[a].calls
      BY <1>1, <1>2, <1>7, <3>1
    <3>3. Settled(messages')
      BY <1>6, <1>7, <3>2, ResultsComplete
    <3> QED
      BY <1>3, <2>2, <3>3 DEF PhaseFits, SettledBeforeEnd, Settled
  <2> QED
    BY <2>1, <2>2
<1>10. SaveFits'
  BY <1>1, <1>2, <1>3, NothingSavedYet DEF turnVars
<1> QED
  BY <1>6, <1>8, <1>9, <1>10 DEF AgentInv

-----------------------------------------------------------------------------
(* The steps around the loop.                                               *)

\* A run is retried only while its context is not done: nothing was aborted.
LEMMA RetryStep ==
  ASSUME AgentInv, Retry
  PROVE  AgentInv'
<1>1. AgentTypeOK /\ HasPrompt /\ AbortsFit /\ SaveFits /\ SettledBeforeEnd(messages)
  BY DEF AgentInv, PhaseFits, Retry
<1>2. /\ phase = "ended" /\ phase' = "backoff"
      /\ ~ctxDone /\ attempt < MaxRetries /\ attempt' = attempt + 1
      /\ UNCHANGED <<queueVars, ctxDone, continuing, rerun, messages, outcome, next,
                     runErr, answers, saved, verdict>>
  BY DEF Retry, MayRetry
<1>3. attempt' \in 0 .. MaxRetries
  BY <1>1, <1>2, AgentAssumption DEF AgentTypeOK
<1>4. AgentTypeOK'
  BY <1>1, <1>2, <1>3 DEF AgentTypeOK, Phases, queueVars
<1>5. PhaseFits' /\ HasPrompt' /\ AbortsFit' /\ SaveFits'
  <2>1. HasPrompt'
    BY <1>1, <1>2 DEF HasPrompt
  <2>2. AbortsFit'
    BY <1>1, <1>2 DEF AbortsFit
  <2>3. SaveFits'
    BY <1>1, <1>2, NothingSavedYet
  <2>4. PhaseFits'
    BY <1>1, <1>2 DEF PhaseFits
  <2> QED
    BY <2>1, <2>2, <2>3, <2>4
<1> QED
  BY <1>4, <1>5 DEF AgentInv

\* It goes on without its error.
LEMMA ResumeStep ==
  ASSUME AgentInv, Resume
  PROVE  AgentInv'
<1>1. /\ AgentTypeOK /\ HasPrompt /\ AbortsFit /\ SaveFits
      /\ SettledBeforeEnd(messages) /\ messages \in Seq(Message)
      /\ \A i \in DOMAIN messages : ~IsAborted(messages[i])
  BY DEF AgentInv, PhaseFits, AbortsFit, Resume, AgentTypeOK
<1>2. /\ phase = "backoff" /\ phase' = "start" /\ continuing' = TRUE
      /\ messages' = Trimmed(messages)
      /\ UNCHANGED <<queueVars, ctxDone, outcome, next, runErr, answers, rerun,
                     attempt, saved, verdict>>
  BY DEF Resume
<1>3. /\ messages' \in Seq(Message) /\ Settled(messages')
      /\ Begins(messages', messages)
      /\ \A h \in Nat : Framed(messages, h) => Framed(messages', h)
  BY <1>1, <1>2, TrimmedSettled
<1>4. AgentTypeOK'
  BY <1>1, <1>2, <1>3 DEF AgentTypeOK, Phases, queueVars
<1>5. HasPrompt'
  <2>1. messages' # <<>> => messages # <<>>
    BY <1>1, <1>3 DEF Begins
  <2> QED
    BY <1>1, <1>3, <2>1, AgentAssumption DEF HasPrompt
<1>6. AbortsFit'
  <2>1. \A i \in DOMAIN messages' : i \in DOMAIN messages /\ messages'[i] = messages[i]
    BY <1>1, <1>3 DEF Begins
  <2> QED
    BY <1>1, <1>2, <2>1 DEF AbortsFit
<1>7. PhaseFits'
  BY <1>2, <1>3 DEF PhaseFits
<1>8. SaveFits'
  BY <1>1, <1>2, NothingSavedYet
<1> QED
  BY <1>4, <1>5, <1>6, <1>7, <1>8 DEF AgentInv

\* A cancellation in the delay ends the run as it was.
LEMMA BackoffCanceledStep ==
  ASSUME AgentInv, BackoffCanceled
  PROVE  AgentInv'
<1>1. AgentTypeOK /\ HasPrompt /\ AbortsFit /\ SaveFits /\ SettledBeforeEnd(messages)
  BY DEF AgentInv, PhaseFits, BackoffCanceled
<1>2. /\ phase = "backoff" /\ phase' = "ended" /\ runErr' = "canceled"
      /\ UNCHANGED <<queueVars, ctxDone, messages, outcome, next, answers, turnVars>>
  BY DEF BackoffCanceled, End
<1>3. AgentTypeOK'
  BY <1>1, <1>2 DEF AgentTypeOK, Phases, queueVars, turnVars
<1>4. PhaseFits'
  BY <1>1, <1>2 DEF PhaseFits
<1>5. HasPrompt' /\ AbortsFit' /\ SaveFits'
  BY <1>1, <1>2, SameMessages, NothingSavedYet DEF turnVars
<1> QED
  BY <1>3, <1>4, <1>5 DEF AgentInv

\* A run that starts again after a compaction starts from the prompt.
LEMMA OverflowStep ==
  ASSUME AgentInv, Overflow
  PROVE  AgentInv'
<1>1. AgentTypeOK /\ SaveFits
  BY DEF AgentInv
<1>2. /\ phase = "ended" /\ phase' = "start" /\ messages' = <<>>
      /\ continuing' = FALSE /\ rerun' = TRUE
      /\ UNCHANGED <<queueVars, ctxDone, outcome, next, runErr, attempt, answers,
                     saved, verdict>>
  BY DEF Overflow
<1>3. AgentTypeOK'
  <2>1. messages' \in Seq(Message)
    BY <1>2
  <2> QED
    BY <1>1, <1>2, <2>1 DEF AgentTypeOK, Phases, queueVars
<1>4. PhaseFits'
  BY <1>2 DEF PhaseFits, Settled
<1>5. HasPrompt' /\ AbortsFit'
  BY <1>2 DEF HasPrompt, AbortsFit
<1>6. SaveFits'
  BY <1>1, <1>2, NothingSavedYet
<1> QED
  BY <1>3, <1>4, <1>5, <1>6 DEF AgentInv

\* A result that is shorter than the history is not saved.
LEMMA SavePanicsStep ==
  ASSUME AgentInv, SavePanics
  PROVE  AgentInv'
<1>1. AgentTypeOK /\ HasPrompt /\ AbortsFit /\ SaveFits
  BY DEF AgentInv
<1>2. /\ phase = "ended" /\ phase' = "panic"
      /\ UNCHANGED <<queueVars, ctxDone, messages, outcome, next, runErr, answers, turnVars>>
  BY DEF SavePanics
<1>3. AgentTypeOK'
  BY <1>1, <1>2 DEF AgentTypeOK, Phases, queueVars, turnVars
<1>4. PhaseFits'
  BY <1>2 DEF PhaseFits
<1>5. HasPrompt' /\ AbortsFit' /\ SaveFits'
  BY <1>1, <1>2, SameMessages, NothingSavedYet DEF turnVars
<1> QED
  BY <1>3, <1>4, <1>5 DEF AgentInv

\* What is saved comes after the history, with the verdict on it.
LEMMA SaveStep ==
  ASSUME AgentInv, Save
  PROVE  AgentInv'
<1>1. /\ AgentTypeOK /\ HasPrompt /\ AbortsFit
      /\ SettledBeforeEnd(messages) /\ (runErr = "none" => Settled(messages))
      /\ messages \in Seq(Message)
  BY DEF AgentInv, PhaseFits, Save, AgentTypeOK
<1>2. /\ phase = "ended" /\ phase' = "saved"
      /\ Len(messages) >= HistoryLength
      /\ saved' = SubSeq(messages, HistoryLength + 1, Len(messages))
      /\ verdict' = IF runErr = "none" THEN "completed"
                    ELSE IF ctxDone THEN "aborted" ELSE "failed"
      /\ UNCHANGED <<queueVars, ctxDone, continuing, rerun, messages, outcome, next,
                     runErr, attempt, answers>>
  BY DEF Save
<1>3. saved' \in Seq(Message)
  BY <1>1, <1>2, AgentAssumption
<1>4. AgentTypeOK'
  BY <1>1, <1>2, <1>3 DEF AgentTypeOK, Phases, queueVars
<1>5. PhaseFits'
  BY <1>2 DEF PhaseFits
<1>6. HasPrompt' /\ AbortsFit'
  BY <1>1, <1>2, SameMessages
<1>7. SaveFits'
  BY <1>1, <1>2 DEF SaveFits
<1> QED
  BY <1>4, <1>5, <1>6, <1>7 DEF AgentInv

\* Messages for the queues, and a cancellation, change nothing of the context.
LEMMA OthersStep ==
  ASSUME AgentInv, Steer \/ FollowUp \/ Cancel
  PROVE  AgentInv'
<1>1. AgentTypeOK /\ HasPrompt /\ PhaseFits /\ AbortsFit /\ SaveFits
  BY DEF AgentInv
<1>2. /\ phase # "saved" /\ UNCHANGED <<loopVars, turnVars>>
      /\ ctxDone' \in BOOLEAN /\ (ctxDone => ctxDone')
  BY <1>1 DEF Steer, FollowUp, Cancel, Open, AgentTypeOK
<1>3. steering' \in Seq(Injected) /\ followUp' \in Seq(Injected) /\ accepted' \in Seq({"steer", "follow"})
  <2>1. CASE Steer \/ FollowUp
    <3>1. Len(accepted) + 1 \in Injected
      <4>1. Len(accepted) \in Nat /\ Len(accepted) < MaxInjected
        BY <1>1, <2>1 DEF Steer, FollowUp, Open, AgentTypeOK
      <4> QED
        BY <4>1, AgentAssumption DEF Injected
    <3>2. /\ steering \in Seq(Injected) /\ followUp \in Seq(Injected)
          /\ accepted \in Seq({"steer", "follow"})
      BY <1>1 DEF AgentTypeOK
    <3>3. \E k \in {"steer", "follow"} : accepted' = Append(accepted, k)
      BY <2>1 DEF Steer, FollowUp
    <3>4. \/ steering' = Append(steering, Len(accepted) + 1) /\ UNCHANGED followUp
          \/ followUp' = Append(followUp, Len(accepted) + 1) /\ UNCHANGED steering
      BY <2>1 DEF Steer, FollowUp
    <3>5. accepted' \in Seq({"steer", "follow"})
      BY <3>2, <3>3
    <3>6. steering' \in Seq(Injected) /\ followUp' \in Seq(Injected)
      <4> DEFINE m == Len(accepted) + 1
      <4>1. m \in Injected
        BY <3>1
      <4> HIDE DEF m
      <4>2. \/ steering' = Append(steering, m) /\ UNCHANGED followUp
            \/ followUp' = Append(followUp, m) /\ UNCHANGED steering
        BY <3>4 DEF m
      <4>3. Append(steering, m) \in Seq(Injected) /\ Append(followUp, m) \in Seq(Injected)
        BY <3>2, <4>1
      <4> QED
        BY <3>2, <4>2, <4>3
    <3> QED
      BY <3>5, <3>6
  <2>2. CASE Cancel
    BY <1>1, <2>2 DEF Cancel, queueVars, AgentTypeOK
  <2> QED
    BY <2>1, <2>2
<1>4. AgentTypeOK'
  BY <1>1, <1>2, <1>3 DEF AgentTypeOK, loopVars, turnVars
<1>5. HasPrompt' /\ AbortsFit' /\ SaveFits'
  <2>1. HasPrompt' /\ AbortsFit'
    BY <1>1, <1>2 DEF HasPrompt, AbortsFit, loopVars
  <2> QED
    BY <1>1, <1>2, <2>1, NothingSavedYet DEF loopVars, turnVars
<1>6. PhaseFits'
  BY <1>1, <1>2 DEF PhaseFits, CallsUnderWay, loopVars, turnVars
<1> QED
  BY <1>4, <1>5, <1>6 DEF AgentInv

-----------------------------------------------------------------------------
(* The invariant, and what it says.                                         *)

\* Nothing has happened.
LEMMA InitInv == Init => AgentInv
<1> SUFFICES ASSUME Init PROVE AgentInv
  OBVIOUS
<1> USE DEF Init
<1>1. AgentTypeOK
  <2>1. /\ steering \in Seq(Injected) /\ followUp \in Seq(Injected)
        /\ accepted \in Seq({"steer", "follow"})
    OBVIOUS
  <2>2. messages \in Seq(Message) /\ saved \in Seq(Message)
    OBVIOUS
  <2>3. outcome \in Seq(ToolOutcome \cup {"running"})
    OBVIOUS
  <2>4. next \in 1 .. MaxCalls + 1 /\ attempt \in 0 .. MaxRetries /\ answers \in 0 .. MaxAnswers
    BY AgentAssumption
  <2> QED
    BY <2>1, <2>2, <2>3, <2>4 DEF AgentTypeOK, Phases
<1>2. PhaseFits
  BY DEF PhaseFits, Settled
<1>3. HasPrompt /\ AbortsFit /\ SaveFits
  BY DEF HasPrompt, AbortsFit, SaveFits
<1> QED
  BY <1>1, <1>2, <1>3 DEF AgentInv

\* Every step keeps the invariant.
LEMMA NextInv == AgentInv /\ [Next]_agentVars => AgentInv'
<1> SUFFICES ASSUME AgentInv, [Next]_agentVars PROVE AgentInv'
  OBVIOUS
<1>1. CASE Start
  BY <1>1, StartStep
<1>2. CASE StartRefused \/ StartFails
  BY <1>2, NoStartStep
<1>3. CASE Drain
  BY <1>3, DrainStep
<1>4. CASE ProviderFails
  BY <1>4, ProviderFailsStep
<1>5. ASSUME NEW n \in 0 .. MaxCalls, NEW e \in {"stop", "length", "error"}, Answers(n, e)
      PROVE  AgentInv'
  BY <1>5, AnswersStep
<1>6. CASE GoOn
  BY <1>6, GoOnStep
<1>7. CASE Finish
  BY <1>7, FinishStep
<1>8. ASSUME NEW r \in ToolOutcome, CallEnds(r) PROVE AgentInv'
  BY <1>8, CallEndsStep
<1>9. ASSUME NEW r \in ToolOutcome, NEW i \in 1 .. MaxCalls, ToolEnds(i, r) PROVE AgentInv'
  BY <1>9, ToolEndsStep
<1>10. CASE Collect
  BY <1>10, CollectStep
<1>11. CASE AfterParallel \/ AfterSequential
  BY <1>11, AfterCallsStep
<1>12. CASE Retry
  BY <1>12, RetryStep
<1>13. CASE Resume
  BY <1>13, ResumeStep
<1>14. CASE BackoffCanceled
  BY <1>14, BackoffCanceledStep
<1>15. CASE Overflow
  BY <1>15, OverflowStep
<1>16. CASE SavePanics
  BY <1>16, SavePanicsStep
<1>17. CASE Save
  BY <1>17, SaveStep
<1>18. CASE Steer \/ FollowUp \/ Cancel
  BY <1>18, OthersStep
<1>19. CASE UNCHANGED agentVars
  <2> USE <1>19 DEF agentVars, queueVars, loopVars, turnVars, AgentInv
  <2>1. AgentTypeOK'
    BY DEF AgentTypeOK
  <2>2. HasPrompt' /\ AbortsFit'
    BY DEF HasPrompt, AbortsFit
  <2>3. PhaseFits'
    BY DEF PhaseFits, CallsUnderWay
  <2>4. SaveFits'
    BY DEF SaveFits
  <2> QED
    BY <2>1, <2>2, <2>3, <2>4
<1> QED
  BY <1>1, <1>2, <1>3, <1>4, <1>5, <1>6, <1>7, <1>8, <1>9, <1>10, <1>11, <1>12, <1>13, <1>14,
     <1>15, <1>16, <1>17, <1>18, <1>19 DEF Next, RunStep

\* The inductive invariant of a run: the shape of its state, the prompt behind
\* the history, and in every phase a context that is settled up to the calls
\* under way or the error at the end.
THEOREM AgentInvariant == Spec => []AgentInv
<1>1. Init => AgentInv
  BY InitInv
<1>2. AgentInv /\ [Next]_agentVars => AgentInv'
  BY NextInv
<1> QED
  BY <1>1, <1>2, PTL DEF Spec

\* A run keeps the shape that AgentTypeOK describes.
THEOREM AgentTyped == Spec => []AgentTypeOK
<1>1. AgentInv => AgentTypeOK
  BY DEF AgentInv
<1> QED
  BY <1>1, AgentInvariant, PTL

\* The provider is never asked with an error in the context, with calls that
\* have no results or results that have no calls, or after an answer: however
\* tools and hooks failed and runs were canceled, retried or started again.
THEOREM AgentContextPaired == Spec => []ContextPaired
<1>1. AgentInv => ContextPaired
  BY DEF AgentInv, PhaseFits, ContextPaired, Settled, SettledAt
<1> QED
  BY <1>1, AgentInvariant, PTL

\* A hook leaves at least the history that runTurn started from.
HooksKeepHistory == \A n \in HookedLengths : n >= HistoryLength

\* The next turn can go on from what is saved, if no hook shortens the history.
\* (If one does, the slice that is saved begins behind the prompt, and may do so
\* between calls and results.)
THEOREM AgentSavedPaired ==
  ASSUME HooksKeepHistory
  PROVE  Spec => []SavedPaired
<1>1. AgentInv => SavedPaired
  <2> SUFFICES ASSUME AgentInv, phase = "saved" PROVE SavedPaired
    BY DEF AgentInv, SaveFits, SavedPaired
  <2> DEFINE H == HistoryLength
  <2>1. /\ messages \in Seq(Message) /\ H \in Nat \ {0} /\ Len(messages) >= H
        /\ saved = SubSeq(messages, H + 1, Len(messages))
        /\ SettledBeforeEnd(messages) /\ HasPrompt
    BY AgentAssumption DEF AgentInv, AgentTypeOK, SaveFits
  <2>2. Len(saved) = Len(messages) - H /\ \A i \in 1 .. Len(messages) - H : saved[i] = messages[H + i]
    BY <2>1
  <2>3. PICK h \in Nat : h >= H /\ Framed(messages, h)
    <3>1. messages # <<>>
      BY <2>1
    <3> QED
      BY <2>1, <3>1, AgentAssumption DEF HasPrompt, HooksKeepHistory
  <2> SUFFICES ASSUME NEW i \in DOMAIN saved
               PROVE  /\ saved[i].role = "assistant" =>
                           IF IsError(saved[i]) THEN i = Len(saved) ELSE Answered(saved, i)
                      /\ saved[i].role = "tool" => Called(saved, i)
    BY DEF SavedPaired
  <2> DEFINE k == H + i
  <2>4. i \in 1 .. Len(messages) - H /\ k \in DOMAIN messages /\ saved[i] = messages[k]
    BY <2>1, <2>2
  <2>5. SettledAt(messages, k) \/ (k = Len(messages) /\ IsError(messages[k]))
    BY <2>1, <2>4 DEF SettledBeforeEnd
  <2>6. messages[k] \in Message
    BY <2>1, <2>4
  <2> HIDE DEF H
  <2>7. CASE k = Len(messages) /\ IsError(messages[k])
    BY <2>1, <2>2, <2>4, <2>7 DEF IsError
  <2>8. CASE SettledAt(messages, k)
    <3>1. ASSUME saved[i].role = "assistant" PROVE Answered(saved, i)
      <4>1. messages[k].calls \in Nat /\ Answered(messages, k)
        BY <2>4, <2>6, <2>8, <3>1, MessageShapes, AgentAssumption DEF SettledAt
      <4>2. ASSUME NEW j \in Nat, k + j \in DOMAIN messages
            PROVE  i + j \in DOMAIN saved /\ saved[i + j] = messages[k + j]
        <5>1. i + j \in 1 .. Len(messages) - H /\ H + (i + j) = k + j
          BY <2>1, <2>4, <4>2
        <5> QED
          BY <2>1, <2>2, <5>1
      <4> QED
        BY <2>4, <4>1, <4>2 DEF Answered
    <3>2. ASSUME saved[i].role = "tool" PROVE Called(saved, i)
      <4> DEFINE c == messages[k].call
      <4>1. /\ c \in Nat \ {0} /\ c < k
            /\ messages[k - c].role = "assistant" /\ c <= messages[k - c].calls
        BY <2>4, <2>6, <2>8, <3>2, MessageShapes, AgentAssumption DEF SettledAt, Called
      <4> HIDE DEF c
      <4>2. k - c \in DOMAIN messages /\ ~(k - c <= h)
        BY <2>1, <2>3, <2>4, <4>1 DEF Framed
      <4>3. i - c \in 1 .. Len(messages) - H /\ H + (i - c) = k - c /\ c < i
        BY <2>1, <2>3, <2>4, <4>1, <4>2
      <4>4. saved[i - c] = messages[k - c]
        BY <2>2, <4>3
      <4> QED
        BY <2>4, <4>1, <4>3, <4>4 DEF Called, c
    <3> QED
      BY <2>4, <2>8, <3>1, <3>2 DEF SettledAt
  <2> QED
    BY <2>5, <2>7, <2>8
<1> QED
  BY <1>1, AgentInvariant, PTL

\* A turn that is recorded as completed has no error in what it saved, and one
\* recorded as aborted was canceled.
THEOREM AgentNoFalseSuccess == Spec => []NoFalseSuccess
<1>1. AgentInv => NoFalseSuccess
  <2> SUFFICES ASSUME AgentInv PROVE NoFalseSuccess
    OBVIOUS
  <2>1. verdict = "aborted" => ctxDone
    BY DEF AgentInv, SaveFits
  <2>2. ASSUME verdict = "completed", NEW i \in DOMAIN saved PROVE ~IsError(saved[i])
    <3>1. /\ Settled(messages) /\ messages \in Seq(Message) /\ HistoryLength \in Nat
          /\ Len(messages) >= HistoryLength
          /\ saved = SubSeq(messages, HistoryLength + 1, Len(messages))
      BY <2>2, AgentAssumption DEF AgentInv, AgentTypeOK, SaveFits
    <3>2. HistoryLength + i \in DOMAIN messages /\ saved[i] = messages[HistoryLength + i]
      BY <3>1
    <3> QED
      BY <3>1, <3>2 DEF Settled, SettledAt
  <2> QED
    BY <2>1, <2>2 DEF NoFalseSuccess
<1> QED
  BY <1>1, AgentInvariant, PTL

\* A hook gives the history another content, not another length.
HooksKeepLength == \A n \in HookedLengths : n = HistoryLength

\* If hooks keep the length of the history, what a turn saves begins with its
\* prompt, after retries and after a start from the prompt too.
THEOREM AgentSavedFromPrompt ==
  ASSUME HooksKeepLength
  PROVE  Spec => []SavedFromPrompt
<1>1. AgentInv => SavedFromPrompt
  <2> SUFFICES ASSUME AgentInv, phase = "saved" PROVE saved # <<>> /\ saved[1] = User(Prompt)
    BY DEF SavedFromPrompt
  <2>1. /\ messages \in Seq(Message) /\ HistoryLength \in Nat \ {0}
        /\ Len(messages) >= HistoryLength
        /\ saved = SubSeq(messages, HistoryLength + 1, Len(messages))
    BY AgentAssumption DEF AgentInv, AgentTypeOK, SaveFits
  <2>2. Framed(messages, HistoryLength)
    <3>1. messages # <<>>
      BY <2>1
    <3>2. \E h \in HookedLengths : Framed(messages, h)
      BY <3>1 DEF AgentInv, HasPrompt
    <3>3. PICK h \in HookedLengths : Framed(messages, h)
      BY <3>2
    <3>4. h = HistoryLength
      BY DEF HooksKeepLength
    <3> QED
      BY <3>3, <3>4
  <2>3. HistoryLength < Len(messages) /\ messages[HistoryLength + 1] = User(Prompt)
    BY <2>2 DEF Framed
  <2>4. /\ Len(saved) = Len(messages) - HistoryLength
        /\ \A i \in 1 .. Len(messages) - HistoryLength : saved[i] = messages[HistoryLength + i]
    BY <2>1
  <2>5. 1 \in 1 .. Len(messages) - HistoryLength /\ Len(saved) >= 1
    BY <2>1, <2>3, <2>4
  <2>6. saved[1] = messages[HistoryLength + 1] /\ saved # <<>>
    BY <2>4, <2>5
  <2> QED
    BY <2>3, <2>6
<1> QED
  BY <1>1, AgentInvariant, PTL

-----------------------------------------------------------------------------
(* The messages of the queues.                                              *)

\* The numbers of injected messages are those of accepted ones.
NumbersKnown ==
  /\ \A i \in DOMAIN messages : IsInjected(messages[i]) => messages[i].id \in DOMAIN accepted
  /\ \A i \in DOMAIN steering : steering[i] \in DOMAIN accepted
  /\ \A i \in DOMAIN followUp : followUp[i] \in DOMAIN accepted

\* KeptInOrder of any conversation s, any history a of acceptances and any queue q.
Came(x, a, k) == IsInjected(x) /\ a[x.id] = k

InOrder(s, a, k, q) ==
  /\ \A m \in DOMAIN a : a[m] = k =>
       \/ \E i \in DOMAIN s : s[i] = User(m)
       \/ \E i \in DOMAIN q : q[i] = m
  /\ \A i, j \in DOMAIN s : i < j /\ Came(s[i], a, k) /\ Came(s[j], a, k) => s[i].id < s[j].id
  /\ \A i \in DOMAIN s, j \in DOMAIN q : Came(s[i], a, k) => s[i].id < q[j]
  /\ \A j \in DOMAIN q : a[q[j]] = k
  /\ \A i, j \in DOMAIN q : i < j => q[i] < q[j]

Known(s, a) == \A i \in DOMAIN s : IsInjected(s[i]) => s[i].id \in DOMAIN a

\* Before the run has lost what it took, and also before it has taken anything.
NothingLost == ~rerun /\ (messages # <<>> \/ (phase = "start" /\ ~continuing))

KeptInv ==
  /\ NumbersKnown
  /\ NothingLost =>
       /\ InOrder(messages, accepted, "steer", steering)
       /\ InOrder(messages, accepted, "follow", followUp)

\* A conversation in which injected messages keep their order, at places that
\* are moved by d.
LEMMA Moved ==
  ASSUME NEW s, NEW r, NEW a, NEW k, NEW q, NEW d \in Int,
         DOMAIN s \subseteq Int, DOMAIN r \subseteq Int, DOMAIN a \subseteq Nat \ {0},
         InOrder(s, a, k, q),
         \A i \in DOMAIN s : IsInjected(s[i]) => i + d \in DOMAIN r /\ r[i + d] = s[i],
         \A i \in DOMAIN r : IsInjected(r[i]) => i - d \in DOMAIN s /\ r[i] = s[i - d]
  PROVE  InOrder(r, a, k, q)
<1>1. ASSUME NEW m \in DOMAIN a, NEW i \in DOMAIN s, s[i] = User(m)
      PROVE  \E j \in DOMAIN r : r[j] = User(m)
  <2>1. IsInjected(s[i])
    BY <1>1 DEF IsInjected, User, Prompt
  <2> QED
    BY <1>1, <2>1
<1>2. ASSUME NEW i \in DOMAIN r, NEW j \in DOMAIN r, i < j, Came(r[i], a, k), Came(r[j], a, k)
      PROVE  r[i].id < r[j].id
  <2>1. i - d \in DOMAIN s /\ r[i] = s[i - d] /\ j - d \in DOMAIN s /\ r[j] = s[j - d]
    BY <1>2 DEF Came
  <2>2. i - d < j - d
    BY <1>2
  <2> QED
    BY <1>2, <2>1, <2>2 DEF InOrder
<1>3. ASSUME NEW i \in DOMAIN r, NEW j \in DOMAIN q, Came(r[i], a, k)
      PROVE  r[i].id < q[j]
  <2>1. i - d \in DOMAIN s /\ r[i] = s[i - d]
    BY <1>3 DEF Came
  <2> QED
    BY <1>3, <2>1 DEF InOrder
<1> QED
  BY <1>1, <1>2, <1>3 DEF InOrder

\* A queue is drained: what was taken and what is left are the queue.
LEMMA DrainedIs ==
  ASSUME NEW q \in Seq(Injected), NEW m \in {"all", "one"}
  PROVE  LET t == Taken(q, m)  l == Left(q, m)
         IN  /\ t \in Seq(Injected) /\ l \in Seq(Injected)
             /\ Len(q) = Len(t) + Len(l)
             /\ \A i \in 1 .. Len(t) : t[i] = q[i]
             /\ \A i \in 1 .. Len(l) : l[i] = q[Len(t) + i]
<1>1. CASE m = "all" \/ q = <<>>
  BY <1>1 DEF Taken, Left
<1>2. CASE ~(m = "all" \/ q = <<>>)
  <2>1. Len(q) >= 1 /\ Head(q) = q[1] /\ q[1] \in Injected
    BY <1>2
  <2>2. Tail(q) \in Seq(Injected) /\ Len(Tail(q)) = Len(q) - 1
        /\ \A i \in 1 .. Len(q) - 1 : Tail(q)[i] = q[1 + i]
    BY <2>1
  <2>3. <<q[1]>> \in Seq(Injected) /\ Len(<<q[1]>>) = 1 /\ <<q[1]>>[1] = q[1]
    BY <2>1
  <2>4. Taken(q, m) = <<q[1]>> /\ Left(q, m) = Tail(q)
    BY <1>2, <2>1 DEF Taken, Left
  <2> QED
    BY <2>1, <2>2, <2>3, <2>4
<1> QED
  BY <1>1, <1>2

\* Users at the end, by their number.
LEMMA UsersAtEnd ==
  ASSUME NEW s \in Seq(Message), NEW t \in Seq(Injected)
  PROVE  LET r == s \o Users(t)
         IN  /\ DOMAIN r = 1 .. Len(s) + Len(t)
             /\ \A i \in 1 .. Len(s) : r[i] = s[i]
             /\ \A i \in 1 .. Len(t) : r[Len(s) + i] = User(t[i])
<1>1. Users(t) \in Seq(Message) /\ Len(Users(t)) = Len(t)
  <2>1. \A i \in DOMAIN t : User(t[i]) \in Message
    BY MadeMessages
  <2> QED
    BY <2>1 DEF Users
<1>2. \A i \in 1 .. Len(t) : Users(t)[i] = User(t[i])
  BY DEF Users
<1> DEFINE u == Users(t)
<1> HIDE DEF u
<1>3. /\ DOMAIN (s \o u) = 1 .. Len(s) + Len(u)
      /\ \A i \in 1 .. Len(s) + Len(u) :
           (s \o u)[i] = IF i <= Len(s) THEN s[i] ELSE u[i - Len(s)]
  BY <1>1 DEF u
<1>4. \A i \in 1 .. Len(t) :
        Len(s) + i \in 1 .. Len(s) + Len(t) /\ ~(Len(s) + i <= Len(s)) /\ Len(s) + i - Len(s) = i
  OBVIOUS
<1>5. \A i \in 1 .. Len(t) : (s \o u)[Len(s) + i] = u[i]
  BY <1>1, <1>3, <1>4 DEF u
<1>6. \A i \in 1 .. Len(s) : (s \o u)[i] = s[i]
  BY <1>1, <1>3 DEF u
<1> QED
  BY <1>1, <1>2, <1>3, <1>5, <1>6 DEF u

\* Conversation r is s with the users t at its end.
WithUsers(r, s, t) ==
  /\ DOMAIN r = 1 .. Len(s) + Len(t)
  /\ \A i \in 1 .. Len(s) : r[i] = s[i]
  /\ \A i \in 1 .. Len(t) : r[Len(s) + i] = User(t[i])

\* A place in it is one of s or one of t.
LEMMA PlacesWithUsers ==
  ASSUME NEW s \in Seq(Message), NEW t \in Seq(Injected), NEW r, WithUsers(r, s, t),
         NEW i \in DOMAIN r
  PROVE  \/ i \in DOMAIN s /\ r[i] = s[i]
         \/ \E j \in DOMAIN t : i = Len(s) + j /\ r[i] = User(t[j]) /\ r[i].id = t[j]
<1>1. CASE i \in 1 .. Len(s)
  BY <1>1 DEF WithUsers
<1>2. CASE i > Len(s)
  <2> DEFINE j == i - Len(s)
  <2>1. j \in 1 .. Len(t) /\ i = Len(s) + j
    BY <1>2 DEF WithUsers
  <2> HIDE DEF j
  <2>2. r[i] = User(t[j])
    BY <2>1 DEF WithUsers
  <2>3. User(t[j]).id = t[j]
    BY DEF User
  <2> QED
    BY <2>1, <2>2, <2>3
<1> QED
  BY <1>1, <1>2 DEF WithUsers

\* What a queue gives to the conversation is in order there, and before what is
\* left in the queue.
LEMMA TakenOwn ==
  ASSUME NEW s \in Seq(Message), NEW r, NEW a, NEW k,
         NEW q \in Seq(Injected), NEW t \in Seq(Injected), NEW l \in Seq(Injected),
         Len(q) = Len(t) + Len(l),
         \A i \in 1 .. Len(t) : t[i] = q[i],
         \A i \in 1 .. Len(l) : l[i] = q[Len(t) + i],
         WithUsers(r, s, t), InOrder(s, a, k, q)
  PROVE  InOrder(r, a, k, l)
<1>0. /\ DOMAIN s = 1 .. Len(s) /\ DOMAIN t = 1 .. Len(t) /\ DOMAIN l = 1 .. Len(l)
      /\ DOMAIN q = 1 .. Len(q)
      /\ Len(s) \in Nat /\ Len(t) \in Nat /\ Len(l) \in Nat
  OBVIOUS
<1>1. \A i \in DOMAIN t : i \in DOMAIN q /\ t[i] = q[i]
  BY <1>0
<1>2. \A i \in DOMAIN l : Len(t) + i \in DOMAIN q /\ l[i] = q[Len(t) + i]
  BY <1>0
<1>3. ASSUME NEW m \in DOMAIN a, a[m] = k
      PROVE  (\E i \in DOMAIN r : r[i] = User(m)) \/ (\E i \in DOMAIN l : l[i] = m)
  <2>1. CASE \E i \in DOMAIN s : s[i] = User(m)
    <3>1. \A i \in DOMAIN s : i \in DOMAIN r /\ r[i] = s[i]
      BY <1>0 DEF WithUsers
    <3> QED
      BY <2>1, <3>1
  <2>2. ASSUME NEW i \in DOMAIN q, q[i] = m
        PROVE  (\E j \in DOMAIN r : r[j] = User(m)) \/ (\E j \in DOMAIN l : l[j] = m)
    <3>1. CASE i <= Len(t)
      <4>1. i \in 1 .. Len(t) /\ Len(s) + i \in DOMAIN r
        BY <3>1 DEF WithUsers
      <4> QED
        BY <2>2, <4>1 DEF WithUsers
    <3>2. CASE i > Len(t)
      <4>1. i - Len(t) \in 1 .. Len(l) /\ Len(t) + (i - Len(t)) = i
        BY <3>2
      <4> QED
        BY <2>2, <4>1
    <3> QED
      BY <3>1, <3>2
  <2> QED
    BY <1>3, <2>1, <2>2 DEF InOrder
<1>4. ASSUME NEW i \in DOMAIN r, NEW j \in DOMAIN r, i < j, Came(r[i], a, k), Came(r[j], a, k)
      PROVE  r[i].id < r[j].id
  <2>1. CASE j \in DOMAIN s
    <3>1. i \in DOMAIN s /\ r[i] = s[i] /\ r[j] = s[j]
      BY <1>0, <1>4, <2>1 DEF WithUsers
    <3> QED
      BY <1>4, <2>1, <3>1 DEF InOrder
  <2>2. ASSUME NEW n \in DOMAIN t, j = Len(s) + n, r[j].id = t[n] PROVE r[i].id < r[j].id
    <3>1. CASE i \in DOMAIN s /\ r[i] = s[i]
      BY <1>1, <1>4, <2>2, <3>1 DEF InOrder
    <3>2. ASSUME NEW p \in DOMAIN t, i = Len(s) + p, r[i].id = t[p] PROVE r[i].id < r[j].id
      <4>1. p < n
        BY <1>4, <2>2, <3>2
      <4> QED
        BY <1>1, <2>2, <3>2, <4>1 DEF InOrder
    <3> QED
      BY <3>1, <3>2, PlacesWithUsers
  <2> QED
    BY <2>1, <2>2, PlacesWithUsers
<1>5. ASSUME NEW i \in DOMAIN r, NEW j \in DOMAIN l, Came(r[i], a, k)
      PROVE  r[i].id < l[j]
  <2>1. CASE i \in DOMAIN s /\ r[i] = s[i]
    BY <1>2, <1>5, <2>1 DEF InOrder
  <2>2. ASSUME NEW p \in DOMAIN t, r[i].id = t[p] PROVE r[i].id < l[j]
    <3>1. p < Len(t) + j
      OBVIOUS
    <3> QED
      BY <1>1, <1>2, <2>2, <3>1 DEF InOrder
  <2> QED
    BY <2>1, <2>2, PlacesWithUsers
<1>6. \A j \in DOMAIN l : a[l[j]] = k
  BY <1>2 DEF InOrder
<1>7. ASSUME NEW i \in DOMAIN l, NEW j \in DOMAIN l, i < j PROVE l[i] < l[j]
  <2>1. Len(t) + i < Len(t) + j
    BY <1>7
  <2> QED
    BY <1>2, <2>1 DEF InOrder
<1> QED
  BY <1>3, <1>4, <1>5, <1>6, <1>7 DEF InOrder

\* What the other queue gives changes nothing for this one.
LEMMA TakenOther ==
  ASSUME NEW s \in Seq(Message), NEW r, NEW a, NEW k, NEW q, NEW t \in Seq(Injected),
         \A i \in DOMAIN t : a[t[i]] # k,
         WithUsers(r, s, t), InOrder(s, a, k, q)
  PROVE  InOrder(r, a, k, q)
<1>1. \A i \in DOMAIN s : i \in DOMAIN r /\ r[i] = s[i]
  BY DEF WithUsers
<1>2. ASSUME NEW i \in DOMAIN r, Came(r[i], a, k) PROVE i \in DOMAIN s /\ r[i] = s[i]
  <2>1. ~ \E j \in DOMAIN t : r[i].id = t[j]
    BY <1>2 DEF Came
  <2> QED
    BY <2>1, PlacesWithUsers
<1> QED
  BY <1>1, <1>2 DEF InOrder

\* A new message gets the next number, and the last place of its queue.
LEMMA PutOwn ==
  ASSUME NEW s \in Seq(Message), NEW a \in Seq({"steer", "follow"}), NEW k \in {"steer", "follow"},
         NEW q \in Seq(Injected), Len(a) + 1 \in Injected,
         Known(s, a), \A i \in DOMAIN q : q[i] \in DOMAIN a, InOrder(s, a, k, q)
  PROVE  InOrder(s, Append(a, k), k, Append(q, Len(a) + 1))
<1> DEFINE n == Len(a) + 1
           b == Append(a, k)
           p == Append(q, n)
<1>1. /\ DOMAIN b = 1 .. n /\ b[n] = k /\ \A i \in DOMAIN a : b[i] = a[i] /\ i < n
      /\ n \in Nat
  OBVIOUS
<1>2. /\ DOMAIN p = 1 .. Len(q) + 1 /\ p[Len(q) + 1] = n
      /\ \A i \in DOMAIN q : i \in DOMAIN p /\ p[i] = q[i]
  OBVIOUS
<1> HIDE DEF b, p
<1>3. \A i \in DOMAIN s : IsInjected(s[i]) => s[i].id \in DOMAIN a /\ s[i].id < n
  BY <1>1 DEF Known
<1>4. \A i \in DOMAIN s : Came(s[i], b, k) => Came(s[i], a, k)
  BY <1>1, <1>3 DEF Came
<1>5. ASSUME NEW m \in DOMAIN b, b[m] = k
      PROVE  (\E i \in DOMAIN s : s[i] = User(m)) \/ (\E i \in DOMAIN p : p[i] = m)
  <2>1. CASE m = n
    BY <1>2, <2>1
  <2>2. CASE m # n
    <3>1. m \in DOMAIN a /\ a[m] = k
      BY <1>1, <1>5, <2>2
    <3> QED
      BY <1>2, <3>1 DEF InOrder
  <2> QED
    BY <2>1, <2>2
<1>6. \A i, j \in DOMAIN s : i < j /\ Came(s[i], b, k) /\ Came(s[j], b, k) => s[i].id < s[j].id
  BY <1>4 DEF InOrder
<1>7. \A j \in DOMAIN p : (j \in DOMAIN q /\ p[j] = q[j]) \/ (j = Len(q) + 1 /\ p[j] = n)
  BY <1>2
<1>8. \A i \in DOMAIN s, j \in DOMAIN p : Came(s[i], b, k) => s[i].id < p[j]
  BY <1>3, <1>4, <1>7 DEF InOrder, Came
<1>9. \A j \in DOMAIN p : b[p[j]] = k
  BY <1>1, <1>7 DEF InOrder
<1>10. ASSUME NEW i \in DOMAIN p, NEW j \in DOMAIN p, i < j PROVE p[i] < p[j]
  <2>1. i \in DOMAIN q /\ p[i] = q[i] /\ q[i] < n
    BY <1>1, <1>2, <1>7, <1>10
  <2> QED
    BY <1>7, <1>10, <2>1 DEF InOrder
<1> QED
  BY <1>5, <1>6, <1>8, <1>9, <1>10 DEF InOrder, b, p

\* The other queue stays as it was.
LEMMA PutOther ==
  ASSUME NEW s \in Seq(Message), NEW a \in Seq({"steer", "follow"}), NEW k, NEW o \in {"steer", "follow"},
         o # k, NEW q \in Seq(Injected),
         Known(s, a), \A i \in DOMAIN q : q[i] \in DOMAIN a, InOrder(s, a, k, q)
  PROVE  InOrder(s, Append(a, o), k, q)
<1> DEFINE b == Append(a, o)
<1>1. /\ DOMAIN b = 1 .. Len(a) + 1 /\ b[Len(a) + 1] = o
      /\ \A i \in DOMAIN a : b[i] = a[i]
  OBVIOUS
<1> HIDE DEF b
<1>2. \A i \in DOMAIN s : Came(s[i], b, k) => Came(s[i], a, k)
  BY <1>1 DEF Came, Known
<1>3. \A m \in DOMAIN b : b[m] = k => m \in DOMAIN a /\ a[m] = k
  BY <1>1
<1> QED
  BY <1>1, <1>2, <1>3 DEF InOrder, b

-----------------------------------------------------------------------------
(* Every step of a run keeps the messages of the queues.                    *)

\* The queues are as they were, and the injected messages are moved by d.
LEMMA Carried ==
  ASSUME AgentInv, AgentInv', KeptInv, UNCHANGED queueVars, NothingLost' => NothingLost,
         NEW d \in Int,
         \A i \in DOMAIN messages : IsInjected(messages[i]) =>
           i + d \in DOMAIN messages' /\ messages'[i + d] = messages[i],
         \A i \in DOMAIN messages' : IsInjected(messages'[i]) =>
           i - d \in DOMAIN messages /\ messages'[i] = messages[i - d]
  PROVE  KeptInv'
<1>1. /\ DOMAIN messages \subseteq Int /\ DOMAIN messages' \subseteq Int
      /\ DOMAIN accepted \subseteq Nat \ {0}
  <2>1. /\ messages \in Seq(Message) /\ messages' \in Seq(Message)
        /\ accepted \in Seq({"steer", "follow"})
    BY DEF AgentInv, AgentTypeOK
  <2> QED
    BY <2>1
<1>2. UNCHANGED <<steering, followUp, accepted>>
  BY DEF queueVars
<1>3. NumbersKnown'
  <2>1. \A i \in DOMAIN messages' : IsInjected(messages'[i]) => messages'[i].id \in DOMAIN accepted
    BY DEF KeptInv, NumbersKnown
  <2> QED
    BY <1>2, <2>1 DEF KeptInv, NumbersKnown
<1>4. ASSUME NothingLost', NEW k, NEW q, InOrder(messages, accepted, k, q)
      PROVE  InOrder(messages', accepted, k, q)
  BY <1>1, <1>4, Moved
<1> QED
  BY <1>2, <1>3, <1>4 DEF KeptInv

\* Nothing happens to the messages.
LEMMA MessagesStay ==
  ASSUME AgentInv, AgentInv', KeptInv, UNCHANGED <<queueVars, messages>>,
         NothingLost' => NothingLost
  PROVE  KeptInv'
<1>1. \A i \in DOMAIN messages : i \in Int /\ i + 0 = i /\ i - 0 = i
  BY DEF AgentInv, AgentTypeOK
<1> QED
  BY <1>1, Carried

\* An answer or a result is appended.
LEMMA OneMore ==
  ASSUME AgentInv, AgentInv', KeptInv, UNCHANGED <<queueVars, turnVars>>,
         messages # <<>>, NEW x \in Message, x.role # "user", messages' = Append(messages, x)
  PROVE  KeptInv'
<1>1. messages \in Seq(Message) /\ DOMAIN messages = 1 .. Len(messages) /\ Len(messages) \in Nat
  BY DEF AgentInv, AgentTypeOK
<1>2. NothingLost' => NothingLost
  BY DEF NothingLost, turnVars
<1>3. /\ DOMAIN messages' = 1 .. Len(messages) + 1 /\ messages'[Len(messages) + 1] = x
      /\ \A i \in 1 .. Len(messages) : messages'[i] = messages[i]
  BY <1>1
<1>4. ~IsInjected(x)
  BY DEF IsInjected
<1>5. \A i \in DOMAIN messages : i + 0 \in DOMAIN messages' /\ messages'[i + 0] = messages[i]
  BY <1>1, <1>3
<1>6. \A i \in DOMAIN messages' : IsInjected(messages'[i]) =>
        i - 0 \in DOMAIN messages /\ messages'[i] = messages[i - 0]
  <2> SUFFICES ASSUME NEW i \in DOMAIN messages', IsInjected(messages'[i])
               PROVE  i - 0 \in DOMAIN messages /\ messages'[i] = messages[i - 0]
    OBVIOUS
  <2>1. i # Len(messages) + 1
    BY <1>3, <1>4
  <2>2. i \in 1 .. Len(messages) /\ i - 0 = i
    BY <1>1, <1>3, <2>1
  <2> QED
    BY <1>1, <1>3, <2>2
<1> QED
  BY <1>2, <1>5, <1>6, Carried, SMTT(20)

\* What was in the conversation of a run that cannot start is not asked about.
LEMMA NothingLeft ==
  ASSUME KeptInv, messages' = <<>>, ~NothingLost', UNCHANGED queueVars
  PROVE  KeptInv'
BY DEF KeptInv, NumbersKnown, queueVars

\* The retry takes only an error off.
LEMMA TrimmedKeeps ==
  ASSUME NEW s \in Seq(Message), NEW i \in DOMAIN s, IsInjected(s[i])
  PROVE  i \in DOMAIN Trimmed(s)
<1>1. CASE s # <<>> /\ Last(s).role = "assistant" /\ Last(s).stop = "error"
  <2> DEFINE n == Len(s) - 1
             r == SubSeq(s, 1, n)
  <2>1. n \in Nat /\ n <= Len(s) /\ i \in 1 .. Len(s)
    BY <1>1
  <2>2. i # Len(s)
    BY <1>1 DEF Last, IsInjected
  <2>3. Trimmed(s) = r
    BY <1>1 DEF Trimmed
  <2> HIDE DEF n
  <2>4. DOMAIN r = 1 .. n
    BY <2>1
  <2>5. i \in 1 .. n
    BY <2>1, <2>2 DEF n
  <2> QED
    BY <2>3, <2>4, <2>5
<1>2. CASE ~(s # <<>> /\ Last(s).role = "assistant" /\ Last(s).stop = "error")
  BY <1>2 DEF Trimmed
<1> QED
  BY <1>1, <1>2

LEMMA ResumeKeeps ==
  ASSUME AgentInv, AgentInv', KeptInv, Resume
  PROVE  KeptInv'
<1>1. /\ messages \in Seq(Message) /\ SettledBeforeEnd(messages)
      /\ \A i \in DOMAIN messages : ~IsAborted(messages[i])
  BY DEF AgentInv, AgentTypeOK, PhaseFits, AbortsFit, Resume
<1>2. /\ messages' = Trimmed(messages) /\ continuing' = TRUE
      /\ phase = "backoff" /\ phase' = "start" /\ UNCHANGED <<queueVars, rerun>>
  BY DEF Resume
<1>3. Begins(messages', messages) /\ messages' \in Seq(Message)
  BY <1>1, <1>2, TrimmedSettled
<1>4. \A i \in DOMAIN messages' : i \in DOMAIN messages /\ messages'[i] = messages[i]
  BY <1>1, <1>3 DEF Begins
<1>5. NothingLost' => NothingLost
  <2>1. messages' # <<>> => messages # <<>>
    BY <1>1, <1>3 DEF Begins
  <2> QED
    BY <1>2, <2>1 DEF NothingLost
<1>6. \A i \in DOMAIN messages : IsInjected(messages[i]) =>
        i + 0 \in DOMAIN messages' /\ messages'[i + 0] = messages[i]
  <2>1. \A i \in DOMAIN messages : IsInjected(messages[i]) => i \in DOMAIN messages'
    BY <1>1, <1>2, TrimmedKeeps
  <2>2. \A i \in DOMAIN messages : i + 0 = i
    BY <1>1
  <2> QED
    BY <1>4, <2>1, <2>2
<1>7. \A i \in DOMAIN messages' : i - 0 \in DOMAIN messages /\ messages'[i] = messages[i - 0]
  <2>1. \A i \in DOMAIN messages' : i - 0 = i
    BY <1>3
  <2> QED
    BY <1>4, <2>1
<1> QED
  BY <1>2, <1>5, <1>6, <1>7, Carried

\* A start puts another history before them, or only the prompt.
LEMMA StartKeeps ==
  ASSUME AgentInv, AgentInv', KeptInv, Start
  PROVE  KeptInv'
<1>1. /\ messages \in Seq(Message) /\ messages' \in Seq(Message) /\ HasPrompt
      /\ (continuing \/ messages = <<>>)
  BY DEF AgentInv, AgentTypeOK, PhaseFits, Start
<1>2. /\ phase = "start" /\ phase' = "drain"
      /\ UNCHANGED <<queueVars, turnVars>>
      /\ continuing => messages # <<>>
  BY DEF Start, CannotContinue
<1>3. NothingLost' => NothingLost
  BY <1>2 DEF NothingLost, turnVars
<1>4. PICK n \in HookedLengths :
        messages' = Hooked(n, IF continuing THEN messages ELSE <<User(Prompt)>>)
  BY DEF Start
<1>5. n \in Nat
  BY AgentAssumption
<1>6. CASE continuing
  <2>1. PICK h \in Nat : Framed(messages, h)
    BY <1>1, <1>2, <1>6, AgentAssumption DEF HasPrompt
  <2>2. /\ Len(messages') = n + Len(messages) - h
        /\ \A i \in 1 .. n : messages'[i].role = "history"
        /\ \A i \in n + 1 .. Len(messages') :
             i - n + h \in h + 1 .. Len(messages) /\ messages'[i] = messages[i - n + h]
    BY <1>1, <1>4, <1>5, <1>6, <2>1, HookedIs
  <2> DEFINE d == n - h
  <2>3. ASSUME NEW i \in DOMAIN messages', IsInjected(messages'[i])
        PROVE  i - d \in DOMAIN messages /\ messages'[i] = messages[i - d]
    <3>1. i \in n + 1 .. Len(messages')
      BY <1>1, <1>5, <2>2, <2>3 DEF IsInjected
    <3>2. i - d = i - n + h /\ i - d \in 1 .. Len(messages)
      BY <1>5, <2>1, <2>2, <3>1
    <3> QED
      BY <1>1, <2>2, <3>1, <3>2
  <2>4. ASSUME NEW i \in DOMAIN messages, IsInjected(messages[i])
        PROVE  i + d \in DOMAIN messages' /\ messages'[i + d] = messages[i]
    <3>1. i > h /\ i \in 1 .. Len(messages)
      BY <1>1, <2>1, <2>4 DEF Framed, IsInjected
    <3>2. i + d \in n + 1 .. Len(messages') /\ (i + d) - n + h = i
      BY <1>1, <1>5, <2>1, <2>2, <3>1
    <3>3. messages'[i + d] = messages[(i + d) - n + h]
      BY <2>2, <3>2
    <3>4. i + d \in DOMAIN messages'
      BY <1>1, <1>5, <3>2
    <3> QED
      BY <3>2, <3>3, <3>4
  <2>5. d \in Int
    BY <1>5, <2>1
  <2> HIDE DEF d
  <2> QED
    BY <1>2, <1>3, <2>3, <2>4, <2>5, Carried
<1>7. CASE ~continuing
  <2> DEFINE u == User(Prompt)
  <2>1. u \in Message /\ u.role = "user" /\ ~IsInjected(u)
    BY MadeMessages DEF IsInjected, User
  <2> HIDE DEF u
  <2>2. <<u>> \in Seq(Message) /\ Len(<<u>>) = 1 /\ <<u>>[1] = u
    BY <2>1
  <2>3. Framed(<<u>>, 0)
    BY <2>1, <2>2 DEF Framed, u
  <2>4. /\ Len(messages') = n + 1
        /\ \A i \in 1 .. n : messages'[i].role = "history"
        /\ \A i \in n + 1 .. Len(messages') : i - n \in 1 .. 1 /\ messages'[i] = <<u>>[i - n]
    <3>1. messages' = Hooked(n, <<u>>)
      BY <1>4, <1>7 DEF u
    <3>2. /\ Len(Hooked(n, <<u>>)) = n + 1 - 0
          /\ \A i \in 1 .. n : Hooked(n, <<u>>)[i].role = "history"
          /\ \A i \in n + 1 .. Len(Hooked(n, <<u>>)) :
               i - n + 0 \in 0 + 1 .. 1 /\ Hooked(n, <<u>>)[i] = <<u>>[i - n + 0]
      BY <1>5, <2>2, <2>3, HookedIs
    <3>3. n + 1 - 0 = n + 1 /\ \A i \in Int : i - n + 0 = i - n
      BY <1>5
    <3>4. \A i \in n + 1 .. n + 1 : i \in Int
      BY <1>5
    <3> QED
      BY <3>1, <3>2, <3>3, <3>4
  <2>5. \A i \in DOMAIN messages' : ~IsInjected(messages'[i])
    <3> SUFFICES ASSUME NEW i \in DOMAIN messages' PROVE ~IsInjected(messages'[i])
      OBVIOUS
    <3>1. CASE i \in 1 .. n
      BY <2>4, <3>1 DEF IsInjected
    <3>2. CASE i = n + 1
      <4>1. messages'[i] = u
        BY <1>5, <2>2, <2>4, <3>2
      <4> QED
        BY <2>1, <4>1
    <3> QED
      BY <1>1, <1>5, <2>4, <3>1, <3>2
  <2>6. messages = <<>>
    BY <1>1, <1>7
  <2> QED
    BY <1>2, <1>3, <2>5, <2>6, Carried
<1> QED
  BY <1>6, <1>7

\* The numbers of all of them are known.
LEMMA KnownWithUsers ==
  ASSUME NEW s \in Seq(Message), NEW t \in Seq(Injected), NEW r, NEW a, WithUsers(r, s, t),
         Known(s, a), \A j \in DOMAIN t : t[j] \in DOMAIN a
  PROVE  Known(r, a)
<1> SUFFICES ASSUME NEW i \in DOMAIN r, IsInjected(r[i]) PROVE r[i].id \in DOMAIN a
  BY DEF Known
<1>1. CASE i \in DOMAIN s /\ r[i] = s[i]
  BY <1>1 DEF Known
<1>2. ASSUME NEW j \in DOMAIN t, r[i].id = t[j] PROVE r[i].id \in DOMAIN a
  BY <1>2
<1> QED
  BY <1>1, <1>2, PlacesWithUsers

\* What is taken from one queue goes to the end of the conversation.
LEMMA QueueTaken ==
  ASSUME AgentInv, KeptInv, messages # <<>>, NEW m \in {"all", "one"},
         NEW q \in Seq(Injected), NEW k, NEW p, NEW o, o # k,
         NothingLost => InOrder(messages, accepted, k, q),
         NothingLost => InOrder(messages, accepted, o, p),
         \A i \in DOMAIN q : q[i] \in DOMAIN accepted,
         messages' = messages \o Users(Taken(q, m))
  PROVE  /\ NothingLost => InOrder(messages', accepted, k, Left(q, m))
         /\ NothingLost => InOrder(messages', accepted, o, p)
         /\ Known(messages', accepted)
         /\ \A i \in DOMAIN Left(q, m) : Left(q, m)[i] \in DOMAIN accepted
<1> DEFINE t == Taken(q, m)
           l == Left(q, m)
<1>1. messages \in Seq(Message)
  BY DEF AgentInv, AgentTypeOK
<1>2. /\ t \in Seq(Injected) /\ l \in Seq(Injected)
      /\ Len(q) = Len(t) + Len(l)
      /\ \A i \in 1 .. Len(t) : t[i] = q[i]
      /\ \A i \in 1 .. Len(l) : l[i] = q[Len(t) + i]
  BY DrainedIs
<1>3. messages' = messages \o Users(t)
  OBVIOUS
<1> HIDE DEF t, l
<1>4. WithUsers(messages', messages, t)
  BY <1>1, <1>2, <1>3, UsersAtEnd DEF WithUsers
<1>5. \A i \in DOMAIN t : i \in DOMAIN q /\ t[i] = q[i]
  BY <1>2
<1>6. \A i \in DOMAIN l : Len(t) + i \in DOMAIN q /\ l[i] = q[Len(t) + i]
  <2>1. /\ DOMAIN l = 1 .. Len(l) /\ DOMAIN q = 1 .. Len(q)
        /\ Len(t) \in Nat /\ Len(l) \in Nat
    BY <1>2
  <2> QED
    BY <1>2, <2>1
<1>7. NothingLost => InOrder(messages', accepted, k, l)
  BY <1>1, <1>2, <1>4, TakenOwn
<1>8. NothingLost => InOrder(messages', accepted, o, p)
  <2> SUFFICES ASSUME NothingLost PROVE InOrder(messages', accepted, o, p)
    OBVIOUS
  <2>1. \A i \in DOMAIN t : accepted[t[i]] # o
    BY <1>5 DEF InOrder
  <2> QED
    BY <1>1, <1>2, <1>4, <2>1, TakenOther
<1>9. Known(messages', accepted)
  <2>1. Known(messages, accepted) /\ \A j \in DOMAIN t : t[j] \in DOMAIN accepted
    BY <1>5 DEF KeptInv, NumbersKnown, Known
  <2> QED
    BY <1>1, <1>2, <1>4, <2>1, KnownWithUsers
<1>10. \A i \in DOMAIN l : l[i] \in DOMAIN accepted
  BY <1>6
<1> QED
  BY <1>7, <1>8, <1>9, <1>10 DEF t, l

\* Steering goes in.
LEMMA SteeringTaken ==
  ASSUME AgentInv, KeptInv, messages # <<>>, UNCHANGED <<rerun, accepted, followUp>>,
         messages' = messages \o Users(Taken(steering, SteeringMode)),
         steering' = Left(steering, SteeringMode)
  PROVE  KeptInv'
<1>1. /\ steering \in Seq(Injected) /\ SteeringMode \in {"all", "one"}
      /\ \A i \in DOMAIN steering : steering[i] \in DOMAIN accepted
  BY AgentAssumption DEF AgentInv, AgentTypeOK, KeptInv, NumbersKnown
<1>2. NothingLost => /\ InOrder(messages, accepted, "steer", steering)
                     /\ InOrder(messages, accepted, "follow", followUp)
  BY DEF KeptInv
<1>3. /\ NothingLost => InOrder(messages', accepted, "steer", steering')
      /\ NothingLost => InOrder(messages', accepted, "follow", followUp)
      /\ Known(messages', accepted)
      /\ \A i \in DOMAIN steering' : steering'[i] \in DOMAIN accepted
  <2>1. "follow" # "steer"
    OBVIOUS
  <2> QED
    BY <1>1, <1>2, <2>1, QueueTaken
<1>4. NothingLost' => NothingLost
  BY DEF NothingLost
<1>5. NumbersKnown'
  BY <1>3 DEF NumbersKnown, Known, KeptInv
<1> QED
  BY <1>3, <1>4, <1>5 DEF KeptInv

\* A follow-up goes in.
LEMMA FollowUpTaken ==
  ASSUME AgentInv, KeptInv, messages # <<>>, UNCHANGED <<rerun, accepted, steering>>,
         messages' = messages \o Users(Taken(followUp, FollowUpMode)),
         followUp' = Left(followUp, FollowUpMode)
  PROVE  KeptInv'
<1>1. /\ followUp \in Seq(Injected) /\ FollowUpMode \in {"all", "one"}
      /\ \A i \in DOMAIN followUp : followUp[i] \in DOMAIN accepted
  BY AgentAssumption DEF AgentInv, AgentTypeOK, KeptInv, NumbersKnown
<1>2. NothingLost => /\ InOrder(messages, accepted, "follow", followUp)
                     /\ InOrder(messages, accepted, "steer", steering)
  BY DEF KeptInv
<1>3. /\ NothingLost => InOrder(messages', accepted, "follow", followUp')
      /\ NothingLost => InOrder(messages', accepted, "steer", steering)
      /\ Known(messages', accepted)
      /\ \A i \in DOMAIN followUp' : followUp'[i] \in DOMAIN accepted
  <2>1. "steer" # "follow"
    OBVIOUS
  <2> QED
    BY <1>1, <1>2, <2>1, QueueTaken
<1>4. NothingLost' => NothingLost
  BY DEF NothingLost
<1>5. NumbersKnown'
  BY <1>3 DEF NumbersKnown, Known, KeptInv
<1> QED
  BY <1>3, <1>4, <1>5 DEF KeptInv

LEMMA DrainKeeps ==
  ASSUME AgentInv, KeptInv, Drain \/ GoOn
  PROVE  KeptInv'
<1>1. messages # <<>>
  BY DEF AgentInv, PhaseFits, Drain, GoOn
<1>2. UNCHANGED <<rerun, accepted>>
  BY DEF Drain, GoOn, turnVars
<1>3. \/ /\ messages' = messages \o Users(Taken(steering, SteeringMode))
         /\ steering' = Left(steering, SteeringMode) /\ UNCHANGED followUp
      \/ /\ messages' = messages \o Users(Taken(followUp, FollowUpMode))
         /\ followUp' = Left(followUp, FollowUpMode) /\ UNCHANGED steering
  BY DEF Drain, GoOn
<1> QED
  BY <1>1, <1>2, <1>3, SteeringTaken, FollowUpTaken

\* Another goroutine puts a message into a queue.
LEMMA PutKeeps ==
  ASSUME AgentInv, KeptInv, Steer \/ FollowUp
  PROVE  KeptInv'
<1> DEFINE n == Len(accepted) + 1
<1>1. /\ steering \in Seq(Injected) /\ followUp \in Seq(Injected)
      /\ accepted \in Seq({"steer", "follow"}) /\ n \in Injected
  <2>1. Len(accepted) \in Nat /\ Len(accepted) < MaxInjected /\ MaxInjected \in Nat
    BY AgentAssumption DEF AgentInv, AgentTypeOK, Steer, FollowUp, Open
  <2> QED
    BY <2>1 DEF AgentInv, AgentTypeOK, Injected
<1>2. /\ Known(messages, accepted)
      /\ \A i \in DOMAIN steering : steering[i] \in DOMAIN accepted
      /\ \A i \in DOMAIN followUp : followUp[i] \in DOMAIN accepted
  BY DEF KeptInv, NumbersKnown, Known
<1>3. UNCHANGED messages /\ (NothingLost' <=> NothingLost)
  BY DEF Steer, FollowUp, loopVars, turnVars, NothingLost
<1>4. NothingLost => /\ InOrder(messages, accepted, "steer", steering)
                     /\ InOrder(messages, accepted, "follow", followUp)
  BY DEF KeptInv
<1>5. \E k \in {"steer", "follow"} : accepted' = Append(accepted, k)
  BY DEF Steer, FollowUp
<1>6. DOMAIN accepted \subseteq DOMAIN accepted' /\ n \in DOMAIN accepted'
  BY <1>1, <1>5
<1>7. \/ Steer /\ steering' = Append(steering, n) /\ UNCHANGED followUp
      \/ FollowUp /\ followUp' = Append(followUp, n) /\ UNCHANGED steering
  BY DEF Steer, FollowUp
<1>8. NumbersKnown'
  <2> HIDE DEF n
  <2>1. ASSUME NEW q \in Seq(Injected), \A i \in DOMAIN q : q[i] \in DOMAIN accepted
        PROVE  \A i \in DOMAIN Append(q, n) : Append(q, n)[i] \in DOMAIN accepted'
    <3>1. \A i \in DOMAIN Append(q, n) : Append(q, n)[i] = n \/ (i \in DOMAIN q /\ Append(q, n)[i] = q[i])
      BY <1>1
    <3> QED
      BY <1>6, <2>1, <3>1
  <2>2. /\ \A i \in DOMAIN steering' : steering'[i] \in DOMAIN accepted'
        /\ \A i \in DOMAIN followUp' : followUp'[i] \in DOMAIN accepted'
    BY <1>1, <1>2, <1>6, <1>7, <2>1
  <2> QED
    BY <1>2, <1>3, <1>6, <2>2 DEF NumbersKnown, Known
<1>9. ASSUME NothingLost, Steer
      PROVE  /\ InOrder(messages, accepted', "steer", steering')
             /\ InOrder(messages, accepted', "follow", followUp')
  <2>1. accepted' = Append(accepted, "steer") /\ steering' = Append(steering, n) /\ UNCHANGED followUp
    BY <1>9 DEF Steer
  <2>2. messages \in Seq(Message)
    BY DEF AgentInv, AgentTypeOK
  <2>3. InOrder(messages, accepted', "steer", steering')
    BY <1>1, <1>2, <1>4, <1>9, <2>1, <2>2, PutOwn
  <2>4. InOrder(messages, accepted', "follow", followUp')
    BY <1>1, <1>2, <1>4, <1>9, <2>1, <2>2, PutOther
  <2> QED
    BY <2>3, <2>4
<1>10. ASSUME NothingLost, FollowUp
       PROVE  /\ InOrder(messages, accepted', "steer", steering')
              /\ InOrder(messages, accepted', "follow", followUp')
  <2>1. accepted' = Append(accepted, "follow") /\ followUp' = Append(followUp, n) /\ UNCHANGED steering
    BY <1>10 DEF FollowUp
  <2>2. messages \in Seq(Message)
    BY DEF AgentInv, AgentTypeOK
  <2>3. InOrder(messages, accepted', "follow", followUp')
    BY <1>1, <1>2, <1>4, <1>10, <2>1, <2>2, PutOwn
  <2>4. InOrder(messages, accepted', "steer", steering')
    BY <1>1, <1>2, <1>4, <1>10, <2>1, <2>2, PutOther
  <2> QED
    BY <2>3, <2>4
<1> QED
  BY <1>3, <1>7, <1>8, <1>9, <1>10 DEF KeptInv

\* A run that cannot start, or that starts again after an overflow.
LEMMA LossKeeps ==
  ASSUME KeptInv, StartRefused \/ StartFails \/ Overflow
  PROVE  KeptInv'
<1>1. messages' = <<>> /\ UNCHANGED queueVars /\ ~NothingLost'
  BY DEF StartRefused, StartFails, Overflow, End, NothingLost
<1> QED
  BY <1>1, NothingLeft

\* Answers, errors and results come behind the injected messages.
LEMMA AppendKeeps ==
  ASSUME AgentInv, AgentInv', KeptInv,
         \/ ProviderFails
         \/ \E n \in 0 .. MaxCalls, e \in {"stop", "length", "error"} : Answers(n, e)
         \/ Collect
         \/ \E r \in ToolOutcome : CallEnds(r)
  PROVE  KeptInv'
<1>1. messages # <<>>
  BY DEF AgentInv, PhaseFits, ProviderFails, Answers, Collect, CallEnds
<1>2. UNCHANGED <<queueVars, turnVars>>
  BY DEF ProviderFails, Answers, Collect, CallEnds
<1>3. CASE ProviderFails \/ \E n \in 0 .. MaxCalls, e \in {"stop", "length", "error"} : Answers(n, e)
  <2>1. \E n \in 0 .. MaxCalls, e \in {"stop", "length", "error", "aborted"} :
          messages' = Append(messages, Assistant(n, e))
    BY <1>3, AgentAssumption DEF ProviderFails, Answers
  <2> QED
    BY <1>1, <1>2, <2>1, MadeMessages, OneMore
<1>4. CASE Collect \/ \E r \in ToolOutcome : CallEnds(r)
  <2>1. next \in DOMAIN outcome /\ phase \in {"parallel", "sequential"}
    BY <1>4 DEF Collect, CallEnds, Calls
  <2>t. outcome \in Seq(ToolOutcome \cup {"running"})
    BY DEF AgentInv, AgentTypeOK
  <2>2. PICK r \in ToolOutcome \cup {"aborted"} : messages' = Append(messages, ToolResult(next, r))
    <3>1. CASE Collect
      <4>1. outcome[next] \in ToolOutcome
        BY <2>t, <2>1, <3>1 DEF Collect
      <4> QED
        BY <3>1, <4>1 DEF Collect
    <3>2. CASE \E r \in ToolOutcome : CallEnds(r)
      BY <3>2 DEF CallEnds, ToolOutcome
    <3> QED
      BY <1>4, <3>1, <3>2
  <2>3. next \in 1 .. MaxCalls
    <3>1. next \in 1 .. Len(outcome) /\ Len(outcome) \in Nat
      BY <2>t, <2>1
    <3>2. Len(outcome) <= MaxCalls
      BY <2>1, WorkingOn
    <3> QED
      BY <3>1, <3>2, AgentAssumption
  <2> QED
    BY <1>1, <1>2, <2>2, <2>3, MadeMessages, OneMore
<1> QED
  BY <1>3, <1>4

\* The other steps leave the messages alone.
LEMMA RestKeeps ==
  ASSUME AgentInv, AgentInv', KeptInv,
         \/ Finish \/ AfterParallel \/ AfterSequential \/ Retry \/ BackoffCanceled
         \/ SavePanics \/ Save \/ Cancel
         \/ \E r \in ToolOutcome, i \in 1 .. MaxCalls : ToolEnds(i, r)
         \/ UNCHANGED agentVars
  PROVE  KeptInv'
<1>1. UNCHANGED <<queueVars, messages, rerun>>
  BY DEF Finish, AfterParallel, AfterSequential, Retry, BackoffCanceled, SavePanics, Save,
         Cancel, ToolEnds, agentVars, loopVars, turnVars
<1>2. phase' # "start" \/ UNCHANGED <<phase, continuing>>
  BY DEF Finish, AfterParallel, AfterSequential, End, Retry, BackoffCanceled, SavePanics, Save,
         Cancel, ToolEnds, agentVars, loopVars, turnVars
<1>3. NothingLost' => NothingLost
  BY <1>1, <1>2 DEF NothingLost
<1> QED
  BY <1>1, <1>3, MessagesStay

LEMMA NextKept ==
  ASSUME AgentInv, AgentInv', KeptInv, [Next]_agentVars
  PROVE  KeptInv'
BY StartKeeps, LossKeeps, DrainKeeps, AppendKeeps, ResumeKeeps, RestKeeps, PutKeeps DEF Next, RunStep

\* With AgentInv, the inductive invariant of the queues: also in the phase where
\* nothing has been taken yet, what was accepted is in the conversation or in its
\* queue, by rising numbers.
THEOREM AgentKept == Spec => []KeptInv
<1>1. Init => KeptInv
  BY DEF Init, KeptInv, NumbersKnown, InOrder
<1>2. AgentInv /\ AgentInv' /\ KeptInv /\ [Next]_agentVars => KeptInv'
  BY NextKept
<1> QED
  BY <1>1, <1>2, AgentInvariant, PTL DEF Spec

\* No message that a queue has accepted is lost, doubled or overtaken by a later
\* one of its queue, in the conversation or on its way there, however drains,
\* retries and hooks' histories interleave with the goroutines that queue: up to
\* the two events that throw the conversation away.
THEOREM AgentInjectedKept == Spec => []InjectedKept
<1>1. KeptInv => InjectedKept
  BY DEF KeptInv, NothingLost, InjectedKept, KeptInOrder, CameBy, InOrder, Came
<1> QED
  BY <1>1, AgentKept, PTL
=============================================================================
