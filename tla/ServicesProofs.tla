---------------------------- MODULE ServicesProofs ----------------------------
(***************************************************************************)
(* Proofs about the sides that face a peer: the Telegram bot, for any      *)
(* number of updates and restarts; the RPC server, for any connections,    *)
(* prompts and questions; the choice of the provider, in any environment;  *)
(* extensions, for every set of them and of tool calls, in whatever order  *)
(* and however often the files are found.                                  *)
(*                                                                         *)
(* Bot.  The offset is moved before the updates are handled, so that the   *)
(* invariant must say what it stands for while they are: the batch is all  *)
(* that lies between what is forgotten and the offset.  What is still to   *)
(* be submitted (ToSubmit) was submitted by dead processes only.           *)
(*                                                                         *)
(* Server.  A prompt that is not yet accepted has no line, one that is not *)
(* yet started no goroutine and no end (Handled).  A turn is run by a      *)
(* goroutine that polls and which runs no other (RunnerPolls), so its end  *)
(* is the end of that one only; and a goroutine succeeds with its own turn *)
(* (GoroutineRuns).  A question that waits is the one found under its ID   *)
(* as long as no other has taken that (Registered).                        *)
(*                                                                         *)
(* Client.  No change touches its name, its key or its wire (ChangesKeep). *)
(* (The conversation with it is in ProviderProofs.)                        *)
(*                                                                         *)
(* Extensions.  RunsOnlyApproved rests on the lock of a bridge.  While no  *)
(* call of an extension was left behind, and none of its questions taken   *)
(* for an answer (Astray, which only grows), the pipe carries lines for    *)
(* the lock's holder only (OneRequest), so the verdict that a call reads   *)
(* is its own, and the hooks that it has passed stay passed                *)
(* (PassedApproved).                                                       *)
(*                                                                         *)
(* The sum of MCServices.  One part moves and the others stand still, so   *)
(* each behaves as it does alone (ServicesTyped).                          *)
(***************************************************************************)
EXTENDS MCServices, ProviderProofs

-----------------------------------------------------------------------------
(* The Telegram bot.                                                        *)

Settled == \A u \in UpdateIds : u < forgotten => u \in handled

PollInv ==
  /\ updates \in Seq(Kinds)
  /\ forgotten \in 1 .. Len(updates) + 1
  /\ offset \in 0 .. Len(updates) + 1
  /\ Settled
  /\ polling = "poll" => \A u \in UpdateIds : u < offset => u \in handled
  /\ polling = "handling" => batch = {u \in UpdateIds : forgotten <= u /\ u < offset}

\* Where a poll starts, and the last update it gets.
LEMMA MaxOfTwo ==
  ASSUME NEW a \in Nat, NEW b \in Nat
  PROVE  Max({a, b}) = IF a >= b THEN a ELSE b
  BY DEF Max

LEMMA MaxOfRest ==
  ASSUME NEW from \in Nat, NEW n \in Nat, {u \in 1 .. n : u >= from} # {}
  PROVE  Max({u \in 1 .. n : u >= from}) = n
<1>1. n \in {u \in 1 .. n : u >= from} /\ \A u \in {u \in 1 .. n : u >= from} : n >= u
  OBVIOUS
<1> QED
  BY <1>1 DEF Max

-----------------------------------------------------------------------------
LEMMA BotInitInv == BotInit => PollInv
  BY DEF BotInit, PollInv, Settled, UpdateIds

LEMMA SendsInv ==
  ASSUME PollInv, NEW kind \in Kinds, ChatSends(kind)
  PROVE  PollInv'
<1>1. Len(updates') = Len(updates) + 1 /\ updates' \in Seq(Kinds)
        /\ UNCHANGED <<forgotten, offset, polling, batch, handled>>
  BY DEF ChatSends, PollInv
<1>2. Len(updates) \in Nat /\ UpdateIds' = UpdateIds \cup {Len(updates) + 1}
  BY <1>1 DEF PollInv, UpdateIds
<1> QED
  BY <1>1, <1>2 DEF PollInv, Settled

LEMMA PollsInv ==
  ASSUME PollInv, PollUpdates
  PROVE  PollInv'
<1> DEFINE from == Max({forgotten, offset})
           new == {u \in UpdateIds : u >= from}
<1>1. from = (IF forgotten >= offset THEN forgotten ELSE offset) /\ from \in Nat /\ Len(updates) \in Nat
  BY MaxOfTwo DEF PollInv
<1>2. Max(new) = Len(updates) /\ from <= Len(updates)
  <2>1. new # {} /\ new = {u \in 1 .. Len(updates) : u >= from}
    BY DEF PollUpdates, UpdateIds
  <2> HIDE DEF from
  <2>2. Max(new) = Len(updates)
    BY <1>1, <2>1, MaxOfRest
  <2> QED
    BY <1>1, <2>1, <2>2
<1>3. /\ polling = "poll" /\ polling' = "handling" /\ UNCHANGED <<updates, handled>>
      /\ forgotten' = from /\ offset' = Len(updates) + 1 /\ batch' = new
  BY <1>2 DEF PollUpdates
<1> HIDE DEF from
<1> QED
  BY <1>1, <1>2, <1>3 DEF PollInv, Settled, UpdateIds

LEMMA DieInv ==
  ASSUME PollInv, Die
  PROVE  PollInv'
  BY DEF PollInv, Settled, UpdateIds, Die

LEMMA RestartInv ==
  ASSUME PollInv, Restart
  PROVE  PollInv'
  BY DEF PollInv, Settled, UpdateIds, Restart

LEMMA BatchInv ==
  ASSUME PollInv, BatchDone
  PROVE  PollInv'
  BY DEF PollInv, Settled, UpdateIds, BatchDone

\* What the handlers and the turns do does not concern the poller.
LEMMA HandlersInv ==
  ASSUME PollInv, UNCHANGED <<updates, forgotten, offset, polling, batch, handled>>
  PROVE  PollInv'
  BY DEF PollInv, Settled, UpdateIds

LEMMA BotNextInv == PollInv /\ [BotNext]_botVars => PollInv'
<1> SUFFICES ASSUME PollInv, [BotNext]_botVars PROVE PollInv'
  OBVIOUS
<1>1. CASE UNCHANGED botVars
  BY <1>1, HandlersInv DEF botVars
<1>2. ASSUME NEW u \in batch,
             \/ Ignore(u) \/ Prepare(u) \/ StopTurn(u) \/ Toggle(u)
             \/ SubmitPrompt(u) \/ StartTurn(u) \/ NoTurn(u) \/ Reply(u)
             \/ \E failed \in BOOLEAN : EndTurn(u, failed)
      PROVE  PollInv'
  BY <1>2, HandlersInv DEF Ignore, Prepare, StopTurn, Toggle, SubmitPrompt, StartTurn, EndTurn,
                           NoTurn, Reply
<1>3. CASE PollFails \/ BotDies \/ BatchFails
  BY <1>3, DieInv DEF PollFails, BotDies, BatchFails
<1> QED
  BY <1>1, <1>2, <1>3, SendsInv, PollsInv, RestartInv, BatchInv DEF BotNext

(***************************************************************************)
(* The server is told to forget an update only after it has been handled,  *)
(* whenever the bot fails, dies or starts again (telegram_bot.go:101).     *)
(***************************************************************************)
THEOREM ForgottenAlwaysHandled == BotSpec => []ForgottenAreHandled
<1>1. PollInv => ForgottenAreHandled
  BY DEF PollInv, Settled, ForgottenAreHandled
<1> QED
  BY <1>1, BotInitInv, BotNextInv, PTL DEF BotSpec

-----------------------------------------------------------------------------
(* Prompts and the turns that they are submitted as.                        *)

TurnStates == {"pending", "running", "ended", "canceled"}
Places == Kinds \cup {"none", "start", "waiting", "running", "reply", "ok", "failed"}

\* A turn of the updates in ids, as the queue has it.
TurnsOf(ids) == [update : ids, state : TurnStates, runner : Nat]

\* The submissions of an update.
Submissions(q, u) == {i \in DOMAIN q : q[i].update = u}

\* This process may still submit the update, in this batch or a later one.
ToSubmit(u) ==
  \/ polling = "poll" /\ u >= forgotten /\ u >= offset
  \/ polling = "handling" /\ u >= offset
  \/ polling = "handling" /\ u \in batch /\ doing[u] \in {"start", "prompt"}
  \/ polling = "down"

TurnsOK ==
  /\ turns \in Seq(TurnsOf(UpdateIds))
  /\ doing \in [1 .. MaxUpdates -> Places]
  /\ Len(updates) <= MaxUpdates
  /\ deaths \in Nat

\* Only a poll that got updates has a batch.
BatchOK == polling # "handling" => batch = {}

\* An update that is still to be submitted has been so by dead processes only.
SubmitInv ==
  /\ TurnsOK
  /\ BatchOK
  /\ \A u \in UpdateIds :
       /\ Times(u) <= 1 + deaths
       /\ ToSubmit(u) => Times(u) <= deaths

LEMMA TimesIs == \A u : Times(u) = Cardinality(Submissions(turns, u))
  BY DEF Times, Submissions

\* The number of an update's turns is a number.
LEMMA TimesCounts ==
  ASSUME NEW S, NEW q \in Seq(S), NEW u
  PROVE  IsFiniteSet(Submissions(q, u)) /\ Cardinality(Submissions(q, u)) \in Nat
<1>1. Submissions(q, u) \subseteq 1 .. Len(q) /\ Len(q) \in Nat
  BY DEF Submissions
<1>2. IsFiniteSet(1 .. Len(q))
  BY <1>1, FS_Interval
<1>3. IsFiniteSet(Submissions(q, u))
  BY <1>1, <1>2, FS_Subset
<1> QED
  BY <1>3, FS_CardinalityType

\* A new turn counts for its update only.
LEMMA OneMoreTurn ==
  ASSUME NEW S, NEW q \in Seq(S), NEW x \in S, NEW u
  PROVE  Cardinality(Submissions(Append(q, x), u)) =
           IF x.update = u THEN Cardinality(Submissions(q, u)) + 1 ELSE Cardinality(Submissions(q, u))
<1> DEFINE n == Len(q) + 1
<1>1. Len(q) \in Nat /\ DOMAIN q = 1 .. Len(q)
  OBVIOUS
<1>2. /\ DOMAIN Append(q, x) = 1 .. n /\ Append(q, x)[n] = x
      /\ \A i \in 1 .. Len(q) : Append(q, x)[i] = q[i]
  BY <1>1
<1>3. n \notin DOMAIN q /\ 1 .. n = DOMAIN q \cup {n}
  BY <1>1
<1>4. Submissions(Append(q, x), u) =
        IF x.update = u THEN Submissions(q, u) \cup {n} ELSE Submissions(q, u)
  <2> DEFINE r == Append(q, x)
  <2> HIDE DEF r, n
  <2>1. DOMAIN r = DOMAIN q \cup {n} /\ n \notin DOMAIN q /\ r[n] = x /\ \A i \in DOMAIN q : r[i] = q[i]
    BY <1>1, <1>2, <1>3 DEF r
  <2>2. Submissions(r, u) = IF x.update = u THEN Submissions(q, u) \cup {n} ELSE Submissions(q, u)
    BY <2>1 DEF Submissions
  <2> QED
    BY <2>2 DEF r
<1>5. n \notin Submissions(q, u)
  BY <1>3 DEF Submissions
<1> QED
  BY <1>4, <1>5, TimesCounts, FS_AddElement

\* The turns of the queue go on; they are still the same.
SameTurns ==
  /\ DOMAIN turns' = DOMAIN turns
  /\ \A i \in DOMAIN turns : turns'[i].update = turns[i].update
  /\ turns' \in Seq(TurnsOf(UpdateIds))

LEMMA SameTimes ==
  ASSUME SameTurns
  PROVE  \A u : Times(u)' = Times(u)
<1>1. \A u : Submissions(turns', u) = Submissions(turns, u)
  BY DEF SameTurns, Submissions
<1> QED
  BY <1>1, TimesIs DEF Times, Submissions

\* A turn is another's to run, or in another state.
TurnGoesOn(x, y) ==
  \E s \in TurnStates, r \in Nat : y = Now(x, s, r)

TurnsGoOn ==
  /\ turns' = [i \in DOMAIN turns |-> turns'[i]]
  /\ \A i \in DOMAIN turns : turns'[i] = turns[i] \/ TurnGoesOn(turns[i], turns'[i])

LEMMA StatesChange ==
  ASSUME TurnsOK, TurnsGoOn
  PROVE  SameTurns
<1> DEFINE T == TurnsOf(UpdateIds)
<1>1. turns \in Seq(T) /\ DOMAIN turns = 1 .. Len(turns) /\ Len(turns) \in Nat
  BY DEF TurnsOK
<1>2. \A x \in T : x.update \in UpdateIds
  BY DEF TurnsOf
<1>3. \A x \in T : \A y : TurnGoesOn(x, y) => y \in T /\ y.update = x.update
  BY <1>2 DEF TurnGoesOn, TurnsOf, Now
<1> HIDE DEF T
<1>4. \A i \in DOMAIN turns : turns[i] \in T
  BY <1>1
<1>5. \A i \in DOMAIN turns : turns'[i] \in T /\ turns'[i].update = turns[i].update
  BY <1>3, <1>4 DEF TurnsGoOn
<1>6. turns' \in [1 .. Len(turns) -> T]
  BY <1>1, <1>5 DEF TurnsGoOn
<1>7. turns' \in Seq(T)
  BY <1>1, <1>6
<1> QED
  BY <1>5, <1>7 DEF SameTurns, TurnsGoOn, T

\* A claim makes one turn run; an end, a stop and a death make none.
LEMMA TurnSteps ==
  ASSUME TurnsOK, NEW u \in Nat,
         StartTurn(u) \/ (\E failed \in BOOLEAN : EndTurn(u, failed)) \/ StopTurn(u) \/ Die
  PROVE  /\ TurnsGoOn
         /\ \/ /\ \A i \in DOMAIN turns : turns[i].state # "running"
               /\ \E k : \A i \in DOMAIN turns : i # k => turns'[i] = turns[i]
            \/ \A i \in DOMAIN turns : turns'[i] = turns[i] \/ turns'[i].state # "running"
<1> DEFINE T == TurnsOf(UpdateIds)
<1>1. \A i \in DOMAIN turns : turns[i] \in T
  <2>1. turns \in Seq(T)
    BY DEF TurnsOK
  <2> HIDE DEF T
  <2> QED
    BY <2>1
<1>2. /\ \A x \in T : x.state \in TurnStates /\ x.runner \in Nat
      /\ \A x, s, n : Now(x, s, n).state = s
  BY DEF TurnsOf, Now
<1>3. /\ 0 \in Nat
      /\ {"running", "ended", "canceled", "pending"} \subseteq TurnStates
  BY DEF TurnStates
<1> HIDE DEF T
<1>4. CASE StartTurn(u)
  <2>1. PICK k : turns' = [turns EXCEPT ![k] = Now(@, "running", u)]
    BY <1>4 DEF StartTurn
  <2>2. \A i \in DOMAIN turns : turns[i].state # "running"
    BY <1>4 DEF StartTurn
  <2>3. /\ turns' = [i \in DOMAIN turns |-> turns'[i]]
        /\ \A i \in DOMAIN turns : i # k => turns'[i] = turns[i]
        /\ k \in DOMAIN turns => turns'[k] = Now(turns[k], "running", u)
    BY <2>1
  <2>4. k \in DOMAIN turns => TurnGoesOn(turns[k], turns'[k])
    BY <1>3, <2>3 DEF TurnGoesOn
  <2> QED
    BY <2>2, <2>3, <2>4 DEF TurnsGoOn
<1>5. CASE \E failed \in BOOLEAN : EndTurn(u, failed)
  <2>1. PICK k \in DOMAIN turns :
          turns' = [turns EXCEPT
                      ![k] = Now(@, IF @.state = "running" THEN "ended" ELSE @.state, 0)]
    BY <1>5 DEF EndTurn
  <2> DEFINE s == IF turns[k].state = "running" THEN "ended" ELSE turns[k].state
  <2>2. /\ turns' = [i \in DOMAIN turns |-> turns'[i]]
        /\ \A i \in DOMAIN turns : i # k => turns'[i] = turns[i]
        /\ turns'[k] = Now(turns[k], s, 0)
    BY <2>1
  <2>3. s \in TurnStates /\ s # "running"
    BY <1>1, <1>2, <1>3
  <2> HIDE DEF s
  <2>4. TurnGoesOn(turns[k], turns'[k]) /\ turns'[k].state # "running"
    BY <1>2, <1>3, <2>2, <2>3 DEF TurnGoesOn
  <2> QED
    BY <2>2, <2>4 DEF TurnsGoOn
<1>6. CASE StopTurn(u)
  <2>1. turns' = [i \in DOMAIN turns |->
                    IF turns[i].state = "running"
                    THEN Now(turns[i], "canceled", turns[i].runner) ELSE turns[i]]
    BY <1>6 DEF StopTurn
  <2>2. ASSUME NEW i \in DOMAIN turns, turns'[i] # turns[i]
        PROVE  TurnGoesOn(turns[i], turns'[i]) /\ turns'[i].state # "running"
    <3>1. turns'[i] = Now(turns[i], "canceled", turns[i].runner)
      BY <2>1, <2>2
    <3> QED
      BY <1>1, <1>2, <1>3, <3>1 DEF TurnGoesOn
  <2>3. turns' = [i \in DOMAIN turns |-> turns'[i]]
    BY <2>1
  <2> QED
    BY <2>2, <2>3 DEF TurnsGoOn
<1>7. CASE Die
  <2> DEFINE s(i) == IF turns[i].state = "running" THEN "pending" ELSE turns[i].state
  <2>1. turns' = [i \in DOMAIN turns |-> Now(turns[i], s(i), 0)]
    BY <1>7 DEF Die
  <2>2. \A i \in DOMAIN turns : s(i) \in TurnStates /\ s(i) # "running"
    BY <1>1, <1>2, <1>3
  <2> HIDE DEF s
  <2>3. /\ turns' = [i \in DOMAIN turns |-> turns'[i]]
        /\ \A i \in DOMAIN turns : turns'[i] = Now(turns[i], s(i), 0)
    BY <2>1
  <2>4. \A i \in DOMAIN turns : TurnGoesOn(turns[i], turns'[i]) /\ turns'[i].state = s(i)
    BY <1>2, <1>3, <2>2, <2>3 DEF TurnGoesOn
  <2> QED
    BY <2>2, <2>3, <2>4 DEF TurnsGoOn
<1> QED
  BY <1>4, <1>5, <1>6, <1>7

-----------------------------------------------------------------------------
LEMMA BotInitSubmits == BotInit => SubmitInv
<1> SUFFICES ASSUME BotInit PROVE SubmitInv
  OBVIOUS
<1>1. TurnsOK
  BY BotAssumption DEF BotInit, TurnsOK, Places
<1> QED
  BY <1>1 DEF BotInit, SubmitInv, BatchOK, UpdateIds

\* Neither the turns nor what is still to be submitted grow.
LEMMA NothingSubmitted ==
  ASSUME PollInv, SubmitInv, SameTurns, UNCHANGED updates,
         doing' \in [1 .. MaxUpdates -> Places], deaths' \in Nat, deaths <= deaths', BatchOK',
         \A u \in UpdateIds : ToSubmit(u)' => ToSubmit(u) \/ deaths < deaths'
  PROVE  SubmitInv'
<1>1. UpdateIds' = UpdateIds /\ deaths \in Nat
  BY DEF UpdateIds, SubmitInv, TurnsOK
<1>2. TurnsOK'
  BY <1>1 DEF SubmitInv, TurnsOK, SameTurns
<1>3. \A u \in UpdateIds : Times(u)' = Times(u) /\ Times(u) \in Nat
  BY SameTimes, TimesCounts, TimesIs DEF SubmitInv, TurnsOK
<1>4. ASSUME NEW u \in UpdateIds
      PROVE  Times(u)' <= 1 + deaths' /\ (ToSubmit(u)' => Times(u)' <= deaths')
  <2>1. Times(u) <= 1 + deaths /\ (ToSubmit(u) => Times(u) <= deaths)
    BY DEF SubmitInv
  <2> QED
    BY <1>1, <1>3, <2>1
<1> QED
  BY <1>1, <1>2, <1>4 DEF SubmitInv

\* The chat sends an update that nobody has seen.
LEMMA SendsSubmits ==
  ASSUME PollInv, SubmitInv, NEW kind \in Kinds, ChatSends(kind)
  PROVE  SubmitInv'
<1>1. /\ updates \in Seq(Kinds) /\ updates' = Append(updates, kind)
      /\ Len(updates) < MaxUpdates
      /\ UNCHANGED <<forgotten, offset, polling, batch, doing, turns, deaths>>
  BY DEF ChatSends, PollInv
<1>2. /\ Len(updates) \in Nat /\ Len(updates') = Len(updates) + 1
      /\ UpdateIds' = UpdateIds \cup {Len(updates) + 1} /\ Len(updates) + 1 \notin UpdateIds
      /\ Len(updates') <= MaxUpdates
  BY <1>1, BotAssumption DEF UpdateIds
<1>3. TurnsOK'
  <2> DEFINE T == TurnsOf(UpdateIds)
             R == TurnsOf(UpdateIds')
  <2>1. turns \in Seq(T) /\ T \subseteq R
    BY <1>2 DEF SubmitInv, TurnsOK, TurnsOf
  <2>2. turns \in Seq(R)
    <3> HIDE DEF T, R
    <3>1. turns \in [1 .. Len(turns) -> R] /\ Len(turns) \in Nat
      BY <2>1
    <3> QED
      BY <3>1
  <2> QED
    BY <1>1, <1>2, <2>2 DEF SubmitInv, TurnsOK
<1>4. \A u : Times(u)' = Times(u) /\ (ToSubmit(u)' <=> ToSubmit(u))
  BY <1>1 DEF Times, ToSubmit
<1>5. Times(Len(updates) + 1) = 0 /\ deaths \in Nat
  <2> DEFINE T == TurnsOf(UpdateIds)
  <2>0. turns \in Seq(T) /\ \A x \in T : x.update \in UpdateIds
    BY DEF SubmitInv, TurnsOK, TurnsOf
  <2>1. Submissions(turns, Len(updates) + 1) = {}
    <3> HIDE DEF T
    <3>1. \A i \in DOMAIN turns : turns[i].update # Len(updates) + 1
      BY <1>2, <2>0
    <3> QED
      BY <3>1 DEF Submissions
  <2> QED
    BY <2>1, TimesIs, FS_EmptySet DEF SubmitInv, TurnsOK
<1>6. \A u \in UpdateIds' : Times(u) <= 1 + deaths /\ (ToSubmit(u) => Times(u) <= deaths)
  BY <1>2, <1>5 DEF SubmitInv
<1> QED
  BY <1>1, <1>3, <1>4, <1>6 DEF SubmitInv, BatchOK

\* A batch has only updates that were still to be submitted.
LEMMA PollsSubmits ==
  ASSUME PollInv, SubmitInv, PollUpdates
  PROVE  SubmitInv'
<1> DEFINE from == Max({forgotten, offset})
           new == {u \in UpdateIds : u >= from}
<1>1. /\ Len(updates) \in Nat /\ forgotten \in Nat /\ offset \in Nat
      /\ from = (IF forgotten >= offset THEN forgotten ELSE offset)
  BY MaxOfTwo DEF PollInv
<1>2. Max(new) = Len(updates)
  <2>1. new # {} /\ new = {u \in 1 .. Len(updates) : u >= from}
    BY DEF PollUpdates, UpdateIds
  <2>2. from \in Nat
    BY <1>1
  <2> HIDE DEF from
  <2> QED
    BY <1>1, <2>1, <2>2, MaxOfRest
<1>3. /\ polling = "poll" /\ polling' = "handling" /\ UNCHANGED <<updates, turns, deaths>>
      /\ offset' = Len(updates) + 1 /\ batch' = new
      /\ doing' = [u \in DOMAIN doing |-> IF u \in new THEN "start" ELSE doing[u]]
  BY <1>2 DEF PollUpdates
<1>4. \A u \in UpdateIds : ToSubmit(u)' => ToSubmit(u)
  <2> SUFFICES ASSUME NEW u \in UpdateIds, ToSubmit(u)' PROVE ToSubmit(u)
    OBVIOUS
  <2>1. u \in new
    BY <1>1, <1>3 DEF ToSubmit, UpdateIds
  <2>2. u \in Nat /\ u >= forgotten /\ u >= offset
    BY <1>1, <2>1 DEF UpdateIds
  <2> QED
    BY <1>3, <2>2 DEF ToSubmit
<1>5. doing' \in [1 .. MaxUpdates -> Places]
  BY <1>3 DEF SubmitInv, TurnsOK, Places
<1>6. SameTurns /\ deaths' \in Nat /\ deaths <= deaths'
  BY <1>3 DEF SubmitInv, TurnsOK, SameTurns, UpdateIds
<1> QED
  BY <1>3, <1>4, <1>5, <1>6, NothingSubmitted DEF BatchOK

\* The next process may submit anything again, but a death is counted.
LEMMA DieSubmits ==
  ASSUME PollInv, SubmitInv, Die
  PROVE  SubmitInv'
<1>1. /\ UNCHANGED updates /\ deaths' = deaths + 1 /\ deaths \in Nat /\ TurnsOK
      /\ doing' = [u \in DOMAIN doing |-> IF u \in batch THEN "none" ELSE doing[u]]
  BY DEF Die, SubmitInv, TurnsOK
<1>2. doing' \in [1 .. MaxUpdates -> Places]
  BY <1>1 DEF TurnsOK, Places
<1>3. SameTurns
  BY <1>1, StatesChange, TurnSteps
<1>4. BatchOK' /\ deaths' \in Nat /\ deaths < deaths'
  BY <1>1 DEF Die, BatchOK
<1> QED
  BY <1>1, <1>2, <1>3, <1>4, NothingSubmitted

LEMMA PollerSubmits ==
  ASSUME PollInv, SubmitInv, Restart \/ BatchDone
  PROVE  SubmitInv'
<1>1. /\ UNCHANGED <<updates, forgotten, doing, turns, deaths>> /\ TurnsOK
      /\ Restart => polling = "down"
      /\ BatchDone => polling = "handling" /\ offset' = offset
      /\ polling' = "poll"
  BY DEF Restart, BatchDone, SubmitInv
<1>2. \A u \in UpdateIds : ToSubmit(u)' => ToSubmit(u)
  BY <1>1 DEF ToSubmit
<1>3. SameTurns /\ deaths' \in Nat /\ deaths <= deaths'
  BY <1>1 DEF TurnsOK, SameTurns
<1>4. doing' \in [1 .. MaxUpdates -> Places]
  BY <1>1 DEF TurnsOK
<1>5. BatchOK'
  BY DEF SubmitInv, BatchOK, Restart, BatchDone
<1> QED
  BY <1>1, <1>2, <1>3, <1>4, <1>5, NothingSubmitted

\* A handler goes on, and the turns too.
LEMMA HandlersSubmit ==
  ASSUME PollInv, SubmitInv,
         \/ UNCHANGED botVars
         \/ \E u \in batch :
              \/ Ignore(u) \/ Prepare(u) \/ StopTurn(u) \/ Toggle(u)
              \/ StartTurn(u) \/ NoTurn(u) \/ Reply(u)
              \/ \E failed \in BOOLEAN : EndTurn(u, failed)
  PROVE  SubmitInv'
<1>1. TurnsOK /\ UNCHANGED <<updates, forgotten, offset, polling, batch, deaths>>
  BY DEF SubmitInv, StartTurn, EndTurn, NoTurn, botVars, Ignore, Prepare, StopTurn, Toggle, Reply
<1>0. batch \subseteq UpdateIds /\ \A u \in batch : u \in Nat
  BY DEF PollInv, SubmitInv, BatchOK, UpdateIds
<1>2. SameTurns
  <2>1. ASSUME NEW u \in batch,
               StartTurn(u) \/ (\E failed \in BOOLEAN : EndTurn(u, failed)) \/ StopTurn(u)
        PROVE  SameTurns
    BY <1>0, <1>1, <2>1, TurnSteps, StatesChange
  <2>2. CASE turns' = turns
    BY <1>1, <2>2 DEF SameTurns, TurnsOK
  <2> QED
    BY <2>1, <2>2 DEF botVars, Ignore, Prepare, Toggle, NoTurn, Reply
<1>3. \/ UNCHANGED doing
      \/ \E u \in batch : \E p \in Places :
           /\ doing' = [doing EXCEPT ![u] = p]
           /\ p \in {"start", "prompt"} => doing[u] \in {"start", "prompt"}
  <2>1. ASSUME NEW u \in batch, Prepare(u)
        PROVE  \E p \in Places : doing' = [doing EXCEPT ![u] = p] /\ doing[u] = "start"
    <3>1. updates[u] \in Kinds
      BY <1>0 DEF PollInv, UpdateIds
    <3> QED
      BY <2>1, <3>1 DEF Prepare, Step, Places, Kinds
  <2>2. ASSUME NEW u \in batch,
               \/ Ignore(u) \/ StopTurn(u) \/ Toggle(u) \/ StartTurn(u) \/ NoTurn(u) \/ Reply(u)
               \/ \E failed \in BOOLEAN : EndTurn(u, failed)
        PROVE  \E p \in {"ok", "reply", "failed", "running", "waiting"} :
                 doing' = [doing EXCEPT ![u] = p]
    BY <2>2 DEF Ignore, StopTurn, Toggle, StartTurn, EndTurn, NoTurn, Reply, Step
  <2> QED
    BY <2>1, <2>2 DEF botVars, Places
<1>4. doing' \in [1 .. MaxUpdates -> Places]
  BY <1>1, <1>3 DEF TurnsOK
<1>5. \A u \in UpdateIds : ToSubmit(u)' => ToSubmit(u)
  <2> SUFFICES ASSUME NEW u \in UpdateIds, ToSubmit(u)' PROVE ToSubmit(u)
    OBVIOUS
  <2>1. doing'[u] \in {"start", "prompt"} => doing[u] \in {"start", "prompt"} \/ u \notin DOMAIN doing
    BY <1>3
  <2>2. u \in DOMAIN doing
    BY <1>1, BotAssumption DEF TurnsOK, UpdateIds, PollInv
  <2> QED
    BY <1>1, <2>1, <2>2 DEF ToSubmit
<1>6. deaths' \in Nat /\ deaths <= deaths'
  BY <1>1 DEF TurnsOK
<1> QED
  BY <1>1, <1>2, <1>4, <1>5, <1>6, NothingSubmitted DEF SubmitInv, BatchOK

\* A handler submits its prompt: after that the update is not to be submitted.
LEMMA PromptSubmits ==
  ASSUME PollInv, SubmitInv, NEW w \in batch, SubmitPrompt(w)
  PROVE  SubmitInv'
<1> DEFINE T == TurnsOf(UpdateIds)
           x == [update |-> w, state |-> "pending", runner |-> 0]
<1>1. /\ doing[w] = "prompt" /\ turns' = Append(turns, x)
      /\ doing' = [doing EXCEPT ![w] = "waiting"]
      /\ UNCHANGED <<updates, forgotten, offset, polling, batch, deaths>>
      /\ turns \in Seq(T) /\ TurnsOK /\ deaths \in Nat
  BY DEF SubmitPrompt, Step, SubmitInv, TurnsOK
<1>2. polling = "handling" /\ w \in UpdateIds /\ w < offset
  BY DEF PollInv, SubmitInv, BatchOK
<1>3. x \in T /\ x.update = w
  BY <1>2 DEF TurnStates, TurnsOf
<1> HIDE DEF x
<1>4. TurnsOK'
  <2>1. turns' \in Seq(T)
    BY <1>1, <1>3
  <2>2. doing' \in [1 .. MaxUpdates -> Places]
    BY <1>1 DEF TurnsOK, Places
  <2> QED
    BY <1>1, <2>1, <2>2 DEF TurnsOK, UpdateIds
<1>5. \A u : /\ Times(u) \in Nat
             /\ Times(u)' = IF w = u THEN Times(u) + 1 ELSE Times(u)
  <2> HIDE DEF T
  <2>1. \A u : Cardinality(Submissions(Append(turns, x), u)) =
                 IF w = u THEN Cardinality(Submissions(turns, u)) + 1 ELSE Cardinality(Submissions(turns, u))
    BY <1>1, <1>3, OneMoreTurn
  <2>2. \A u : Times(u)' = Cardinality(Submissions(Append(turns, x), u))
    BY <1>1 DEF Times, Submissions
  <2>3. \A u : Cardinality(Submissions(turns, u)) \in Nat
    BY <1>1, TimesCounts
  <2> QED
    BY <2>1, <2>2, <2>3, TimesIs
<1>6. ASSUME NEW u \in UpdateIds
      PROVE  Times(u)' <= 1 + deaths /\ (ToSubmit(u)' => Times(u)' <= deaths)
  <2>1. Times(u) <= 1 + deaths /\ (ToSubmit(u) => Times(u) <= deaths)
    BY DEF SubmitInv
  <2>2. CASE u = w
    <3>1. ToSubmit(u)
      BY <1>1, <1>2, <2>2 DEF ToSubmit
    <3>2. ~ToSubmit(u)'
      <4>1. u \in DOMAIN doing
        BY <1>1, BotAssumption DEF TurnsOK, UpdateIds, PollInv
      <4>2. doing'[u] = "waiting" /\ u \in Nat /\ offset \in Nat /\ ~(u >= offset)
        BY <1>1, <1>2, <2>2, <4>1 DEF UpdateIds, PollInv
      <4> QED
        BY <1>1, <1>2, <4>2 DEF ToSubmit
    <3> QED
      BY <1>1, <1>5, <2>1, <3>1, <3>2
  <2>3. CASE u # w
    <3>1. doing'[u] = doing[u] \/ u \notin DOMAIN doing
      BY <1>1, <2>3
    <3>2. u \in DOMAIN doing
      BY <1>1, BotAssumption DEF TurnsOK, UpdateIds, PollInv
    <3>3. ToSubmit(u)' => ToSubmit(u)
      BY <1>1, <3>1, <3>2 DEF ToSubmit
    <3> QED
      BY <1>5, <2>1, <2>3, <3>3
  <2> QED
    BY <2>2, <2>3
<1>7. UNCHANGED deaths /\ UpdateIds' = UpdateIds
  BY <1>1 DEF UpdateIds
<1> QED
  BY <1>1, <1>4, <1>6, <1>7 DEF SubmitInv, BatchOK

(***************************************************************************)
(* A prompt is submitted again only by a process that came after the one   *)
(* that submitted it died: for every order of failures, restarts and       *)
(* handlers (telegram_bot.go:101, 120, 214).                               *)
(***************************************************************************)
THEOREM ResubmittedOnlyAfterDeath == BotSpec => []ResubmittedAfterDeath
<1>1. PollInv /\ SubmitInv /\ [BotNext]_botVars => SubmitInv'
  BY SendsSubmits, PollsSubmits, DieSubmits, PollerSubmits, HandlersSubmit, PromptSubmits
     DEF BotNext, PollFails, BotDies, BatchFails
<1>2. SubmitInv => ResubmittedAfterDeath
  BY DEF SubmitInv, ResubmittedAfterDeath
<1> QED
  BY <1>1, <1>2, BotInitInv, BotInitSubmits, BotNextInv, PTL DEF BotSpec

-----------------------------------------------------------------------------
(* The RPC server: prompts.                                                 *)

Final == {"completed", "canceled"}
Live == {"polls", "succeeded", "failed"}
RpcPlaces == {"off", "read", "drain", "closed", "accept", "start", "steer", "abort",
              "activate", "relink", "modes"}
Prompts == [session : Nat, client : Client, runner : Nat,
            state : {"pending", "running", "completed", "canceled"},
            goroutine : {"none", "polls", "succeeded", "failed", "over"}, steered : BOOLEAN]
Frames == [what : {"accepted", "delta", "done", "error"}, turn : Nat]

RpcTyped ==
  /\ handler \in [Client -> RpcPlaces]
  /\ arg \in [Client -> Nat]
  /\ gone \subseteq Client
  /\ written \in [Client -> Seq(Frames)]
  /\ link \in Nat /\ sessions \in Nat
  /\ modes \in Pair /\ modesRead \in [Client -> Pair]
  /\ prompts \in Seq(Prompts)

\* Among the lines s of a client there is the end of prompt t.
Ended(s, t) == \E i \in DOMAIN s : s[i].turn = t /\ s[i].what \in EndLines

\* Lines are about prompts of the connection that gets them.
LinesOwn ==
  \A c \in Client : \A i \in DOMAIN written[c] :
    LET t == written[c][i].turn
    IN t \in DOMAIN prompts /\ prompts[t].client = c

\* A command at a prompt.  One that is not started has no goroutine.
Handled ==
  \A c \in Client :
    /\ handler[c] \in {"accept", "start", "steer", "abort"} => arg[c] \in DOMAIN prompts
    /\ handler[c] \in {"accept", "start"} =>
         /\ prompts[arg[c]].client = c
         /\ prompts[arg[c]].goroutine = "none"
         /\ ~Ended(written[c], arg[c])
    /\ handler[c] = "accept" =>
         \A i \in DOMAIN written[c] : written[c][i].turn # arg[c]

\* A goroutine that is not over has not ended its prompt, and succeeds with
\* its own turn only.
GoroutineRuns ==
  \A t \in DOMAIN prompts :
    /\ prompts[t].goroutine \in Live => ~Ended(written[prompts[t].client], t)
    /\ prompts[t].goroutine = "succeeded" => prompts[t].state \in Final

\* A turn is run by a goroutine that polls, and which runs no other.
RunnerPolls ==
  \A u \in DOMAIN prompts : prompts[u].runner # 0 =>
    /\ prompts[u].runner \in DOMAIN prompts /\ prompts[prompts[u].runner].goroutine = "polls"
    /\ \A v \in DOMAIN prompts : prompts[v].runner = prompts[u].runner => v = u

\* The parts of StreamFramed: the order of the lines about a prompt ...
LinesInOrder ==
  \A c \in Client : \A i, j \in DOMAIN written[c] :
    i < j /\ written[c][i].turn = written[c][j].turn =>
      written[c][i].what \notin EndLines /\ written[c][j].what # "accepted"

\* ... what "done" stands for ...
DoneRun ==
  \A c \in Client : \A i \in DOMAIN written[c] :
    written[c][i].what = "done" => prompts[written[c][i].turn].state \in Final

\* ... and who follows up an acceptance.
Followed(c, t) ==
  \/ prompts[t].goroutine \in Live
  \/ handler[c] = "start" /\ arg[c] = t
  \/ c \in gone
  \/ Ended(written[c], t)

AcceptedFollowed ==
  \A c \in Client : \A i \in DOMAIN written[c] :
    written[c][i].what = "accepted" => Followed(c, written[c][i].turn)

RpcInv ==
  /\ RpcTyped /\ LinesOwn /\ Handled /\ GoroutineRuns /\ RunnerPolls
  /\ LinesInOrder /\ DoneRun /\ AcceptedFollowed

LEMMA FramedParts == LinesInOrder /\ DoneRun /\ AcceptedFollowed => StreamFramed
  BY DEF LinesInOrder, DoneRun, AcceptedFollowed, Followed, Ended, StreamFramed, Final, Live

-----------------------------------------------------------------------------
\* Nothing is connected, nothing is submitted.
LEMMA InitRpc == RpcInit => RpcInv
<1> SUFFICES ASSUME RpcInit PROVE RpcInv
  OBVIOUS
<1>1. RpcTyped
  BY DEF RpcInit, RpcTyped, RpcPlaces, OneAtATime, Pair
<1>2. LinesOwn /\ LinesInOrder /\ DoneRun /\ AcceptedFollowed
  BY DEF RpcInit, LinesOwn, LinesInOrder, DoneRun, AcceptedFollowed
<1>3. Handled /\ GoroutineRuns /\ RunnerPolls
  BY DEF RpcInit, Handled, GoroutineRuns, RunnerPolls
<1> QED
  BY <1>1, <1>2, <1>3 DEF RpcInv

\* What RpcTyped says of the handlers.
HandlersTyped ==
  /\ handler \in [Client -> RpcPlaces]
  /\ arg \in [Client -> Nat]

\* A connection goes to a place with a number.
LEMMA AtTyped ==
  ASSUME RpcTyped, NEW c \in Client, NEW place \in RpcPlaces, NEW n \in Nat, At(c, place, n)
  PROVE  HandlersTyped'
  BY DEF At, RpcTyped, HandlersTyped

\* The shapes over what a connection does about no prompt.
LEMMA TypedConnections ==
  ASSUME RpcTyped, NEW c \in Client,
         \/ Connect(c) \/ HangUp(c) \/ EndOfInput(c) \/ Drained(c)
         \/ FindActive(c, "steer") \/ FindActive(c, "abort")
         \/ NewSession(c) \/ SwitchSession(c) \/ ActivateSession(c)
  PROVE  RpcTyped'
<1>1. CASE Connect(c)
  BY <1>1 DEF Connect, At, RpcTyped, RpcPlaces, rpcLink, rpcModes
<1>2. CASE HangUp(c)
  BY <1>2 DEF HangUp, RpcTyped, RpcPlaces, rpcLink, rpcModes, rpcUi
<1>3. CASE EndOfInput(c)
  BY <1>3 DEF EndOfInput, At, RpcTyped, RpcPlaces, rpcLink, rpcModes, rpcUi
<1>4. CASE Drained(c)
  BY <1>4 DEF Drained, At, RpcTyped, RpcPlaces, rpcLink, rpcModes, rpcUi
<1>5. CASE FindActive(c, "steer") \/ FindActive(c, "abort")
  <2>1. PICK place \in RpcPlaces, t \in DOMAIN prompts : At(c, place, t)
    BY <1>5 DEF FindActive, RpcPlaces
  <2>2. t \in Nat
    BY DEF RpcTyped
  <2>3. HandlersTyped'
    BY <2>1, <2>2, AtTyped
  <2> QED
    BY <1>5, <2>3 DEF FindActive, HandlersTyped, RpcTyped, rpcLink, rpcModes, rpcUi
<1>6. CASE NewSession(c)
  BY <1>6 DEF NewSession, Ready, At, RpcTyped, RpcPlaces, rpcLink, rpcModes, rpcUi
<1>7. CASE SwitchSession(c)
  <2>1. PICK s \in 0 .. sessions : At(c, "activate", s)
    BY <1>7 DEF SwitchSession
  <2>2. s \in Nat
    BY <2>1 DEF RpcTyped
  <2> QED
    BY <1>7, <2>1, <2>2 DEF SwitchSession, Ready, At, RpcTyped, RpcPlaces, rpcLink, rpcModes, rpcUi
<1>8. CASE ActivateSession(c)
  <2>1. PICK place \in {"relink", "read"}, n \in Nat : At(c, place, n)
    BY <1>8 DEF ActivateSession, RpcTyped
  <2>2. HandlersTyped'
    BY <2>1, AtTyped DEF RpcPlaces
  <2>3. link' \in Nat
    BY <1>8 DEF ActivateSession, RpcTyped
  <2> QED
    BY <1>8, <2>2, <2>3 DEF ActivateSession, HandlersTyped, RpcTyped, rpcModes, rpcUi
<1> QED
  BY <1>1, <1>2, <1>3, <1>4, <1>5, <1>6, <1>7, <1>8

\* The shapes over a change of mode.
LEMMA TypedModes ==
  ASSUME RpcTyped, NEW c \in Client, SetMode(c) \/ SetQueueModes(c)
  PROVE  RpcTyped'
<1>1. CASE SetMode(c)
  <2>1. PICK m \in BOOLEAN, f \in {"steering", "followUp"} : modes' = [modes EXCEPT ![f] = m]
    BY <1>1 DEF SetMode
  <2>2. modes' \in Pair
    BY <2>1 DEF RpcTyped, Pair
  <2>3. HandlersTyped'
    BY <1>1, AtTyped DEF SetMode, RpcPlaces
  <2> QED
    BY <1>1, <2>2, <2>3 DEF SetMode, HandlersTyped, RpcTyped, rpcLink, rpcUi
<1>2. CASE SetQueueModes(c)
  BY <1>2 DEF SetQueueModes, At, RpcTyped, RpcPlaces, rpcLink, rpcUi
<1> QED
  BY <1>1, <1>2

\* The shapes over what a connection does about a prompt.
LEMMA TypedPrompts ==
  ASSUME RpcTyped, Handled, NEW c \in Client,
         \/ Submit(c) \/ Accept(c) \/ Start(c) \/ SteerActive(c) \/ AbortActive(c)
  PROVE  RpcTyped'
<1>0. arg[c] \in DOMAIN prompts => prompts[arg[c]] \in Prompts
  BY DEF RpcTyped
<1>1. CASE Submit(c)
  <2>1. [session |-> link, client |-> c, state |-> "pending",
         runner |-> 0, goroutine |-> "none", steered |-> FALSE] \in Prompts
    BY DEF RpcTyped, Prompts
  <2>2. prompts' \in Seq(Prompts)
    BY <1>1, <2>1 DEF Submit, RpcTyped
  <2>3. Len(prompts) + 1 \in Nat
    BY DEF RpcTyped
  <2> QED
    BY <1>1, <2>2, <2>3 DEF Submit, Ready, At, RpcTyped, RpcPlaces, rpcLink, rpcModes, rpcUi
<1>2. CASE Accept(c)
  <2>1. arg[c] \in Nat
    BY <1>2 DEF Accept, RpcTyped
  <2>2. written' \in [Client -> Seq(Frames)]
    <3>1. [what |-> "accepted", turn |-> arg[c]] \in Frames
      BY <2>1 DEF Frames
    <3> QED
      BY <1>2, <3>1 DEF Accept, Send, RpcTyped
  <2>3. PICK place \in {"drain", "start"}, n \in Nat : At(c, place, n)
    BY <1>2, <2>1 DEF Accept
  <2>4. HandlersTyped'
    BY <2>3, AtTyped DEF RpcPlaces
  <2> QED
    BY <1>2, <2>2, <2>4 DEF Accept, HandlersTyped, RpcTyped, rpcLink, rpcModes, rpcUi
<1>3. CASE Start(c)
  <2>1. arg[c] \in DOMAIN prompts
    BY <1>3 DEF Start, Handled
  <2>2. [prompts[arg[c]] EXCEPT !.goroutine = "polls"] \in Prompts
    BY <1>0, <2>1 DEF Prompts
  <2>3. prompts' \in Seq(Prompts)
    BY <1>3, <2>1, <2>2 DEF Start, RpcTyped
  <2> QED
    BY <1>3, <2>3 DEF Start, At, RpcTyped, RpcPlaces, rpcLink, rpcModes, rpcUi
<1>4. CASE SteerActive(c)
  <2>1. arg[c] \in DOMAIN prompts
    BY <1>4 DEF SteerActive, Handled
  <2>2. [prompts[arg[c]] EXCEPT !.steered = TRUE] \in Prompts
    BY <1>0, <2>1 DEF Prompts
  <2>3. prompts' \in Seq(Prompts)
    BY <1>4, <2>1, <2>2 DEF SteerActive, RpcTyped
  <2> QED
    BY <1>4, <2>3 DEF SteerActive, At, RpcTyped, RpcPlaces, rpcLink, rpcModes, rpcUi
<1>5. CASE AbortActive(c)
  <2>1. arg[c] \in DOMAIN prompts
    BY <1>5 DEF AbortActive, Handled
  <2>2. [prompts[arg[c]] EXCEPT !.state = "canceled"] \in Prompts
    BY <1>0, <2>1 DEF Prompts
  <2>3. prompts' \in Seq(Prompts)
    BY <1>5, <2>1, <2>2 DEF AbortActive, RpcTyped
  <2> QED
    BY <1>5, <2>3 DEF AbortActive, At, RpcTyped, RpcPlaces, rpcLink, rpcModes, rpcUi
<1> QED
  BY <1>1, <1>2, <1>3, <1>4, <1>5

\* What the end of a turn does to it, and to the goroutine that has run it.
LEMMA TurnEndsDoes ==
  ASSUME RpcTyped, RunnerPolls, NEW u \in DOMAIN prompts, NEW failed \in BOOLEAN, TurnEnds(u, failed),
         NEW t, t = prompts[u].runner
  PROVE  /\ prompts' \in Seq(Prompts) /\ DOMAIN prompts' = DOMAIN prompts
         /\ t \in DOMAIN prompts /\ prompts[t].goroutine = "polls"
         /\ prompts'[t].goroutine \in {"polls", "failed", "succeeded"}
         /\ prompts'[t].goroutine = "succeeded" => u = t
         /\ prompts'[u].runner = 0 /\ prompts'[u].state \in Final
         /\ \A v \in DOMAIN prompts :
              /\ prompts'[v].client = prompts[v].client
              /\ v # u => prompts'[v].runner = prompts[v].runner /\ prompts'[v].state = prompts[v].state
              /\ v # t => prompts'[v].goroutine = prompts[v].goroutine
<1> DEFINE x == IF prompts[u].state = "canceled" THEN "canceled" ELSE "completed"
           g == IF failed THEN "failed" ELSE IF u = t THEN "succeeded" ELSE "polls"
           p == prompts[u]
           q == prompts[t]
<1>1. /\ t \in DOMAIN prompts /\ prompts[t].goroutine = "polls"
      /\ p \in Prompts /\ q \in Prompts
  BY DEF TurnEnds, RunnerPolls, RpcTyped
<1>2. x \in Final /\ x \in {"completed", "canceled"} /\ g \in {"polls", "failed", "succeeded"}
  BY DEF Final
<1>3. g = "succeeded" => u = t
  OBVIOUS
<1>4. CASE u = t
  <2> DEFINE z == [p EXCEPT !.runner = 0, !.state = x, !.goroutine = g]
  <2>1. prompts' = [prompts EXCEPT ![u] = z]
    BY <1>1, <1>4 DEF TurnEnds, Prompts
  <2>2. /\ z \in Prompts /\ z.runner = 0 /\ z.state = x /\ z.goroutine = g /\ z.client = p.client
    <3> HIDE DEF x, g, p
    <3> QED
      BY <1>1, <1>2 DEF Prompts
  <2> HIDE DEF z, x, g
  <2>3. /\ DOMAIN prompts' = DOMAIN prompts /\ prompts' \in Seq(Prompts) /\ prompts'[u] = z
        /\ \A v \in DOMAIN prompts : v # u => prompts'[v] = prompts[v]
    BY <2>1, <2>2 DEF RpcTyped
  <2> QED
    BY <1>1, <1>2, <1>4, <2>2, <2>3
<1>5. CASE u # t
  <2> DEFINE z == [p EXCEPT !.runner = 0, !.state = x]
             y == [q EXCEPT !.goroutine = g]
  <2>1. prompts' = [prompts EXCEPT ![u] = z, ![t] = y]
    BY <1>1, <1>5 DEF TurnEnds, Prompts
  <2>2. /\ z \in Prompts /\ z.runner = 0 /\ z.state = x
        /\ z.client = p.client /\ z.goroutine = p.goroutine
    <3> HIDE DEF x, g, p
    <3> QED
      BY <1>1, <1>2 DEF Prompts
  <2>3. /\ y \in Prompts /\ y.runner = q.runner /\ y.state = q.state
        /\ y.client = q.client /\ y.goroutine = g
    <3> HIDE DEF x, g, q
    <3> QED
      BY <1>1, <1>2 DEF Prompts
  <2> HIDE DEF z, y, x, g
  <2>4. /\ DOMAIN prompts' = DOMAIN prompts /\ prompts' \in Seq(Prompts)
        /\ prompts'[u] = z /\ prompts'[t] = y
        /\ \A v \in DOMAIN prompts : v # u /\ v # t => prompts'[v] = prompts[v]
    BY <1>1, <1>5, <2>1, <2>2, <2>3 DEF RpcTyped
  <2> QED
    BY <1>1, <1>2, <1>3, <1>5, <2>2, <2>3, <2>4
<1> QED
  BY <1>4, <1>5

\* The shapes over what the goroutine of a prompt does.
LEMMA TypedTurns ==
  ASSUME RpcTyped, RunnerPolls, NEW t \in DOMAIN prompts,
         \/ ClaimOldest(t) \/ ClaimFails(t) \/ Delta(t) \/ RunPromptEnds(t)
         \/ \E failed \in BOOLEAN : TurnEnds(t, failed)
  PROVE  RpcTyped'
<1>0. /\ t \in Nat
      /\ \A u \in DOMAIN prompts : prompts[u] \in Prompts /\ prompts[u].client \in Client
  <2>1. t \in Nat /\ \A u \in DOMAIN prompts : prompts[u] \in Prompts
    BY DEF RpcTyped
  <2> QED
    BY <2>1 DEF Prompts
<1>1. CASE ClaimOldest(t)
  <2>1. PICK u \in DOMAIN prompts :
          prompts' = [prompts EXCEPT ![u] = [@ EXCEPT !.state = "running", !.runner = t]]
    BY <1>1 DEF ClaimOldest
  <2>2. [prompts[u] EXCEPT !.state = "running", !.runner = t] \in Prompts
    BY <1>0 DEF Prompts
  <2>3. prompts' \in Seq(Prompts)
    BY <2>1, <2>2 DEF RpcTyped
  <2> QED
    BY <1>1, <2>3 DEF ClaimOldest, RpcTyped, rpcLink, rpcModes, rpcUi
<1>2. CASE Delta(t)
  <2>1. [what |-> "delta", turn |-> t] \in Frames
    BY <1>0 DEF Frames
  <2>2. written' \in [Client -> Seq(Frames)]
    BY <1>0, <1>2, <2>1 DEF Delta, Send, RpcTyped
  <2> QED
    BY <1>2, <2>2 DEF Delta, RpcTyped, rpcLink, rpcModes, rpcUi
<1>3. CASE \E failed \in BOOLEAN : TurnEnds(t, failed)
  <2>1. PICK failed \in BOOLEAN : TurnEnds(t, failed)
    BY <1>3
  <2>2. prompts' \in Seq(Prompts)
    BY <2>1, TurnEndsDoes
  <2> QED
    BY <2>1, <2>2 DEF TurnEnds, RpcTyped, rpcLink, rpcModes, rpcUi
<1>4. CASE RunPromptEnds(t)
  <2>1. PICK w \in EndLines : Send(prompts[t].client, w, t)
    BY <1>4 DEF RunPromptEnds, EndLines
  <2>2. [what |-> w, turn |-> t] \in Frames
    BY <1>0 DEF Frames, EndLines
  <2>3. written' \in [Client -> Seq(Frames)]
    BY <1>0, <2>1, <2>2 DEF Send, RpcTyped
  <2>4. [prompts[t] EXCEPT !.goroutine = "over"] \in Prompts
    BY <1>0 DEF Prompts
  <2>5. prompts' \in Seq(Prompts)
    BY <1>4, <2>4 DEF RunPromptEnds, RpcTyped
  <2> QED
    BY <1>4, <2>3, <2>5 DEF RunPromptEnds, RpcTyped, rpcLink, rpcModes, rpcUi
<1>5. CASE ClaimFails(t)
  <2>1. [prompts[t] EXCEPT !.goroutine = "failed"] \in Prompts
    BY <1>0 DEF Prompts
  <2>2. prompts' \in Seq(Prompts)
    BY <1>5, <2>1 DEF ClaimFails, RpcTyped
  <2> QED
    BY <1>5, <2>2 DEF ClaimFails, RpcTyped, rpcLink, rpcModes, rpcUi
<1> QED
  BY <1>1, <1>2, <1>3, <1>4, <1>5

-----------------------------------------------------------------------------
\* A step that writes nothing and starts no goroutine: it may go on with a
\* command that is not a prompt, hang up, or go on with a turn and its runner.
LEMMA NoFrame ==
  ASSUME RpcInv, RpcTyped', written' = written, gone \subseteq gone', RunnerPolls',
         DOMAIN prompts' = DOMAIN prompts,
         \A t \in DOMAIN prompts :
           /\ prompts'[t].client = prompts[t].client
           /\ \/ prompts'[t].goroutine = prompts[t].goroutine
              \/ /\ prompts[t].goroutine = "polls"
                 /\ prompts'[t].goroutine \in {"polls", "failed", "succeeded"}
                 /\ prompts'[t].goroutine = "succeeded" => prompts'[t].state \in Final
           /\ prompts[t].state \in Final => prompts'[t].state \in Final,
         \A d \in Client :
           \/ handler'[d] = handler[d] /\ arg'[d] = arg[d]
           \/ /\ handler[d] # "start" /\ handler'[d] \notin {"accept", "start"}
              /\ handler'[d] \in {"steer", "abort"} => arg'[d] \in DOMAIN prompts
  PROVE  RpcInv'
<1>1. LinesOwn'
  <2> SUFFICES ASSUME NEW c \in Client, NEW i \in DOMAIN written[c]
               PROVE  /\ written[c][i].turn \in DOMAIN prompts
                      /\ prompts'[written[c][i].turn].client = c
    BY DEF LinesOwn
  <2> QED
    BY DEF RpcInv, LinesOwn
<1>2. Handled'
  <2> SUFFICES ASSUME NEW c \in Client
               PROVE  /\ handler'[c] \in {"accept", "start", "steer", "abort"} => arg'[c] \in DOMAIN prompts
                      /\ handler'[c] \in {"accept", "start"} =>
                           /\ prompts'[arg'[c]].client = c
                           /\ prompts'[arg'[c]].goroutine = "none"
                           /\ ~Ended(written[c], arg'[c])
                      /\ handler'[c] = "accept" =>
                           \A i \in DOMAIN written[c] : written[c][i].turn # arg'[c]
    BY DEF Handled, Ended
  <2> QED
    BY DEF RpcInv, Handled
<1>3. GoroutineRuns'
  <2> SUFFICES ASSUME NEW t \in DOMAIN prompts
               PROVE  /\ prompts'[t].goroutine \in Live => ~Ended(written[prompts'[t].client], t)
                      /\ prompts'[t].goroutine = "succeeded" => prompts'[t].state \in Final
    BY DEF GoroutineRuns, Ended
  <2> QED
    BY DEF RpcInv, GoroutineRuns, Live
<1>4. LinesInOrder'
  BY DEF RpcInv, LinesInOrder
<1>5. DoneRun'
  <2> SUFFICES ASSUME NEW c \in Client, NEW i \in DOMAIN written[c], written[c][i].what = "done"
               PROVE  prompts'[written[c][i].turn].state \in Final
    BY DEF DoneRun
  <2> QED
    BY DEF RpcInv, LinesOwn, DoneRun
<1>6. AcceptedFollowed'
  <2> SUFFICES ASSUME NEW c \in Client, NEW i \in DOMAIN written[c], written[c][i].what = "accepted"
               PROVE  Followed(c, written[c][i].turn)'
    BY DEF AcceptedFollowed
  <2> DEFINE t == written[c][i].turn
  <2>1. t \in DOMAIN prompts /\ Followed(c, t)
    BY DEF RpcInv, LinesOwn, AcceptedFollowed
  <2> HIDE DEF t
  <2>2. \/ prompts'[t].goroutine \in Live
        \/ handler'[c] = "start" /\ arg'[c] = t
        \/ c \in gone'
        \/ Ended(written[c], t)
    BY <2>1 DEF Followed, Live
  <2> QED
    BY <2>2 DEF Followed, Ended, t
<1> QED
  BY <1>1, <1>2, <1>3, <1>4, <1>5, <1>6 DEF RpcInv

\* What a Send adds: nothing when the client has hung up, else one line behind
\* the others of the client.
LEMMA Sent ==
  ASSUME RpcTyped, NEW c \in Client, NEW w, NEW t \in Nat, Send(c, w, t)
  PROVE  /\ \A d \in Client : \A i \in DOMAIN written[d] :
              i \in DOMAIN written'[d] /\ written'[d][i] = written[d][i]
         /\ \A d \in Client : \A i \in DOMAIN written'[d] : i \notin DOMAIN written[d] =>
              /\ d = c /\ c \notin gone
              /\ written'[d][i] = [what |-> w, turn |-> t]
              /\ \A j \in DOMAIN written'[d] : j # i => j \in DOMAIN written[d] /\ j < i
         /\ \A d \in Client : \A i \in DOMAIN written'[d] : i \in Nat
         /\ c \notin gone => \E i \in DOMAIN written'[c] : written'[c][i] = [what |-> w, turn |-> t]
<1>1. \A d \in Client : written[d] \in Seq(Frames)
  BY DEF RpcTyped
<1>2. CASE c \in gone
  BY <1>1, <1>2 DEF Send
<1>3. CASE c \notin gone
  <2>1. /\ \A d \in Client : d # c => written'[d] = written[d]
        /\ written'[c] = Append(written[c], [what |-> w, turn |-> t])
    BY <1>3 DEF Send, RpcTyped
  <2>2. /\ DOMAIN written[c] = 1 .. Len(written[c]) /\ Len(written[c]) \in Nat
        /\ DOMAIN written'[c] = 1 .. Len(written[c]) + 1
        /\ \A i \in 1 .. Len(written[c]) : written'[c][i] = written[c][i]
        /\ written'[c][Len(written[c]) + 1] = [what |-> w, turn |-> t]
    BY <1>1, <2>1
  <2>3. \A d \in Client : \A i \in DOMAIN written[d] : i \in Nat
    BY <1>1
  <2>4. \A d \in Client : d # c => DOMAIN written'[d] = DOMAIN written[d]
    BY <2>1
  <2>5. \A i \in DOMAIN written'[c] : i \in Nat /\ (i \notin DOMAIN written[c] => i = Len(written[c]) + 1)
    BY <2>2
  <2>6. \A d \in Client : \A i \in DOMAIN written[d] :
          i \in DOMAIN written'[d] /\ written'[d][i] = written[d][i]
    <3>1. \A i \in DOMAIN written[c] : i \in DOMAIN written'[c] /\ written'[c][i] = written[c][i]
      BY <2>2
    <3>2. \A d \in Client : d # c => \A i \in DOMAIN written[d] :
            i \in DOMAIN written'[d] /\ written'[d][i] = written[d][i]
      BY <2>1
    <3> QED
      BY <3>1, <3>2
  <2>7. \A d \in Client : \A i \in DOMAIN written'[d] : i \notin DOMAIN written[d] =>
          /\ d = c /\ written'[d][i] = [what |-> w, turn |-> t]
          /\ \A j \in DOMAIN written'[d] : j # i => j \in DOMAIN written[d] /\ j < i
    <3> SUFFICES ASSUME NEW i \in DOMAIN written'[c], i \notin DOMAIN written[c]
                 PROVE  /\ written'[c][i] = [what |-> w, turn |-> t]
                        /\ \A j \in DOMAIN written'[c] : j # i => j \in DOMAIN written[c] /\ j < i
      BY <2>4
    <3>1. i = Len(written[c]) + 1
      BY <2>5
    <3>2. \A j \in DOMAIN written'[c] : j # i => j \in DOMAIN written[c] /\ j < i
      BY <2>2, <3>1
    <3> QED
      BY <2>2, <3>1, <3>2
  <2>8. \A d \in Client : \A i \in DOMAIN written'[d] : i \in Nat
    BY <2>3, <2>4, <2>5
  <2> QED
    BY <1>3, <2>2, <2>6, <2>7, <2>8
<1> QED
  BY <1>2, <1>3

\* The frames of a client after one line for a prompt of its own, which is the
\* first of that prompt when it is an acceptance, and not behind its end.
LEMMA SentFramed ==
  ASSUME RpcInv, NEW c \in Client, NEW w, NEW t \in Nat, Send(c, w, t),
         ~Ended(written[c], t),
         w = "accepted" => \A i \in DOMAIN written[c] : written[c][i].turn # t
  PROVE  LinesInOrder'
<1> SUFFICES ASSUME NEW d \in Client, NEW i \in DOMAIN written'[d], NEW j \in DOMAIN written'[d],
                    i < j, written'[d][i].turn = written'[d][j].turn
             PROVE  written'[d][i].what \notin EndLines /\ written'[d][j].what # "accepted"
  BY DEF LinesInOrder
<1>1. /\ \A k \in DOMAIN written[d] : written'[d][k] = written[d][k] /\ written[d][k] \in Frames
      /\ \A k \in DOMAIN written'[d] : k \in Nat
      /\ \A k \in DOMAIN written'[d] : k \notin DOMAIN written[d] =>
           /\ d = c /\ written'[d][k] = [what |-> w, turn |-> t]
           /\ \A l \in DOMAIN written'[d] : l # k => l \in DOMAIN written[d] /\ l < k
  BY Sent DEF RpcInv, RpcTyped
<1>2. CASE j \in DOMAIN written[d]
  <2>1. i \in DOMAIN written[d]
    BY <1>1, <1>2
  <2>2. written'[d][i] = written[d][i] /\ written'[d][j] = written[d][j]
    BY <1>1, <1>2, <2>1
  <2> QED
    BY <1>2, <2>1, <2>2 DEF RpcInv, LinesInOrder
<1>3. CASE j \notin DOMAIN written[d]
  <2>1. i \in DOMAIN written[c] /\ d = c /\ written'[d][j] = [what |-> w, turn |-> t]
    BY <1>1, <1>3
  <2>2. written[c][i].turn = t /\ written[c][i] \in Frames
    BY <1>1, <2>1
  <2>3. written[c][i].what \notin EndLines
    BY <2>1, <2>2 DEF Ended
  <2> QED
    BY <1>1, <2>1, <2>2, <2>3
<1> QED
  BY <1>2, <1>3
\* What one more line about a prompt leaves as it is, and what it adds.
LEMMA LineAdded ==
  ASSUME RpcInv, NEW t \in DOMAIN prompts, NEW c, c = prompts[t].client,
         NEW w, Send(c, w, t), ~Ended(written[c], t),
         w = "accepted" => \A i \in DOMAIN written[c] : written[c][i].turn # t,
         w = "done" => prompts[t].state \in Final,
         DOMAIN prompts' = DOMAIN prompts,
         \A u \in DOMAIN prompts :
           prompts'[u].client = prompts[u].client /\ prompts'[u].state = prompts[u].state
  PROVE  /\ LinesOwn' /\ LinesInOrder' /\ DoneRun'
         /\ \A d \in Client : \A i \in DOMAIN written[d] :
              i \in DOMAIN written'[d] /\ written'[d][i] = written[d][i]
         /\ \A d \in Client : \A i \in DOMAIN written'[d] :
              \/ i \in DOMAIN written[d]
              \/ d = c /\ c \notin gone /\ written'[d][i] = [what |-> w, turn |-> t]
         /\ \A d \in Client : \A u : Ended(written[d], u) => Ended(written'[d], u)
         /\ \A d \in Client : \A u :
              Ended(written'[d], u) => Ended(written[d], u) \/ (u = t /\ w \in EndLines)
         /\ w \in EndLines /\ c \notin gone => Ended(written'[c], t)
<1>1. t \in Nat /\ c \in Client /\ \A u \in DOMAIN prompts : prompts[u].client \in Client
  <2>1. t \in Nat /\ \A u \in DOMAIN prompts : prompts[u] \in Prompts
    BY DEF RpcInv, RpcTyped
  <2> QED
    BY <2>1 DEF Prompts
<1>2. /\ \A d \in Client : \A i \in DOMAIN written[d] :
           i \in DOMAIN written'[d] /\ written'[d][i] = written[d][i]
      /\ \A d \in Client : \A i \in DOMAIN written'[d] : i \notin DOMAIN written[d] =>
           d = c /\ c \notin gone /\ written'[d][i] = [what |-> w, turn |-> t]
      /\ c \notin gone => \E i \in DOMAIN written'[c] : written'[c][i] = [what |-> w, turn |-> t]
  BY <1>1, Sent DEF RpcInv
<1>3. LinesInOrder'
  BY <1>1, SentFramed
<1>4. LinesOwn'
  <2> SUFFICES ASSUME NEW d \in Client, NEW i \in DOMAIN written'[d]
               PROVE  /\ written'[d][i].turn \in DOMAIN prompts
                      /\ prompts'[written'[d][i].turn].client = d
    BY DEF LinesOwn
  <2>1. CASE i \in DOMAIN written[d]
    BY <1>2, <2>1 DEF RpcInv, LinesOwn
  <2>2. CASE i \notin DOMAIN written[d]
    BY <1>2, <2>2
  <2> QED
    BY <2>1, <2>2
<1>5. DoneRun'
  <2> SUFFICES ASSUME NEW d \in Client, NEW i \in DOMAIN written'[d], written'[d][i].what = "done"
               PROVE  prompts'[written'[d][i].turn].state \in Final
    BY DEF DoneRun
  <2>1. CASE i \in DOMAIN written[d]
    BY <1>2, <2>1 DEF RpcInv, LinesOwn, DoneRun
  <2>2. CASE i \notin DOMAIN written[d]
    BY <1>2, <2>2
  <2> QED
    BY <2>1, <2>2
<1>6. \A d \in Client : \A u : Ended(written[d], u) => Ended(written'[d], u)
  BY <1>2 DEF Ended
<1>7. \A d \in Client : \A u :
        Ended(written'[d], u) => Ended(written[d], u) \/ (u = t /\ w \in EndLines)
  <2> SUFFICES ASSUME NEW d \in Client, NEW u, NEW i \in DOMAIN written'[d],
                      written'[d][i].turn = u, written'[d][i].what \in EndLines
               PROVE  Ended(written[d], u) \/ (u = t /\ w \in EndLines)
    BY DEF Ended
  <2>1. CASE i \in DOMAIN written[d]
    <3>1. written[d][i].turn = u /\ written[d][i].what \in EndLines
      BY <1>2, <2>1
    <3> QED
      BY <2>1, <3>1 DEF Ended
  <2>2. CASE i \notin DOMAIN written[d]
    BY <1>2, <2>2
  <2> QED
    BY <2>1, <2>2
<1>8. w \in EndLines /\ c \notin gone => Ended(written'[c], t)
  BY <1>2 DEF Ended
<1> QED
  BY <1>2, <1>3, <1>4, <1>5, <1>6, <1>7, <1>8

\* A prompt is submitted: nothing is written about it yet.
LEMMA SubmitFramed ==
  ASSUME RpcInv, RpcTyped', NEW c \in Client, Submit(c)
  PROVE  RpcInv'
<1> DEFINE n == Len(prompts) + 1
<1>1. /\ written' = written /\ gone' = gone
      /\ n \in Nat /\ n # 0 /\ n \notin DOMAIN prompts
      /\ DOMAIN prompts' = DOMAIN prompts \cup {n}
      /\ \A t \in DOMAIN prompts : prompts'[t] = prompts[t]
      /\ prompts'[n] = [session |-> link, client |-> c, state |-> "pending",
                        runner |-> 0, goroutine |-> "none", steered |-> FALSE]
  BY DEF Submit, RpcInv, RpcTyped
<1>2. /\ handler[c] = "read" /\ handler'[c] = "accept" /\ arg'[c] = n
      /\ \A d \in Client : d # c => handler'[d] = handler[d] /\ arg'[d] = arg[d]
  BY DEF Submit, Ready, At, RpcInv, RpcTyped
<1>3. \A d \in Client : \A i \in DOMAIN written[d] :
        written[d][i].turn \in DOMAIN prompts /\ written[d][i].turn # n
  BY <1>1 DEF RpcInv, LinesOwn
<1>4. LinesOwn'
  BY <1>1, <1>3 DEF RpcInv, LinesOwn
<1> HIDE DEF n
<1>5. Handled'
  <2> SUFFICES ASSUME NEW d \in Client
               PROVE  /\ handler'[d] \in {"accept", "start", "steer", "abort"} => arg'[d] \in DOMAIN prompts'
                      /\ handler'[d] \in {"accept", "start"} =>
                           /\ prompts'[arg'[d]].client = d
                           /\ prompts'[arg'[d]].goroutine = "none"
                           /\ ~Ended(written[d], arg'[d])
                      /\ handler'[d] = "accept" =>
                           \A i \in DOMAIN written[d] : written[d][i].turn # arg'[d]
    BY <1>1 DEF Handled, Ended
  <2>1. CASE d = c
    <3>1. ~Ended(written[d], n)
      BY <1>3 DEF Ended
    <3> QED
      BY <1>1, <1>2, <1>3, <2>1, <3>1
  <2>2. CASE d # c
    BY <1>1, <1>2, <2>2 DEF RpcInv, Handled
  <2> QED
    BY <2>1, <2>2
<1>6. GoroutineRuns'
  <2> SUFFICES ASSUME NEW t \in DOMAIN prompts'
               PROVE  /\ prompts'[t].goroutine \in Live => ~Ended(written[prompts'[t].client], t)
                      /\ prompts'[t].goroutine = "succeeded" => prompts'[t].state \in Final
    BY <1>1 DEF GoroutineRuns, Ended
  <2> QED
    BY <1>1 DEF RpcInv, GoroutineRuns, Live
<1>7. RunnerPolls'
  BY <1>1 DEF RpcInv, RunnerPolls
<1>8. LinesInOrder' /\ DoneRun'
  BY <1>1, <1>3 DEF RpcInv, LinesInOrder, DoneRun
<1>9. AcceptedFollowed'
  <2> SUFFICES ASSUME NEW d \in Client, NEW i \in DOMAIN written[d], written[d][i].what = "accepted"
               PROVE  Followed(d, written[d][i].turn)'
    BY <1>1 DEF AcceptedFollowed
  <2>1. Followed(d, written[d][i].turn)
    BY DEF RpcInv, AcceptedFollowed
  <2> QED
    BY <1>1, <1>2, <1>3, <2>1 DEF Followed, Ended
<1> QED
  BY <1>4, <1>5, <1>6, <1>7, <1>8, <1>9 DEF RpcInv

\* The acceptance is the first line of a prompt.
LEMMA AcceptFramed ==
  ASSUME RpcInv, RpcTyped', NEW c \in Client, Accept(c)
  PROVE  RpcInv'
<1> DEFINE t == arg[c]
<1>1. /\ prompts' = prompts /\ gone' = gone /\ Send(c, "accepted", t) /\ handler[c] = "accept"
      /\ handler'[c] \in {"drain", "start"}
      /\ handler'[c] = "start" => arg'[c] = t
      /\ c \notin gone => handler'[c] = "start"
      /\ \A d \in Client : d # c => handler'[d] = handler[d] /\ arg'[d] = arg[d]
  BY DEF Accept, At, RpcInv, RpcTyped
<1>2. /\ t \in DOMAIN prompts /\ prompts[t].client = c /\ prompts[t].goroutine = "none"
      /\ ~Ended(written[c], t)
      /\ \A i \in DOMAIN written[c] : written[c][i].turn # t
  BY <1>1 DEF RpcInv, Handled, RpcTyped
<1> HIDE DEF t
<1>3. /\ LinesOwn' /\ LinesInOrder' /\ DoneRun'
      /\ \A d \in Client : \A i \in DOMAIN written[d] :
           i \in DOMAIN written'[d] /\ written'[d][i] = written[d][i]
      /\ \A d \in Client : \A i \in DOMAIN written'[d] :
           \/ i \in DOMAIN written[d]
           \/ d = c /\ c \notin gone /\ written'[d][i] = [what |-> "accepted", turn |-> t]
      /\ \A d \in Client : \A u : Ended(written[d], u) => Ended(written'[d], u)
      /\ \A d \in Client : \A u : Ended(written'[d], u) => Ended(written[d], u)
  BY <1>1, <1>2, LineAdded DEF EndLines
<1>4. Handled'
  <2> SUFFICES ASSUME NEW d \in Client
               PROVE  /\ handler'[d] \in {"accept", "start", "steer", "abort"} => arg'[d] \in DOMAIN prompts
                      /\ handler'[d] \in {"accept", "start"} =>
                           /\ prompts[arg'[d]].client = d
                           /\ prompts[arg'[d]].goroutine = "none"
                           /\ ~Ended(written'[d], arg'[d])
                      /\ handler'[d] = "accept" =>
                           \A i \in DOMAIN written'[d] : written'[d][i].turn # arg'[d]
    BY <1>1 DEF Handled, Ended
  <2>1. CASE d = c
    BY <1>1, <1>2, <1>3, <2>1
  <2>2. CASE d # c
    BY <1>1, <1>3, <2>2 DEF RpcInv, Handled
  <2> QED
    BY <2>1, <2>2
<1>5. GoroutineRuns'
  <2> SUFFICES ASSUME NEW u \in DOMAIN prompts
               PROVE  /\ prompts[u].goroutine \in Live => ~Ended(written'[prompts[u].client], u)
                      /\ prompts[u].goroutine = "succeeded" => prompts[u].state \in Final
    BY <1>1 DEF GoroutineRuns, Ended
  <2>1. prompts[u].client \in Client
    <3>1. prompts[u] \in Prompts
      BY DEF RpcInv, RpcTyped
    <3> QED
      BY <3>1 DEF Prompts
  <2> QED
    BY <1>3, <2>1 DEF RpcInv, GoroutineRuns
<1>6. RunnerPolls'
  BY <1>1 DEF RpcInv, RunnerPolls
<1>7. AcceptedFollowed'
  <2> SUFFICES ASSUME NEW d \in Client, NEW i \in DOMAIN written'[d], written'[d][i].what = "accepted"
               PROVE  Followed(d, written[d][i].turn)'
    BY DEF AcceptedFollowed
  <2>1. CASE i \in DOMAIN written[d]
    <3>1. written'[d][i] = written[d][i] /\ Followed(d, written[d][i].turn)
      BY <1>3, <2>1 DEF RpcInv, AcceptedFollowed
    <3> QED
      BY <1>1, <1>3, <3>1 DEF Followed
  <2>2. CASE i \notin DOMAIN written[d]
    BY <1>1, <1>3, <2>2 DEF Followed
  <2> QED
    BY <2>1, <2>2
<1> QED
  BY <1>3, <1>4, <1>5, <1>6, <1>7 DEF RpcInv

\* A goroutine starts for a prompt that has been accepted.
LEMMA StartFramed ==
  ASSUME RpcInv, RpcTyped', NEW c \in Client, Start(c)
  PROVE  RpcInv'
<1> DEFINE t == arg[c]
<1>1. /\ t \in DOMAIN prompts /\ prompts[t].client = c /\ prompts[t].goroutine = "none"
      /\ ~Ended(written[c], t)
  BY DEF Start, RpcInv, Handled
<1>2. /\ written' = written /\ gone' = gone /\ DOMAIN prompts' = DOMAIN prompts
      /\ prompts'[t].goroutine = "polls"
      /\ \A u \in DOMAIN prompts :
           /\ prompts'[u].client = prompts[u].client /\ prompts'[u].state = prompts[u].state
           /\ prompts'[u].runner = prompts[u].runner
           /\ u # t => prompts'[u] = prompts[u]
      /\ handler[c] = "start" /\ handler'[c] = "read"
      /\ \A d \in Client : d # c => handler'[d] = handler[d] /\ arg'[d] = arg[d]
  <2>1. /\ prompts[t] \in Prompts
        /\ prompts' = [prompts EXCEPT ![t] = [prompts[t] EXCEPT !.goroutine = "polls"]]
    BY <1>1 DEF Start, RpcInv, RpcTyped
  <2>2. prompts'[t].goroutine = "polls" /\ prompts'[t].client = prompts[t].client
        /\ prompts'[t].state = prompts[t].state /\ prompts'[t].runner = prompts[t].runner
    BY <1>1, <2>1 DEF Prompts
  <2> QED
    BY <1>1, <2>1, <2>2 DEF Start, At, RpcInv, RpcTyped
<1> HIDE DEF t
<1>3. LinesOwn' /\ LinesInOrder'
  BY <1>2 DEF RpcInv, LinesOwn, LinesInOrder
<1>4. Handled'
  <2> SUFFICES ASSUME NEW d \in Client, d # c
               PROVE  /\ handler[d] \in {"accept", "start", "steer", "abort"} => arg[d] \in DOMAIN prompts
                      /\ handler[d] \in {"accept", "start"} =>
                           /\ prompts'[arg[d]].client = d
                           /\ prompts'[arg[d]].goroutine = "none"
                           /\ ~Ended(written[d], arg[d])
                      /\ handler[d] = "accept" =>
                           \A i \in DOMAIN written[d] : written[d][i].turn # arg[d]
    BY <1>2 DEF Handled, Ended
  <2> QED
    BY <1>1, <1>2 DEF RpcInv, Handled
<1>5. GoroutineRuns'
  <2> SUFFICES ASSUME NEW u \in DOMAIN prompts
               PROVE  /\ prompts'[u].goroutine \in Live => ~Ended(written[prompts[u].client], u)
                      /\ prompts'[u].goroutine = "succeeded" => prompts[u].state \in Final
    BY <1>2 DEF GoroutineRuns, Ended
  <2> QED
    BY <1>1, <1>2 DEF RpcInv, GoroutineRuns
<1>6. RunnerPolls'
  BY <1>1, <1>2 DEF RpcInv, RunnerPolls
<1>7. DoneRun'
  <2> SUFFICES ASSUME NEW d \in Client, NEW i \in DOMAIN written[d], written[d][i].what = "done"
               PROVE  prompts'[written[d][i].turn].state \in Final
    BY <1>2 DEF DoneRun
  <2> QED
    BY <1>2 DEF RpcInv, LinesOwn, DoneRun
<1>8. AcceptedFollowed'
  <2> SUFFICES ASSUME NEW d \in Client, NEW i \in DOMAIN written[d], written[d][i].what = "accepted"
               PROVE  Followed(d, written[d][i].turn)'
    BY <1>2 DEF AcceptedFollowed
  <2>1. written[d][i].turn \in DOMAIN prompts /\ Followed(d, written[d][i].turn)
    BY DEF RpcInv, LinesOwn, AcceptedFollowed
  <2>2. CASE written[d][i].turn = t
    BY <1>2, <2>2 DEF Followed, Live
  <2>3. CASE written[d][i].turn # t
    BY <1>2, <2>1, <2>3 DEF Followed, Ended, t
  <2> QED
    BY <2>2, <2>3
<1> QED
  BY <1>3, <1>4, <1>5, <1>6, <1>7, <1>8 DEF RpcInv

\* A goroutine writes an event while it runs a turn, so before its end.
LEMMA DeltaFramed ==
  ASSUME RpcInv, RpcTyped', NEW t \in DOMAIN prompts, Delta(t)
  PROVE  RpcInv'
<1> DEFINE c == prompts[t].client
<1>1. /\ prompts' = prompts /\ handler' = handler /\ arg' = arg /\ gone' = gone
      /\ Send(c, "delta", t)
  BY DEF Delta
<1>2. prompts[t].goroutine \in Live
  <2>1. t # 0
    BY DEF RpcInv, RpcTyped
  <2>2. PICK u \in DOMAIN prompts : prompts[u].runner = t
    BY DEF Delta, Running
  <2> QED
    BY <2>1, <2>2 DEF RpcInv, RunnerPolls, Live
<1>3. ~Ended(written[c], t)
  BY <1>2 DEF RpcInv, GoroutineRuns
<1>4. /\ LinesOwn' /\ LinesInOrder' /\ DoneRun'
      /\ \A d \in Client : \A i \in DOMAIN written[d] :
           i \in DOMAIN written'[d] /\ written'[d][i] = written[d][i]
      /\ \A d \in Client : \A i \in DOMAIN written'[d] :
           \/ i \in DOMAIN written[d]
           \/ d = c /\ c \notin gone /\ written'[d][i] = [what |-> "delta", turn |-> t]
      /\ \A d \in Client : \A u : Ended(written[d], u) => Ended(written'[d], u)
      /\ \A d \in Client : \A u : Ended(written'[d], u) => Ended(written[d], u)
  BY <1>1, <1>3, LineAdded DEF EndLines
<1> HIDE DEF c
<1>5. Handled'
  <2> SUFFICES ASSUME NEW d \in Client
               PROVE  /\ handler[d] \in {"accept", "start", "steer", "abort"} => arg[d] \in DOMAIN prompts
                      /\ handler[d] \in {"accept", "start"} =>
                           /\ prompts[arg[d]].client = d
                           /\ prompts[arg[d]].goroutine = "none"
                           /\ ~Ended(written'[d], arg[d])
                      /\ handler[d] = "accept" =>
                           \A i \in DOMAIN written'[d] : written'[d][i].turn # arg[d]
    BY <1>1 DEF Handled, Ended
  <2>1. /\ handler[d] = "accept" => prompts[arg[d]].goroutine = "none"
        /\ handler[d] = "accept" => \A i \in DOMAIN written[d] : written[d][i].turn # arg[d]
    BY DEF RpcInv, Handled
  <2>2. handler[d] = "accept" => \A i \in DOMAIN written'[d] : written'[d][i].turn # arg[d]
    BY <1>2, <1>4, <2>1 DEF Live
  <2> QED
    BY <1>4, <2>2 DEF RpcInv, Handled
<1>6. GoroutineRuns'
  <2> SUFFICES ASSUME NEW u \in DOMAIN prompts
               PROVE  /\ prompts[u].goroutine \in Live => ~Ended(written'[prompts[u].client], u)
                      /\ prompts[u].goroutine = "succeeded" => prompts[u].state \in Final
    BY <1>1 DEF GoroutineRuns, Ended
  <2>1. prompts[u].client \in Client
    <3>1. prompts[u] \in Prompts
      BY DEF RpcInv, RpcTyped
    <3> QED
      BY <3>1 DEF Prompts
  <2> QED
    BY <1>4, <2>1 DEF RpcInv, GoroutineRuns
<1>7. RunnerPolls'
  BY <1>1 DEF RpcInv, RunnerPolls
<1>8. AcceptedFollowed'
  <2> SUFFICES ASSUME NEW d \in Client, NEW i \in DOMAIN written'[d], written'[d][i].what = "accepted"
               PROVE  Followed(d, written[d][i].turn)' 
    BY DEF AcceptedFollowed
  <2>1. i \in DOMAIN written[d] /\ written'[d][i] = written[d][i]
    BY <1>4
  <2>2. Followed(d, written[d][i].turn)
    BY <2>1 DEF RpcInv, AcceptedFollowed
  <2> QED
    BY <1>1, <1>4, <2>1, <2>2 DEF Followed
<1> QED
  BY <1>4, <1>5, <1>6, <1>7, <1>8 DEF RpcInv

\* A goroutine that has failed or run its own turn ends its prompt.
LEMMA EndFramed ==
  ASSUME RpcInv, RpcTyped', NEW t \in DOMAIN prompts, RunPromptEnds(t)
  PROVE  RpcInv'
<1> DEFINE c == prompts[t].client
<1>1. PICK w \in EndLines :
        /\ Send(c, w, t) /\ handler' = handler /\ arg' = arg /\ gone' = gone
        /\ prompts[t].goroutine \in {"succeeded", "failed"}
        /\ w = "done" => prompts[t].goroutine = "succeeded"
  BY DEF RunPromptEnds, EndLines
<1>2. ~Ended(written[c], t) /\ (w = "done" => prompts[t].state \in Final) /\ w # "accepted"
  BY <1>1 DEF RpcInv, GoroutineRuns, Live, EndLines
<1>3. /\ DOMAIN prompts' = DOMAIN prompts
      /\ prompts'[t].goroutine = "over"
      /\ \A u \in DOMAIN prompts :
           /\ prompts'[u].client = prompts[u].client /\ prompts'[u].state = prompts[u].state
           /\ prompts'[u].runner = prompts[u].runner
           /\ u # t => prompts'[u] = prompts[u]
  <2>1. /\ prompts[t] \in Prompts
        /\ prompts' = [prompts EXCEPT ![t] = [prompts[t] EXCEPT !.goroutine = "over"]]
    BY DEF RunPromptEnds, RpcInv, RpcTyped
  <2>2. prompts'[t].goroutine = "over" /\ prompts'[t].client = prompts[t].client
        /\ prompts'[t].state = prompts[t].state /\ prompts'[t].runner = prompts[t].runner
    BY <2>1 DEF Prompts
  <2> QED
    BY <2>1, <2>2 DEF RpcInv, RpcTyped
<1>4. /\ LinesOwn' /\ LinesInOrder' /\ DoneRun'
      /\ \A d \in Client : \A i \in DOMAIN written[d] :
           i \in DOMAIN written'[d] /\ written'[d][i] = written[d][i]
      /\ \A d \in Client : \A i \in DOMAIN written'[d] :
           \/ i \in DOMAIN written[d]
           \/ d = c /\ c \notin gone /\ written'[d][i] = [what |-> w, turn |-> t]
      /\ \A d \in Client : \A u : Ended(written[d], u) => Ended(written'[d], u)
      /\ \A d \in Client : \A u : Ended(written'[d], u) => Ended(written[d], u) \/ u = t
      /\ c \notin gone => Ended(written'[c], t)
  BY <1>1, <1>2, <1>3, LineAdded
<1> HIDE DEF c
<1>5. Handled'
  <2> SUFFICES ASSUME NEW d \in Client
               PROVE  /\ handler[d] \in {"accept", "start", "steer", "abort"} => arg[d] \in DOMAIN prompts
                      /\ handler[d] \in {"accept", "start"} =>
                           /\ prompts'[arg[d]].client = d
                           /\ prompts'[arg[d]].goroutine = "none"
                           /\ ~Ended(written'[d], arg[d])
                      /\ handler[d] = "accept" =>
                           \A i \in DOMAIN written'[d] : written'[d][i].turn # arg[d]
    BY <1>1, <1>3 DEF Handled, Ended
  <2>1. /\ handler[d] \in {"accept", "start", "steer", "abort"} => arg[d] \in DOMAIN prompts
        /\ handler[d] \in {"accept", "start"} => arg[d] # t
        /\ handler[d] = "accept" => \A i \in DOMAIN written[d] : written[d][i].turn # arg[d]
    BY <1>1 DEF RpcInv, Handled
  <2>2. handler[d] = "accept" => \A i \in DOMAIN written'[d] : written'[d][i].turn # arg[d]
    BY <1>4, <2>1
  <2>3. handler[d] \in {"accept", "start"} => prompts'[arg[d]] = prompts[arg[d]]
    BY <1>3, <2>1
  <2> QED
    BY <1>4, <2>1, <2>2, <2>3 DEF RpcInv, Handled
<1>6. GoroutineRuns'
  <2> SUFFICES ASSUME NEW u \in DOMAIN prompts
               PROVE  /\ prompts'[u].goroutine \in Live => ~Ended(written'[prompts[u].client], u)
                      /\ prompts'[u].goroutine = "succeeded" => prompts[u].state \in Final
    BY <1>3 DEF GoroutineRuns, Ended
  <2>1. prompts[u].client \in Client
    <3>1. prompts[u] \in Prompts
      BY DEF RpcInv, RpcTyped
    <3> QED
      BY <3>1 DEF Prompts
  <2> QED
    BY <1>3, <1>4, <2>1 DEF RpcInv, GoroutineRuns, Live
<1>7. RunnerPolls'
  BY <1>1, <1>3 DEF RpcInv, RunnerPolls
<1>8. AcceptedFollowed'
  <2> SUFFICES ASSUME NEW d \in Client, NEW i \in DOMAIN written'[d], written'[d][i].what = "accepted"
               PROVE  Followed(d, written[d][i].turn)'
    BY DEF AcceptedFollowed
  <2>1. i \in DOMAIN written[d] /\ written'[d][i] = written[d][i]
    BY <1>2, <1>4
  <2>2. /\ written[d][i].turn \in DOMAIN prompts /\ prompts[written[d][i].turn].client = d
        /\ Followed(d, written[d][i].turn)
    BY <2>1 DEF RpcInv, LinesOwn, AcceptedFollowed
  <2>3. CASE written[d][i].turn = t
    BY <1>1, <1>4, <2>1, <2>2, <2>3 DEF Followed, c
  <2>4. CASE written[d][i].turn # t
    BY <1>1, <1>3, <1>4, <2>1, <2>2, <2>4 DEF Followed
  <2> QED
    BY <2>3, <2>4
<1> QED
  BY <1>4, <1>5, <1>6, <1>7, <1>8 DEF RpcInv

\* A turn is claimed, or ends, or the queue cannot be read: no line.
LEMMA TurnFramed ==
  ASSUME RpcInv, RpcTyped', NEW t \in DOMAIN prompts,
         \/ ClaimOldest(t) \/ ClaimFails(t)
         \/ \E failed \in BOOLEAN : TurnEnds(t, failed)
  PROVE  RpcInv'
<1>0. \A u \in DOMAIN prompts : prompts[u] \in Prompts /\ u # 0
  BY DEF RpcInv, RpcTyped
<1>1. CASE ClaimOldest(t)
  <2>1. PICK u \in DOMAIN prompts :
          /\ prompts[u].state = "pending"
          /\ prompts' = [prompts EXCEPT ![u] = [@ EXCEPT !.state = "running", !.runner = t]]
    BY <1>1 DEF ClaimOldest
  <2>2. /\ prompts'[u].client = prompts[u].client /\ prompts'[u].goroutine = prompts[u].goroutine
        /\ prompts'[u].runner = t /\ DOMAIN prompts' = DOMAIN prompts
        /\ \A v \in DOMAIN prompts : v # u => prompts'[v] = prompts[v]
    BY <1>0, <2>1 DEF Prompts
  <2>3. /\ written' = written /\ handler' = handler /\ arg' = arg /\ gone' = gone
        /\ prompts[t].goroutine = "polls" /\ ~Running(t)
    BY <1>1 DEF ClaimOldest
  <2>4. \A v \in DOMAIN prompts :
          /\ prompts'[v].client = prompts[v].client
          /\ prompts'[v].goroutine = prompts[v].goroutine
          /\ prompts[v].state \in Final => prompts'[v].state \in Final
    BY <2>1, <2>2 DEF Final
  <2>5. RunnerPolls'
    BY <1>0, <2>2, <2>3 DEF RpcInv, RunnerPolls, Running
  <2> QED
    BY <2>2, <2>3, <2>4, <2>5, NoFrame
<1>2. CASE ClaimFails(t)
  <2>1. /\ written' = written /\ handler' = handler /\ arg' = arg /\ gone' = gone
        /\ prompts[t].goroutine = "polls" /\ ~Running(t)
        /\ prompts' = [prompts EXCEPT ![t] = [@ EXCEPT !.goroutine = "failed"]]
    BY <1>2 DEF ClaimFails
  <2>2. /\ prompts'[t].client = prompts[t].client /\ prompts'[t].state = prompts[t].state
        /\ prompts'[t].runner = prompts[t].runner /\ prompts'[t].goroutine = "failed"
        /\ DOMAIN prompts' = DOMAIN prompts
        /\ \A v \in DOMAIN prompts : v # t => prompts'[v] = prompts[v]
    BY <1>0, <2>1 DEF Prompts
  <2>3. RunnerPolls'
    BY <2>1, <2>2 DEF RpcInv, RunnerPolls, Running
  <2> QED
    BY <2>1, <2>2, <2>3, NoFrame
<1>3. ASSUME NEW failed \in BOOLEAN, TurnEnds(t, failed)
      PROVE  RpcInv'
  <2> DEFINE r == prompts[t].runner
  <2>1. /\ DOMAIN prompts' = DOMAIN prompts
        /\ r \in DOMAIN prompts /\ prompts[r].goroutine = "polls"
        /\ prompts'[r].goroutine \in {"polls", "failed", "succeeded"}
        /\ prompts'[r].goroutine = "succeeded" => t = r
        /\ prompts'[t].runner = 0 /\ prompts'[t].state \in Final
        /\ \A v \in DOMAIN prompts :
             /\ prompts'[v].client = prompts[v].client
             /\ v # t => prompts'[v].runner = prompts[v].runner /\ prompts'[v].state = prompts[v].state
             /\ v # r => prompts'[v].goroutine = prompts[v].goroutine
    BY <1>3, TurnEndsDoes DEF RpcInv
  <2>2. /\ written' = written /\ handler' = handler /\ arg' = arg /\ gone' = gone /\ r # 0
    BY <1>3 DEF TurnEnds
  <2>3. \A v \in DOMAIN prompts : prompts[v].runner = r => v = t
    BY <2>2 DEF RpcInv, RunnerPolls
  <2> HIDE DEF r
  <2>4. RunnerPolls'
    BY <2>1, <2>3 DEF RpcInv, RunnerPolls
  <2> QED
    BY <2>1, <2>2, <2>4, NoFrame
<1> QED
  BY <1>1, <1>2, <1>3

\* Steering and abort mark a turn that runs.
LEMMA ActiveFramed ==
  ASSUME RpcInv, RpcTyped', NEW c \in Client, SteerActive(c) \/ AbortActive(c)
  PROVE  RpcInv'
<1> DEFINE t == arg[c]
<1>1. /\ t \in DOMAIN prompts /\ prompts[t] \in Prompts
      /\ written' = written /\ gone' = gone
      /\ handler[c] \in {"steer", "abort"} /\ handler'[c] = "read"
      /\ \A d \in Client : d # c => handler'[d] = handler[d] /\ arg'[d] = arg[d]
  BY DEF SteerActive, AbortActive, At, RpcInv, Handled, RpcTyped
<1>2. \/ prompts' = prompts
      \/ /\ prompts[t].state = "running"
         /\ \/ prompts' = [prompts EXCEPT ![t] = [@ EXCEPT !.steered = TRUE]]
            \/ prompts' = [prompts EXCEPT ![t] = [@ EXCEPT !.state = "canceled"]]
  BY DEF SteerActive, AbortActive
<1>3. DOMAIN prompts' = DOMAIN prompts
  BY <1>1, <1>2 DEF RpcInv, RpcTyped
<1>4. /\ prompts'[t].client = prompts[t].client /\ prompts'[t].goroutine = prompts[t].goroutine
      /\ prompts'[t].runner = prompts[t].runner
      /\ prompts[t].state \in Final => prompts'[t].state \in Final
      /\ \A v \in DOMAIN prompts : v # t => prompts'[v] = prompts[v]
  BY <1>1, <1>2 DEF Prompts, Final
<1>5. \A v \in DOMAIN prompts :
        /\ prompts'[v].client = prompts[v].client
        /\ prompts'[v].goroutine = prompts[v].goroutine
        /\ prompts'[v].runner = prompts[v].runner
        /\ prompts[v].state \in Final => prompts'[v].state \in Final
  BY <1>4
<1>6. RunnerPolls'
  BY <1>3, <1>5 DEF RpcInv, RunnerPolls
<1> QED
  BY <1>1, <1>3, <1>5, <1>6, NoFrame

\* What a connection does about no prompt.
LEMMA ConnectionFramed ==
  ASSUME RpcInv, RpcTyped', NEW c \in Client,
         \/ Connect(c) \/ HangUp(c) \/ EndOfInput(c) \/ Drained(c)
         \/ FindActive(c, "steer") \/ FindActive(c, "abort")
         \/ NewSession(c) \/ SwitchSession(c) \/ ActivateSession(c)
         \/ SetMode(c) \/ SetQueueModes(c)
  PROVE  RpcInv'
<1>1. written' = written /\ prompts' = prompts /\ gone \subseteq gone'
  BY DEF Connect, HangUp, EndOfInput, Drained, FindActive, NewSession, SwitchSession,
         ActivateSession, SetMode, SetQueueModes
<1>2. \/ handler' = handler /\ arg' = arg
      \/ /\ handler[c] # "start" /\ handler'[c] \notin {"accept", "start"}
         /\ handler'[c] \in {"steer", "abort"} => arg'[c] \in DOMAIN prompts
         /\ \A d \in Client : d # c => handler'[d] = handler[d] /\ arg'[d] = arg[d]
  <2>1. CASE Connect(c)
    BY <2>1 DEF Connect, At, RpcInv, RpcTyped
  <2>2. CASE HangUp(c)
    BY <2>2 DEF HangUp
  <2>3. CASE EndOfInput(c)
    BY <2>3 DEF EndOfInput, At, RpcInv, RpcTyped
  <2>4. CASE Drained(c)
    BY <2>4 DEF Drained, At, RpcInv, RpcTyped
  <2>5. CASE FindActive(c, "steer") \/ FindActive(c, "abort")
    <3>1. PICK place \in {"steer", "abort"}, t \in DOMAIN prompts : At(c, place, t)
      BY <2>5 DEF FindActive
    <3> QED
      BY <2>5, <3>1 DEF FindActive, Ready, At, RpcInv, RpcTyped
  <2>6. CASE NewSession(c)
    BY <2>6 DEF NewSession, Ready, At, RpcInv, RpcTyped
  <2>7. CASE SwitchSession(c)
    <3>1. PICK s : At(c, "activate", s)
      BY <2>7 DEF SwitchSession
    <3> QED
      BY <2>7, <3>1 DEF SwitchSession, Ready, At, RpcInv, RpcTyped
  <2>8. CASE ActivateSession(c)
    <3>1. PICK place \in {"relink", "read"} : \E n : At(c, place, n)
      BY <2>8 DEF ActivateSession
    <3>2. handler[c] \in {"activate", "relink"}
      BY <2>8 DEF ActivateSession
    <3> QED
      BY <3>1, <3>2 DEF At, RpcInv, RpcTyped
  <2>9. CASE SetMode(c)
    BY <2>9 DEF SetMode, Ready, At, RpcInv, RpcTyped
  <2>10. CASE SetQueueModes(c)
    BY <2>10 DEF SetQueueModes, At, RpcInv, RpcTyped
  <2> QED
    BY <2>1, <2>2, <2>3, <2>4, <2>5, <2>6, <2>7, <2>8, <2>9, <2>10
<1>3. RunnerPolls'
  BY <1>1 DEF RpcInv, RunnerPolls
<1> QED
  BY <1>1, <1>2, <1>3, NoFrame

-----------------------------------------------------------------------------
(* Questions.                                                               *)

Question == [id : Nat, to : Client, got : Nat,
             state : {"registered", "shown", "failed", "canceled", "done"}]

UiTyped ==
  /\ uiOutput \in Client \cup {NoClient}
  /\ questions \in Seq(Question)
  /\ answered \subseteq DOMAIN questions
  /\ DOMAIN uiPending \subseteq Nat

\* No other question has the ID of q.
OwnId(q) == \A p \in DOMAIN questions : questions[p].id = questions[q].id => p = q

\* Who waits under an ID has it; a question that still waits, with an ID of its
\* own, waits under it until it is answered.
Registered ==
  /\ \A id \in DOMAIN uiPending :
       uiPending[id] \in DOMAIN questions /\ questions[uiPending[id]].id = id
  /\ \A q \in DOMAIN questions :
       questions[q].state \in {"registered", "shown"} /\ questions[q].got = 0 /\ OwnId(q) =>
         /\ questions[q].id \in DOMAIN uiPending
         /\ uiPending[questions[q].id] = q
         /\ q \notin answered

UiInv == UiTyped /\ Registered

\* A new question waits under its ID, and may take that of another.
LEMMA AskKeeps ==
  ASSUME UiInv, NEW named \in BOOLEAN, Ask(named)
  PROVE  UiInv'
<1> DEFINE n == Len(questions) + 1
           id == IF named THEN 0 ELSE n
<1>1. /\ n \in Nat /\ id \in Nat /\ n \notin DOMAIN questions
      /\ uiOutput \in Client /\ uiOutput' = uiOutput /\ answered' = answered
      /\ DOMAIN questions' = DOMAIN questions \cup {n}
      /\ \A q \in DOMAIN questions : questions'[q] = questions[q]
      /\ questions'[n] = [id |-> id, to |-> uiOutput, state |-> "registered", got |-> 0]
  BY DEF Ask, UiInv, UiTyped
<1>2. /\ DOMAIN uiPending' = DOMAIN uiPending \cup {id}
      /\ uiPending'[id] = n
      /\ \A k \in DOMAIN uiPending : k # id => uiPending'[k] = uiPending[k]
  BY DEF Ask, Await
<1>3. questions' \in Seq(Question)
  <2>1. [id |-> id, to |-> uiOutput, state |-> "registered", got |-> 0] \in Question
    BY <1>1 DEF Question
  <2> QED
    BY <2>1 DEF Ask, UiInv, UiTyped
<1> HIDE DEF n, id
<1>4. UiTyped'
  BY <1>1, <1>2, <1>3 DEF UiInv, UiTyped
<1>5. \A k \in DOMAIN uiPending' :
        uiPending'[k] \in DOMAIN questions' /\ questions'[uiPending'[k]].id = k
  BY <1>1, <1>2 DEF UiInv, Registered
<1>6. ASSUME NEW q \in DOMAIN questions',
             questions'[q].state \in {"registered", "shown"}, questions'[q].got = 0, OwnId(q)'
      PROVE  /\ questions'[q].id \in DOMAIN uiPending'
             /\ uiPending'[questions'[q].id] = q
             /\ q \notin answered'
  <2>1. CASE q = n
    BY <1>1, <1>2, <2>1 DEF UiInv, UiTyped
  <2>2. CASE q # n
    <3>1. q \in DOMAIN questions /\ questions'[q] = questions[q] /\ questions[q].id # id
      BY <1>1, <1>6, <2>2 DEF OwnId
    <3>2. OwnId(q)
      BY <1>1, <1>6, <3>1 DEF OwnId
    <3> QED
      BY <1>1, <1>2, <1>6, <3>1, <3>2 DEF UiInv, Registered
  <2> QED
    BY <2>1, <2>2
<1> QED
  BY <1>4, <1>5, <1>6 DEF UiInv, Registered

\* A question moves on: it keeps its ID, and either waits as it did or no
\* longer waits, and then it may be dropped from the map.
LEMMA MovesKeep ==
  ASSUME UiInv, NEW q \in DOMAIN questions, NEW x \in Question,
         x.id = questions[q].id,
         questions' = [questions EXCEPT ![q] = x],
         \/ /\ uiPending' = uiPending
            /\ x.state \in {"registered", "shown"} /\ x.got = 0 =>
                 questions[q].state \in {"registered", "shown"} /\ questions[q].got = 0
         \/ /\ uiPending' = Drop(x.id)
            /\ x.state \notin {"registered", "shown"} \/ x.got # 0,
         uiOutput' \in Client \cup {NoClient}, answered' = answered
  PROVE  UiInv'
<1>1. /\ DOMAIN questions' = DOMAIN questions /\ questions' \in Seq(Question)
      /\ questions'[q] = x
      /\ \A p \in DOMAIN questions : p # q => questions'[p] = questions[p]
      /\ \A p \in DOMAIN questions : questions'[p].id = questions[p].id
  BY DEF UiInv, UiTyped
<1>2. \/ /\ uiPending' = uiPending
         /\ x.state \in {"registered", "shown"} /\ x.got = 0 =>
              questions[q].state \in {"registered", "shown"} /\ questions[q].got = 0
      \/ /\ DOMAIN uiPending' = DOMAIN uiPending \ {x.id}
         /\ \A k \in DOMAIN uiPending : k # x.id => uiPending'[k] = uiPending[k]
         /\ x.state \notin {"registered", "shown"} \/ x.got # 0
  BY DEF Drop
<1>3. UiTyped'
  BY <1>1, <1>2 DEF UiInv, UiTyped
<1>4. \A k \in DOMAIN uiPending' :
        uiPending'[k] \in DOMAIN questions' /\ questions'[uiPending'[k]].id = k
  BY <1>1, <1>2 DEF UiInv, Registered
<1>5. ASSUME NEW p \in DOMAIN questions',
             questions'[p].state \in {"registered", "shown"}, questions'[p].got = 0, OwnId(p)'
      PROVE  /\ questions'[p].id \in DOMAIN uiPending'
             /\ uiPending'[questions'[p].id] = p
             /\ p \notin answered'
  <2>1. OwnId(p)
    BY <1>1, <1>5 DEF OwnId
  <2>2. questions[p].state \in {"registered", "shown"} /\ questions[p].got = 0
        /\ (p = q => uiPending' = uiPending)
    BY <1>1, <1>2, <1>5
  <2>3. /\ questions[p].id \in DOMAIN uiPending
        /\ uiPending[questions[p].id] = p
        /\ p \notin answered
    BY <1>1, <2>1, <2>2 DEF UiInv, Registered
  <2>4. p # q => questions[p].id # x.id
    BY <1>1, <2>1 DEF OwnId
  <2> QED
    BY <1>1, <1>2, <2>2, <2>3, <2>4
<1> QED
  BY <1>3, <1>4, <1>5 DEF UiInv, Registered

\* An answer goes to whoever waits under the ID, and nobody else does then.
LEMMA AnswerKeeps ==
  ASSUME UiInv, NEW q \in DOMAIN questions, Answer(q)
  PROVE  UiInv'
<1> DEFINE id == questions[q].id
           w == uiPending[id]
<1>0. /\ \A p \in DOMAIN questions : questions[p] \in Question /\ p \in Nat /\ p # 0
      /\ q \in Nat
      /\ answered' = answered \cup {q} /\ uiOutput' = uiOutput
      /\ questions[q].state \in {"shown", "canceled"}
  BY DEF UiInv, UiTyped, Answer
<1>1. CASE id \in DOMAIN uiPending
  <2>1. /\ w \in DOMAIN questions /\ questions[w].id = id
        /\ questions' = [questions EXCEPT ![w] = [questions[w] EXCEPT !.got = q]]
        /\ uiPending' = Drop(id)
    BY <1>1 DEF Answer, UiInv, Registered
  <2> DEFINE x == [questions[w] EXCEPT !.got = q]
  <2>2. x \in Question /\ x.id = id /\ x.got = q /\ questions' = [questions EXCEPT ![w] = x]
    BY <1>0, <2>1 DEF Question
  <2> HIDE DEF x
  <2>3. /\ DOMAIN questions' = DOMAIN questions /\ questions' \in Seq(Question)
        /\ questions'[w].id = id /\ questions'[w].got = q
        /\ \A p \in DOMAIN questions : p # w => questions'[p] = questions[p]
    BY <2>1, <2>2 DEF UiInv, UiTyped
  <2>4. /\ DOMAIN uiPending' = DOMAIN uiPending \ {id}
        /\ \A k \in DOMAIN uiPending : k # id => uiPending'[k] = uiPending[k]
    BY <2>1 DEF Drop
  <2> HIDE DEF w
  <2>5. UiTyped'
    BY <1>0, <2>3, <2>4 DEF UiInv, UiTyped
  <2>6. \A k \in DOMAIN uiPending' :
          uiPending'[k] \in DOMAIN questions' /\ questions'[uiPending'[k]].id = k
    BY <2>1, <2>3, <2>4 DEF UiInv, Registered
  <2>7. ASSUME NEW p \in DOMAIN questions',
               questions'[p].state \in {"registered", "shown"}, questions'[p].got = 0, OwnId(p)'
        PROVE  /\ questions'[p].id \in DOMAIN uiPending'
               /\ uiPending'[questions'[p].id] = p
               /\ p \notin answered'
    <3>1. p # w /\ questions'[p] = questions[p] /\ p \in DOMAIN questions
      BY <1>0, <2>3, <2>7
    <3>2. OwnId(p)
      BY <2>1, <2>3, <2>7, <3>1 DEF OwnId
    <3>3. questions[p].id # id
      BY <2>1, <3>1, <3>2 DEF OwnId
    <3>4. /\ questions[p].id \in DOMAIN uiPending
          /\ uiPending[questions[p].id] = p
          /\ p \notin answered
      BY <2>7, <3>1, <3>2 DEF UiInv, Registered
    <3> QED
      BY <1>0, <2>4, <3>1, <3>3, <3>4
  <2> QED
    BY <2>5, <2>6, <2>7 DEF UiInv, Registered
<1>2. CASE id \notin DOMAIN uiPending
  <2>1. questions' = questions /\ uiPending' = uiPending
    BY <1>2 DEF Answer
  <2>2. UiTyped'
    BY <1>0, <2>1 DEF UiInv, UiTyped
  <2>3. ASSUME NEW p \in DOMAIN questions,
               questions[p].state \in {"registered", "shown"}, questions[p].got = 0, OwnId(p)
        PROVE  /\ questions[p].id \in DOMAIN uiPending
               /\ uiPending[questions[p].id] = p
               /\ p \notin answered'
    BY <1>0, <1>2, <2>3 DEF UiInv, Registered
  <2>4. ASSUME NEW p, OwnId(p)'
        PROVE  OwnId(p)
    BY <2>1, <2>4 DEF OwnId
  <2> QED
    BY <2>1, <2>2, <2>3, <2>4 DEF UiInv, Registered
<1> QED
  BY <1>1, <1>2

\* A question is shown, received, withdrawn, or cannot be shown.
LEMMA QuestionKeeps ==
  ASSUME UiInv, NEW q \in DOMAIN questions, Show(q) \/ Receive(q) \/ Withdraw(q)
  PROVE  UiInv'
<1>1. questions[q] \in Question /\ uiOutput' = uiOutput /\ answered' = answered
      /\ uiOutput' \in Client \cup {NoClient}
  BY DEF Show, Receive, Withdraw, UiInv, UiTyped
<1>2. \A s \in {"failed", "shown", "done", "canceled"} :
        /\ [questions[q] EXCEPT !.state = s] \in Question
        /\ [questions[q] EXCEPT !.state = s].id = questions[q].id
        /\ [questions[q] EXCEPT !.state = s].state = s
        /\ [questions[q] EXCEPT !.state = s].got = questions[q].got
  BY <1>1 DEF Question
<1>3. PICK s \in {"failed", "shown", "done", "canceled"} :
        /\ questions' = [questions EXCEPT ![q] = [questions[q] EXCEPT !.state = s]]
        /\ \/ uiPending' = uiPending /\ s = "done"
           \/ uiPending' = uiPending /\ s = "shown" /\ questions[q].state = "registered"
           \/ uiPending' = Drop(questions[q].id) /\ s \in {"failed", "canceled"}
  BY DEF Show, Receive, Withdraw
<1> DEFINE x == [questions[q] EXCEPT !.state = s]
<1>4. /\ x \in Question /\ x.id = questions[q].id /\ x.state = s /\ x.got = questions[q].got
      /\ questions' = [questions EXCEPT ![q] = x]
  BY <1>2, <1>3
<1> HIDE DEF x
<1>5. \/ /\ uiPending' = uiPending
         /\ x.state \in {"registered", "shown"} /\ x.got = 0 =>
              questions[q].state \in {"registered", "shown"} /\ questions[q].got = 0
      \/ /\ uiPending' = Drop(x.id)
         /\ x.state \notin {"registered", "shown"} \/ x.got # 0
  BY <1>3, <1>4
<1> QED
  BY <1>1, <1>4, <1>5, MovesKeep

-----------------------------------------------------------------------------
\* Every step of the server keeps both invariants.
LEMMA RpcStep ==
  ASSUME RpcInv, UiInv, [RpcNext]_rpcVars
  PROVE  RpcInv' /\ UiInv'
<1>1. CASE UNCHANGED rpcVars
  <2>1. RpcInv'
    BY <1>1 DEF rpcVars, RpcInv, RpcTyped, LinesOwn, Handled, GoroutineRuns, RunnerPolls,
               LinesInOrder, DoneRun, AcceptedFollowed, Followed, Ended
  <2>2. UiInv'
    BY <1>1 DEF rpcVars, UiInv, UiTyped, Registered, OwnId
  <2> QED
    BY <2>1, <2>2
<1>2. ASSUME NEW c \in Client,
             \/ Connect(c) \/ HangUp(c) \/ EndOfInput(c) \/ Drained(c)
             \/ FindActive(c, "steer") \/ FindActive(c, "abort")
             \/ NewSession(c) \/ SwitchSession(c) \/ ActivateSession(c)
             \/ SetMode(c) \/ SetQueueModes(c)
      PROVE  RpcInv' /\ UiInv'
  <2>1. RpcTyped'
    BY <1>2, TypedConnections, TypedModes DEF RpcInv
  <2>2. RpcInv'
    BY <1>2, <2>1, ConnectionFramed
  <2>3. /\ questions' = questions /\ uiPending' = uiPending /\ answered' = answered
        /\ uiOutput' = uiOutput \/ uiOutput' = c
    BY <1>2 DEF Connect, HangUp, EndOfInput, Drained, FindActive, NewSession, SwitchSession,
                ActivateSession, SetMode, SetQueueModes, rpcUi
  <2>4. UiInv'
    BY <2>3 DEF UiInv, UiTyped, Registered, OwnId
  <2> QED
    BY <2>2, <2>4
<1>3. ASSUME NEW c \in Client,
             Submit(c) \/ Accept(c) \/ Start(c) \/ SteerActive(c) \/ AbortActive(c)
      PROVE  RpcInv' /\ UiInv'
  <2>1. RpcTyped'
    BY <1>3, TypedPrompts DEF RpcInv
  <2>2. RpcInv'
    BY <1>3, <2>1, SubmitFramed, AcceptFramed, StartFramed, ActiveFramed
  <2>3. UNCHANGED rpcUi
    BY <1>3 DEF Submit, Accept, Start, SteerActive, AbortActive
  <2>4. UiInv'
    BY <2>3 DEF rpcUi, UiInv, UiTyped, Registered, OwnId
  <2> QED
    BY <2>2, <2>4
<1>4. ASSUME NEW t \in DOMAIN prompts,
             \/ ClaimOldest(t) \/ ClaimFails(t) \/ Delta(t) \/ RunPromptEnds(t)
             \/ \E failed \in BOOLEAN : TurnEnds(t, failed)
      PROVE  RpcInv' /\ UiInv'
  <2>1. RpcTyped'
    BY <1>4, TypedTurns DEF RpcInv
  <2>2. RpcInv'
    BY <1>4, <2>1, DeltaFramed, EndFramed, TurnFramed
  <2>3. UNCHANGED rpcUi
    BY <1>4 DEF ClaimOldest, ClaimFails, Delta, TurnEnds, RunPromptEnds
  <2>4. UiInv'
    BY <2>3 DEF rpcUi, UiInv, UiTyped, Registered, OwnId
  <2> QED
    BY <2>2, <2>4
<1>5. ASSUME \/ \E named \in BOOLEAN : Ask(named)
             \/ \E q \in DOMAIN questions : Show(q) \/ Answer(q) \/ Receive(q) \/ Withdraw(q)
      PROVE  RpcInv' /\ UiInv'
  <2>1. UiInv'
    BY <1>5, AskKeeps, AnswerKeeps, QuestionKeeps
  <2>2. UNCHANGED <<handler, arg, gone, written, rpcLink, prompts, rpcModes>>
    BY <1>5 DEF Ask, Show, Answer, Receive, Withdraw
  <2>3. RpcInv'
    BY <2>2 DEF rpcLink, rpcModes, RpcInv, RpcTyped, LinesOwn, Handled, GoroutineRuns, RunnerPolls,
               LinesInOrder, DoneRun, AcceptedFollowed, Followed, Ended
  <2> QED
    BY <2>1, <2>3
<1> QED
  BY <1>1, <1>2, <1>3, <1>4, <1>5 DEF RpcNext

(***************************************************************************)
(* What each connection has been written, who works on which prompt, and   *)
(* which question waits under which ID.                                    *)
(***************************************************************************)
THEOREM RpcInvariant == RpcSpec => [](RpcInv /\ UiInv)
<1>1. RpcInit => UiInv
  BY DEF RpcInit, UiInv, UiTyped, Registered
<1>2. RpcInit => RpcInv
  BY InitRpc
<1>3. (RpcInv /\ UiInv) /\ [RpcNext]_rpcVars => (RpcInv /\ UiInv)'
  BY RpcStep
<1> QED
  BY <1>1, <1>2, <1>3, PTL DEF RpcSpec

(***************************************************************************)
(* The lines about a prompt come in their order, an end is the last of     *)
(* them, "done" only after its own turn was run, and an accepted prompt    *)
(* has a goroutine until it is written its end (which may be the error of  *)
(* another's turn): for any number of connections that prompt, abort,      *)
(* switch and hang up, whosever turns the goroutines run.                  *)
(***************************************************************************)
THEOREM RpcStreamFramed == RpcSpec => []StreamFramed
<1>1. RpcInv => StreamFramed
  BY FramedParts DEF RpcInv
<1> QED
  BY <1>1, RpcInvariant, PTL

(***************************************************************************)
(* An answer reaches the question that waits for it, whatever times out,   *)
(* is withdrawn or asked meanwhile, unless two questions share an ID.      *)
(***************************************************************************)
THEOREM RpcAnswersReach == RpcSpec => []AnswersReach
<1>1. UiInv => AnswersReach
  BY DEF UiInv, UiTyped, Registered, OwnId, AnswersReach
<1> QED
  BY <1>1, RpcInvariant, PTL

-----------------------------------------------------------------------------
(* The choice of the provider.                                              *)

\* KeyOwn of any client in any environment.
Own(c, e) ==
  /\ c.key.from # "shared" => c.key \in {NoKey, ResolveKey(e, c.name)}
  /\ c.name \in ResponsesNames \ {"openai", "openai-codex"} => c.wire = "responses"
  /\ c.name \in GoogleNames => c.wire = "google"
  /\ c.name = "amazon-bedrock" <=> c.wire = "bedrock"
  /\ c.name = "radius" <=> c.wire = "messages"

\* A client has these fields.
Shaped(c) ==
  c = [wire |-> c.wire, name |-> c.name, model |-> c.model, key |-> c.key,
       thinking |-> c.thinking, retries |-> c.retries]

\* A change of anything but name, key and wire.
LEMMA ChangesKeep ==
  ASSUME NEW c, NEW e, Shaped(c), Own(c, e), NEW x
  PROVE  /\ Shaped(SetModel(c, x)) /\ Own(SetModel(c, x), e)
         /\ Shaped(SetThinkingLevel(c, x)) /\ Own(SetThinkingLevel(c, x), e)
         /\ Shaped(SetRetryEnabled(c, x)) /\ Own(SetRetryEnabled(c, x), e)
<1> DEFINE With(m, th, r) ==
      [wire |-> c.wire, name |-> c.name, model |-> m, key |-> c.key, thinking |-> th, retries |-> r]
<1>1. \A m, th, r : Shaped(With(m, th, r)) /\ Own(With(m, th, r), e)
  BY DEF Shaped, Own
<1>2. [c EXCEPT !.model = x] = With(x, c.thinking, c.retries)
  BY DEF Shaped
<1>3. [c EXCEPT !.thinking = x] = With(c.model, x, c.retries)
  BY DEF Shaped
<1>4. \A r : [c EXCEPT !.retries = r] = With(c.model, c.thinking, r)
  BY DEF Shaped
<1> HIDE DEF With
<1>5. Shaped(SetModel(c, x)) /\ Own(SetModel(c, x), e)
  BY <1>1, <1>2 DEF SetModel
<1>6. Shaped(SetThinkingLevel(c, x)) /\ Own(SetThinkingLevel(c, x), e)
  BY <1>1, <1>3 DEF SetThinkingLevel
<1>7. Shaped(SetRetryEnabled(c, x)) /\ Own(SetRetryEnabled(c, x), e)
  <2>1. SetRetryEnabled(c, x) = c \/ \E r : SetRetryEnabled(c, x) = [c EXCEPT !.retries = r]
    BY DEF SetRetryEnabled
  <2> QED
    BY <1>1, <1>4, <2>1
<1> QED
  BY <1>5, <1>6, <1>7

\* The wire of a name.
LEMMA WireFits ==
  ASSUME NEW e, NEW n, NEW m, NEW w, w = WireOf(e, n, m)
  PROVE  /\ n \in ResponsesNames => w = "responses"
         /\ n \in GoogleNames => w = "google"
         /\ n = "amazon-bedrock" <=> w = "bedrock"
         /\ n = "radius" <=> w = "messages"
<1>1. \A api : Protocol(api) \in {"responses", "anthropic", "completions"}
  BY DEF Protocol
<1>2. copilotConfigured(e, m) \in {"responses", "anthropic", "completions"}
  BY <1>1 DEF copilotConfigured
<1> QED
  BY <1>1, <1>2 DEF WireOf, ResponsesNames, AnthropicNames, GoogleNames

\* A client whose name, wire and key fit.
LEMMA BuiltOwn ==
  ASSUME NEW e, NEW w, NEW n, NEW m, NEW k,
         k.from # "shared" => k \in {NoKey, ResolveKey(e, n)},
         n \in ResponsesNames \ {"openai", "openai-codex"} => w = "responses",
         n \in GoogleNames => w = "google",
         n = "amazon-bedrock" <=> w = "bedrock",
         n = "radius" <=> w = "messages"
  PROVE  LET c == Built(e, w, n, m, k) IN Shaped(c) /\ Own(c, e)
  BY DEF Built, Shaped, Own

\* The client of the wire and the key that a name has.
LEMMA WiredOwn ==
  ASSUME NEW e, NEW n, NEW m
  PROVE  LET c == Built(e, WireOf(e, n, m), n, m, ResolveKey(e, n)) IN Shaped(c) /\ Own(c, e)
<1> DEFINE w == WireOf(e, n, m)
<1>1. /\ n \in ResponsesNames => w = "responses"
      /\ n \in GoogleNames => w = "google"
      /\ n = "amazon-bedrock" <=> w = "bedrock"
      /\ n = "radius" <=> w = "messages"
  BY WireFits
<1> HIDE DEF w
<1>2. Shaped(Built(e, w, n, m, ResolveKey(e, n))) /\ Own(Built(e, w, n, m, ResolveKey(e, n)), e)
  BY <1>1, BuiltOwn
<1> QED
  BY <1>2 DEF w

\* A key that is not the shared one is the provider's own, whether or not the
\* shared one may be used.
LEMMA KeyIsOwn ==
  ASSUME NEW e, NEW n, NEW shared \in BOOLEAN, n \in GenericNames => shared,
         KeyFor(e, n, shared).from # "shared"
  PROVE  KeyFor(e, n, shared) \in {NoKey, ResolveKey(e, n)}
<1>1. CASE shared = TRUE
  <2>1. KeyFor(e, n, TRUE).from # "shared"
    BY <1>1
  <2>2. KeyFor(e, n, TRUE) = KeyFor(e, n, FALSE)
    BY <2>1 DEF KeyFor
  <2>3. CASE n \in GenericNames
    <3>1. (n \in GenericNames) = TRUE
      BY <2>3
    <3> QED
      BY <1>1, <3>1 DEF ResolveKey
  <2>4. CASE n \notin GenericNames
    <3>1. (n \in GenericNames) = FALSE
      BY <2>4
    <3> QED
      BY <1>1, <2>2, <3>1 DEF ResolveKey
  <2> QED
    BY <2>3, <2>4
<1>2. CASE shared = FALSE
  <2>1. (n \in GenericNames) = FALSE
    BY <1>2
  <2> QED
    BY <1>2, <2>1 DEF ResolveKey
<1> QED
  BY <1>1, <1>2

\* The chat completions client, for a name that the others do not claim.
LEMMA FromEnvOwn ==
  ASSUME NEW e,
         \/ e.provider \in {"", "kimi-coding", "cloudflare-workers-ai", "cloudflare-ai-gateway",
                            "openai-codex"} \cup GenericNames
         \/ e.provider \notin ProviderNames
  PROVE  Shaped(NewFromEnv(e)) /\ Own(NewFromEnv(e), e)
<1> DEFINE n == IF e.provider # "" THEN e.provider
                ELSE IF e.model = "vendor/chat" THEN "openrouter" ELSE "openai"
           shared == n \notin {"cloudflare-workers-ai", "cloudflare-ai-gateway"}
           m == IF e.model = "" THEN "chat" ELSE e.model
           k == KeyFor(e, n, shared)
<1>1. n \notin ResponsesNames \ {"openai", "openai-codex"} /\ n \notin GoogleNames
      /\ n # "amazon-bedrock" /\ n # "radius"
  BY DEF ProviderNames, ResponsesNames, AnthropicNames, GoogleNames, GenericNames, OtherNames
<1>2. n \in GenericNames => shared
  BY DEF GenericNames
<1>3. k.from # "shared" => k \in {NoKey, ResolveKey(e, n)}
  BY <1>2, KeyIsOwn
<1>4. NewFromEnv(e) = Built(e, "completions", n, m, k)
  BY Zenon DEF NewFromEnv
<1> HIDE DEF n, shared, m, k
<1>5. Shaped(Built(e, "completions", n, m, k)) /\ Own(Built(e, "completions", n, m, k), e)
  BY <1>1, <1>3, BuiltOwn
<1> QED
  BY <1>4, <1>5

\* The client a process starts with.
LEMMA ConfiguredOwn ==
  ASSUME NEW e
  PROVE  Shaped(ConfiguredFromEnv(e)) /\ Own(ConfiguredFromEnv(e), e)
  BY FromEnvOwn, WiredOwn DEF ConfiguredFromEnv

\* The client of a configured provider.
LEMMA NewOwn ==
  ASSUME NEW e, NEW n, NEW m, NewConfigured(e, n, m) # Unbuilt
  PROVE  Shaped(NewConfigured(e, n, m)) /\ Own(NewConfigured(e, n, m), e)
  BY WiredOwn DEF NewConfigured

\* The settings change the client once, at startup.
LEMMA SettingsOwn ==
  ASSUME Shaped(client), Own(client, env), ApplySettings
  PROVE  Shaped(client') /\ Own(client', env)
<1> DEFINE chosen == IF env.provider # "" \/ settings.provider = "" THEN Unbuilt
                     ELSE NewConfigured(env, settings.provider, settings.model)
           c1 == IF chosen = Unbuilt THEN client ELSE chosen
           c2 == IF env.model = "" /\ settings.model # "" THEN SetModel(c1, settings.model) ELSE c1
           c3 == IF env.thinking = "" /\ settings.thinking # ""
                 THEN SetThinkingLevel(c2, settings.thinking) ELSE c2
<1>1. Shaped(c1) /\ Own(c1, env)
  BY NewOwn
<1> HIDE DEF c1
<1>2. Shaped(c2) /\ Own(c2, env)
  BY <1>1, ChangesKeep
<1> HIDE DEF c2
<1>3. Shaped(c3) /\ Own(c3, env)
  BY <1>2, ChangesKeep
<1>4. client' = IF settings.retry THEN SetRetryEnabled(c3, TRUE) ELSE c3
  BY DEF ApplySettings, c1, c2
<1> HIDE DEF c3
<1> QED
  BY <1>3, <1>4, ChangesKeep

(***************************************************************************)
(* No selection mixes the name of one provider with the key or the wire of *)
(* another.                                                                *)
(***************************************************************************)
THEOREM SelectKeyOwn == SelectSpec => []KeyOwn
<1> DEFINE SelectInv == Shaped(client) /\ Own(client, env)
<1>1. SelectInit => SelectInv
  BY ConfiguredOwn DEF SelectInit
<1>2. SelectInv /\ [SelectNext]_selectVars => SelectInv'
  <2> SUFFICES ASSUME SelectInv, [SelectNext]_selectVars PROVE SelectInv'
    OBVIOUS
  <2>0. env' = env
    BY DEF SelectNext, selectVars, ApplySettings, Turn, CommandSetModel, CommandSetThinking,
           CommandSetRetry, BeginListing, ListResponses, ListGoogle, ListCompletions,
           ListBedrock, ListRadius, ListAnthropic, ListFails, CycleModel, NextPage, Listed
  <2>1. CASE client' = client
    BY <2>0, <2>1
  <2>2. CASE ApplySettings
    BY <2>0, <2>2, SettingsOwn
  <2>3. ASSUME NEW s \in Selections, CommandSetModel(s[1], s[2])
        PROVE  SelectInv'
    BY <2>0, <2>3, NewOwn, ChangesKeep DEF CommandSetModel
  <2>4. ASSUME NEW level \in {"off", "high"}, CommandSetThinking(level)
        PROVE  SelectInv'
    BY <2>0, <2>4, ChangesKeep DEF CommandSetThinking
  <2>5. ASSUME NEW enabled \in BOOLEAN, CommandSetRetry(enabled)
        PROVE  SelectInv'
    BY <2>0, <2>5, ChangesKeep DEF CommandSetRetry
  <2>6. ASSUME NEW backward \in BOOLEAN, CycleModel(backward)
        PROVE  SelectInv'
    BY <2>0, <2>6, ChangesKeep DEF CycleModel
  <2>7. ASSUME \/ UNCHANGED selectVars
               \/ Turn \/ BeginListing \/ ListResponses \/ ListGoogle \/ ListCompletions
               \/ ListBedrock \/ ListRadius \/ ListAnthropic \/ ListFails
        PROVE  client' = client
    BY <2>7 DEF selectVars, Turn, BeginListing, ListResponses, ListGoogle, ListCompletions,
                ListBedrock, ListRadius, ListAnthropic, ListFails, NextPage, Listed
  <2> QED
    BY <2>1, <2>2, <2>3, <2>4, <2>5, <2>6, <2>7 DEF SelectNext
<1>3. SelectInv => KeyOwn
  BY DEF Own, KeyOwn
<1> QED
  BY <1>1, <1>2, <1>3, PTL DEF SelectSpec

-----------------------------------------------------------------------------
(* Extensions.                                                              *)

Lines == {"allow", "block", "error", "question"}

ShapesOK ==
  /\ trusted \in BOOLEAN
  /\ toLoad \in Seq(Ext)
  /\ hooks \in Seq(Ext)
  /\ nodes \subseteq Ext
  /\ lock \in [Ext -> ToolCall \cup {NoCall}]
  /\ handling \in [Ext -> SUBSET ToolCall]
  /\ output \in [Ext -> Seq(Lines)]
  /\ readers \in [Ext -> SUBSET ToolCall]
  /\ verdict \in [Ext \X ToolCall -> {"none", "allow", "block", "error"}]
  /\ hookAt \in [ToolCall -> Nat]
  /\ callState \in [ToolCall -> {"new", "hook", "waits", "refused", "executed"}]
  /\ hasUi \in BOOLEAN
  /\ canceledAt \subseteq Ext

\* What is still to load is the rest of what was found; an extension is
\* registered once, and only after it was looked at.
LoadedOnce ==
  /\ Len(toLoad) <= Len(Found)
  /\ \A i \in 1 .. Len(toLoad) : toLoad[i] = Found[Len(Found) - Len(toLoad) + i]
  /\ \A i \in DOMAIN hooks : hooks[i] \in Seen
  /\ \A i, j \in DOMAIN hooks : hooks[i] = hooks[j] => i = j

\* The calls begin when the extensions are loaded, and a call between its first
\* hook and its last is at one of them.
HookInRange ==
  \A c \in ToolCall :
    /\ toLoad # <<>> => callState[c] = "new"
    /\ callState[c] = "new" => hookAt[c] = 0
    /\ callState[c] \in {"hook", "waits"} => hookAt[c] \in 1 .. Len(hooks)
    /\ callState[c] = "refused" => hookAt[c] \in 0 .. Len(hooks) + 1
    /\ callState[c] = "executed" => hookAt[c] = Len(hooks) + 1

\* A call waits at an extension exactly when it holds the lock of its bridge.
LockWaits ==
  /\ \A e \in Ext : lock[e] # NoCall => Waits(e, lock[e])
  /\ \A c \in ToolCall : callState[c] = "waits" => lock[Hook(c)] = c

\* A dead process works on nothing.
DeadIdle == \A e \in Ext : e \notin nodes => handling[e] = {}

\* The request of a call at an extension that nobody left: only its goroutine
\* reads, and its answer is the last line of the pipe, behind questions.
Alone(e) ==
  /\ lock[e] = NoCall => handling[e] = {} /\ output[e] = <<>> /\ readers[e] = {}
  /\ lock[e] # NoCall =>
       /\ readers[e] = {lock[e]}
       /\ handling[e] \subseteq {lock[e]}
       /\ \A i \in DOMAIN output[e] :
            output[e][i] # "question" =>
              /\ i = Len(output[e])
              /\ handling[e] = {}
              /\ output[e][i] = verdict[<<e, lock[e]>>]

\* Who has a question in the pipe has asked.
QuestionsAsked ==
  \A e \in Ext : \A i \in DOMAIN output[e] : output[e][i] = "question" => e \in askers

OneRequest == \A e \in Ext \ Astray : Alone(e)

\* The hooks that a call has passed have allowed it.
PassedApproved ==
  \A c \in ToolCall : \A k \in DOMAIN hooks :
    /\ callState[c] \in {"hook", "waits", "executed"}
    /\ k < hookAt[c]
    /\ hooks[k] \notin Astray
    => verdict[<<hooks[k], c>>] = "allow"

ExtensionsInv ==
  /\ ShapesOK
  /\ LoadedOnce
  /\ HookInRange
  /\ LockWaits
  /\ DeadIdle
  /\ QuestionsAsked
  /\ OneRequest
  /\ PassedApproved

-----------------------------------------------------------------------------
\* A call between its first hook and its last is at an extension.
LEMMA AtAnExtension ==
  ASSUME ShapesOK, HookInRange, NEW c \in ToolCall, callState[c] \in {"hook", "waits"}
  PROVE  Hook(c) \in Ext /\ hookAt[c] \in DOMAIN hooks /\ toLoad = <<>>
BY DEF ShapesOK, HookInRange, Hook

\* Nothing has happened before the extensions are loaded.
LEMMA InitInv == ExtensionsInit => ExtensionsInv
<1> SUFFICES ASSUME ExtensionsInit PROVE ExtensionsInv
  OBVIOUS
<1> USE ExtensionsAssumption DEF ExtensionsInit
<1>1. ShapesOK
  BY DEF ShapesOK
<1>2. LoadedOnce
  BY DEF LoadedOnce
<1>3. HookInRange
  BY DEF HookInRange
<1>4. LockWaits /\ DeadIdle /\ QuestionsAsked /\ OneRequest /\ PassedApproved
  BY DEF LockWaits, DeadIdle, QuestionsAsked, OneRequest, Alone, PassedApproved
<1> QED
  BY <1>1, <1>2, <1>3, <1>4 DEF ExtensionsInv

\* What the next hook or a refusal does to the places of the calls.
LEMMA CallPlacesTyped ==
  ASSUME ShapesOK, NEW c \in ToolCall, ToolApproved(c) \/ ToolRefused(c)
  PROVE  /\ hookAt' \in [ToolCall -> Nat]
         /\ callState' \in [ToolCall -> {"new", "hook", "waits", "refused", "executed"}]
         /\ \A d \in ToolCall : d # c => hookAt'[d] = hookAt[d] /\ callState'[d] = callState[d]
<1>1. \E at \in Nat, next \in {"hook", "executed", "refused"} :
        /\ hookAt' = [hookAt EXCEPT ![c] = at]
        /\ callState' = [callState EXCEPT ![c] = next]
  <2>1. CASE ToolApproved(c)
    <3> DEFINE next == IF hookAt[c] = Len(hooks) THEN "executed" ELSE "hook"
    <3>1. hookAt[c] + 1 \in Nat /\ next \in {"hook", "executed", "refused"}
      BY DEF ShapesOK
    <3>2. /\ hookAt' = [hookAt EXCEPT ![c] = hookAt[c] + 1]
          /\ callState' = [callState EXCEPT ![c] = next]
      BY <2>1 DEF ToolApproved
    <3> HIDE DEF next
    <3> QED
      BY <3>1, <3>2
  <2>2. CASE ToolRefused(c)
    <3>1. hookAt' = [hookAt EXCEPT ![c] = hookAt[c]]
      BY <2>2 DEF ShapesOK, ToolRefused
    <3> QED
      BY <2>2, <3>1 DEF ShapesOK, ToolRefused
  <2> QED
    BY <2>1, <2>2
<1> QED
  BY <1>1 DEF ShapesOK

\* A line is put behind those in the pipe.
LEMMA PutTyped ==
  ASSUME ShapesOK, NEW e \in Ext, NEW line \in Lines, PutLine(e, line)
  PROVE  output' \in [Ext -> Seq(Lines)]
BY DEF ShapesOK, PutLine

\* Reading takes the first line out of the pipe.
LEMMA TakeTyped ==
  ASSUME ShapesOK, NEW e \in Ext, output[e] # <<>>,
         output' = [output EXCEPT ![e] = Tail(@)]
  PROVE  /\ output' \in [Ext -> Seq(Lines)]
         /\ Head(output[e]) \in Lines
         /\ Len(output[e]) \in Nat /\ 1 \in DOMAIN output[e]
         /\ Head(output[e]) = output[e][1]
         /\ Len(output'[e]) = Len(output[e]) - 1
         /\ \A i \in DOMAIN output'[e] :
              i + 1 \in DOMAIN output[e] /\ output'[e][i] = output[e][i + 1]
<1>1. output[e] \in Seq(Lines) /\ Len(output[e]) \in Nat \ {0}
  BY DEF ShapesOK
<1>2. output'[e] = Tail(output[e])
  BY DEF ShapesOK
<1>3. Tail(output[e]) \in Seq(Lines) /\ Head(output[e]) \in Lines
  BY <1>1
<1>4. /\ Len(Tail(output[e])) = Len(output[e]) - 1
      /\ \A i \in 1 .. Len(output[e]) - 1 : Tail(output[e])[i] = output[e][i + 1]
      /\ Head(output[e]) = output[e][1]
  BY <1>1
<1> QED
  BY <1>1, <1>2, <1>3, <1>4 DEF ShapesOK

\* A goroutine that reads an answer, or drops it, keeps the types.
LEMMA AnsweredTyped ==
  ASSUME ShapesOK, NEW e \in Ext, NEW c \in ToolCall, NEW how, Answered(e, c, how)
  PROVE  /\ lock' \in [Ext -> ToolCall \cup {NoCall}]
         /\ hookAt' \in [ToolCall -> Nat]
         /\ callState' \in [ToolCall -> {"new", "hook", "waits", "refused", "executed"}]
<1>1. CASE Waits(e, c)
  <2>1. ToolApproved(c) \/ ToolRefused(c)
    BY <1>1 DEF Answered
  <2> QED
    BY <1>1, <2>1, CallPlacesTyped DEF Answered, ShapesOK
<1>2. CASE ~Waits(e, c)
  BY <1>2 DEF Answered, ShapesOK
<1> QED
  BY <1>1, <1>2

\* Every step keeps the types.
LEMMA ShapesNext == ExtensionsInv /\ [ExtensionsNext]_extVars => ShapesOK'
<1> SUFFICES ASSUME ExtensionsInv, [ExtensionsNext]_extVars PROVE ShapesOK'
  OBVIOUS
<1>s. ShapesOK /\ HookInRange
  BY DEF ExtensionsInv
<1> USE <1>s, ExtensionsAssumption
<1>1. CASE LoadExtension
  <2>1. toLoad' \in Seq(Ext) /\ Head(toLoad) \in Ext /\ trusted' = trusted
    BY <1>1 DEF ShapesOK, LoadExtension
  <2>2. hooks' \in Seq(Ext) /\ nodes' \subseteq Ext
    <3>1. CASE UNCHANGED <<hooks, nodes>>
      BY <3>1 DEF ShapesOK
    <3>2. CASE /\ nodes' = nodes \cup {Head(toLoad)}
               /\ hooks' = Append(hooks, Head(toLoad))
      BY <2>1, <3>2 DEF ShapesOK
    <3> QED
      BY <1>1, <3>1, <3>2 DEF LoadExtension, StartBridge, RegisterBridge
  <2> QED
    BY <1>1, <2>1, <2>2 DEF ShapesOK, LoadExtension, bridgeVars
<1>2. ASSUME NEW c \in ToolCall, BeginToolCall(c) PROVE ShapesOK'
  BY <1>2, CallPlacesTyped DEF ShapesOK, BeginToolCall
<1>3. ASSUME NEW c \in ToolCall, CallBridge(c) PROVE ShapesOK'
  <2>1. Hook(c) \in Ext
    BY <1>3, AtAnExtension DEF CallBridge
  <2> QED
    BY <1>3, <2>1 DEF ShapesOK, CallBridge
<1>4. ASSUME NEW c \in ToolCall, CallDeadBridge(c) PROVE ShapesOK'
  BY <1>4, CallPlacesTyped DEF ShapesOK, CallDeadBridge
<1>5. ASSUME NEW c \in ToolCall, CancelCall(c) PROVE ShapesOK'
  <2>1. Hook(c) \in Ext
    BY <1>5, AtAnExtension DEF CancelCall
  <2> QED
    BY <1>5, <2>1, CallPlacesTyped DEF ShapesOK, CancelCall
<1>6. ASSUME NEW e \in Ext, NEW c \in ToolCall,
             NEW how \in {"allow", "block", "error"}, Decides(e, c, how)
      PROVE  ShapesOK'
  BY <1>6, PutTyped DEF ShapesOK, Decides, Lines
<1>7. ASSUME NEW e \in Ext, NEW c \in ToolCall, Asks(e, c) PROVE ShapesOK'
  BY <1>7, PutTyped DEF ShapesOK, Asks, Lines
<1>8. ASSUME NEW e \in Ext, NEW c \in ToolCall, ReadLine(e, c) PROVE ShapesOK'
  <2>1. output' \in [Ext -> Seq(Lines)]
    BY <1>8, TakeTyped DEF ReadLine
  <2>2. canceledAt' \subseteq Ext
    BY <1>8 DEF ShapesOK, ReadLine
  <2>3. readers' \in [Ext -> SUBSET ToolCall]
    BY <1>8, ZenonT(40) DEF ShapesOK, ReadLine
  <2>4. /\ lock' \in [Ext -> ToolCall \cup {NoCall}]
        /\ hookAt' \in [ToolCall -> Nat]
        /\ callState' \in [ToolCall -> {"new", "hook", "waits", "refused", "executed"}]
    <3>1. CASE UNCHANGED <<readers, lock, hookAt, callState>>
      BY <3>1 DEF ShapesOK
    <3>2. CASE \E how : Answered(e, c, how)
      BY <3>2, AnsweredTyped
    <3> QED
      BY <1>8, <3>1, <3>2 DEF ReadLine
  <2> QED
    BY <1>8, <2>1, <2>2, <2>3, <2>4 DEF ShapesOK, ReadLine
<1>9. ASSUME NEW e \in Ext, NEW c \in ToolCall, ReadEnd(e, c) PROVE ShapesOK'
  <2>1. /\ lock' \in [Ext -> ToolCall \cup {NoCall}]
        /\ hookAt' \in [ToolCall -> Nat]
        /\ callState' \in [ToolCall -> {"new", "hook", "waits", "refused", "executed"}]
    BY <1>9, AnsweredTyped DEF ReadEnd
  <2> QED
    BY <1>9, <2>1 DEF ShapesOK, ReadEnd
<1>10. ASSUME NEW e \in Ext, NodeDies(e) PROVE ShapesOK'
  BY <1>10 DEF ShapesOK, NodeDies
<1>11. CASE UNCHANGED extVars
  BY <1>11 DEF ShapesOK, extVars
<1> QED
  BY <1>1, <1>2, <1>3, <1>4, <1>5, <1>6, <1>7, <1>8, <1>9, <1>10, <1>11
     DEF ExtensionsNext

\* An extension is registered once, however often its file is found.
LEMMA LoadedNext == ExtensionsInv /\ [ExtensionsNext]_extVars => LoadedOnce'
<1> SUFFICES ASSUME ExtensionsInv, [ExtensionsNext]_extVars PROVE LoadedOnce'
  OBVIOUS
<1>0. Found \in Seq(Ext) /\ toLoad \in Seq(Ext) /\ hooks \in Seq(Ext) /\ LoadedOnce
  BY ExtensionsAssumption DEF ExtensionsInv, ShapesOK
<1>1. CASE LoadExtension
  <2> DEFINE at == Len(Found) - Len(toLoad)
  <2>1. /\ Len(toLoad) \in Nat \ {0} /\ Len(Found) \in Nat /\ at \in Nat
        /\ toLoad' = Tail(toLoad) /\ Head(toLoad) = toLoad[1]
        /\ at + 1 \in 1 .. Len(Found) /\ Head(toLoad) = Found[at + 1]
    BY <1>0, <1>1 DEF LoadExtension, LoadedOnce
  <2>2. /\ Len(toLoad') = Len(toLoad) - 1
        /\ \A i \in 1 .. Len(toLoad) - 1 : toLoad'[i] = toLoad[i + 1]
    BY <1>0, <2>1
  <2>3. Len(Found) - Len(toLoad') = at + 1
    BY <2>1, <2>2
  <2>4. Seen' = Seen \cup {Head(toLoad)}
    BY <2>1, <2>3 DEF Seen
  <2>5. \A i \in 1 .. Len(toLoad') : toLoad'[i] = Found[Len(Found) - Len(toLoad') + i]
    <3> SUFFICES ASSUME NEW i \in 1 .. Len(toLoad')
                 PROVE  toLoad'[i] = Found[at + 1 + i]
      BY <2>3
    <3>1. i + 1 \in 1 .. Len(toLoad) /\ toLoad'[i] = toLoad[i + 1]
      BY <2>1, <2>2
    <3>2. toLoad[i + 1] = Found[at + (i + 1)]
      BY <1>0, <3>1 DEF LoadedOnce
    <3>3. at + (i + 1) = at + 1 + i
      BY <2>1, <3>1
    <3> QED
      BY <3>1, <3>2, <3>3
  <2>6. CASE hooks' = hooks
    BY <1>0, <2>1, <2>2, <2>4, <2>5, <2>6 DEF LoadedOnce
  <2>7. CASE Head(toLoad) \notin Seen /\ hooks' = Append(hooks, Head(toLoad))
    <3>1. /\ \A i \in DOMAIN hooks' :
               \/ i \in DOMAIN hooks /\ hooks'[i] = hooks[i]
               \/ i = Len(hooks) + 1 /\ hooks'[i] = Head(toLoad)
      BY <1>0, <2>1, <2>7
    <3>2. \A i \in DOMAIN hooks' : hooks'[i] \in Seen'
      BY <1>0, <2>4, <3>1 DEF LoadedOnce
    <3>3. \A i, j \in DOMAIN hooks' : hooks'[i] = hooks'[j] => i = j
      BY <1>0, <2>7, <3>1 DEF LoadedOnce
    <3> QED
      BY <2>1, <2>2, <2>5, <3>2, <3>3 DEF LoadedOnce
  <2> QED
    BY <1>1, <2>6, <2>7 DEF LoadExtension, RegisterBridge
<1>2. CASE UNCHANGED <<toLoad, hooks>>
  BY <1>0, <1>2 DEF LoadedOnce, Seen
<1>3. LoadExtension \/ UNCHANGED <<toLoad, hooks>>
  BY ZenonT(40) DEF ExtensionsNext, BeginToolCall, CallBridge, CallDeadBridge, CancelCall,
         Decides, Asks, ReadLine, ReadEnd, NodeDies, extVars
<1> QED
  BY <1>1, <1>2, <1>3

-----------------------------------------------------------------------------
\* A call that waits holds the lock of the bridge it waits at, and no other.
LEMMA WaitsHolds ==
  ASSUME LockWaits, NEW e \in Ext, NEW c \in ToolCall, Waits(e, c)
  PROVE  lock[e] = c /\ \A d \in Ext : lock[d] = c => d = e
<1>1. lock[e] = c
  BY DEF LockWaits, Waits
<1>2. c # NoCall
  BY ExtensionsAssumption
<1> QED
  BY <1>1, <1>2 DEF LockWaits, Waits

\* What a goroutine makes of an answer: the call goes on or is refused, and lets
\* the bridge go; an answer that is dropped changes nothing.
LEMMA AnsweredCases ==
  ASSUME NEW e \in Ext, NEW c \in ToolCall, NEW how, Answered(e, c, how)
  PROVE  \/ ~Waits(e, c) /\ UNCHANGED <<lock, hookAt, callState>>
         \/ /\ Waits(e, c)
            /\ lock' = [lock EXCEPT ![e] = NoCall]
            /\ \/ how = "allow" /\ ToolApproved(c)
               \/ ToolRefused(c)
BY DEF Answered

\* The same of the answer in the line at hand, or of a question, which lets the
\* call go on when nobody passes it on.
LEMMA ReadLineCases ==
  ASSUME NEW e \in Ext, NEW c \in ToolCall, ReadLine(e, c)
  PROVE  \/ UNCHANGED <<lock, hookAt, callState>>
         \/ /\ Waits(e, c)
            /\ lock' = [lock EXCEPT ![e] = NoCall]
            /\ \/ /\ \/ Head(output[e]) = "allow"
                     \/ Head(output[e]) = "question" /\ ~hasUi
                  /\ ToolApproved(c)
               \/ ToolRefused(c)
<1> DEFINE line == Head(output[e])
           how == IF line # "question" THEN line ELSE IF hasUi THEN "error" ELSE "allow"
<1>1. UNCHANGED <<lock, hookAt, callState>> \/ Answered(e, c, how)
  BY DEF ReadLine
<1>2. how = "allow" => line = "allow" \/ (line = "question" /\ ~hasUi)
  OBVIOUS
<1> HIDE DEF how
<1> QED
  BY <1>1, <1>2, AnsweredCases

\* Which steps may change the place of a call, and how.
LEMMA PlaceSteps ==
  ASSUME ExtensionsInv, [ExtensionsNext]_extVars
  PROVE  \/ LoadExtension
         \/ UNCHANGED <<toLoad, hooks, hookAt, callState>>
         \/ \E c \in ToolCall :
              /\ UNCHANGED <<toLoad, hooks>>
              /\ toLoad = <<>>
              /\ \/ callState[c] = "new" /\ ToolApproved(c)
                 \/ callState[c] = "waits" /\ ToolApproved(c)
                 \/ callState[c] \in {"hook", "waits"} /\ ToolRefused(c)
                 \/ /\ callState[c] = "hook" /\ hookAt' = hookAt
                    /\ callState' = [callState EXCEPT ![c] = "waits"]
<1> DEFINE Goal ==
         \/ LoadExtension
         \/ UNCHANGED <<toLoad, hooks, hookAt, callState>>
         \/ \E c \in ToolCall :
              /\ UNCHANGED <<toLoad, hooks>>
              /\ toLoad = <<>>
              /\ \/ callState[c] = "new" /\ ToolApproved(c)
                 \/ callState[c] = "waits" /\ ToolApproved(c)
                 \/ callState[c] \in {"hook", "waits"} /\ ToolRefused(c)
                 \/ /\ callState[c] = "hook" /\ hookAt' = hookAt
                    /\ callState' = [callState EXCEPT ![c] = "waits"]
<1> SUFFICES Goal
  OBVIOUS
<1>0. ShapesOK /\ HookInRange
  BY DEF ExtensionsInv
<1>1. \A c \in ToolCall : callState[c] \in {"hook", "waits"} => toLoad = <<>>
  BY <1>0, AtAnExtension
<1>2. ASSUME NEW c \in ToolCall,
             BeginToolCall(c) \/ CallBridge(c) \/ CallDeadBridge(c) \/ CancelCall(c)
      PROVE  Goal
  BY <1>1, <1>2 DEF BeginToolCall, CallBridge, CallDeadBridge, CancelCall
<1>3. ASSUME NEW e \in Ext, NEW c \in ToolCall, ReadLine(e, c) PROVE Goal
  <2>1. UNCHANGED <<toLoad, hooks>>
    BY <1>3 DEF ReadLine
  <2> QED
    BY <1>1, <1>3, <2>1, ReadLineCases DEF Waits
<1>4. ASSUME NEW e \in Ext, NEW c \in ToolCall, ReadEnd(e, c) PROVE Goal
  <2>1. UNCHANGED <<toLoad, hooks>> /\ Answered(e, c, "error")
    BY <1>4 DEF ReadEnd
  <2> QED
    BY <1>1, <2>1, AnsweredCases DEF Waits
<1>5. ASSUME NEW e \in Ext, NEW c \in ToolCall,
             Asks(e, c) \/ \E how \in {"allow", "block", "error"} : Decides(e, c, how)
      PROVE  Goal
  BY <1>5 DEF Asks, Decides
<1>6. ASSUME NEW e \in Ext, NodeDies(e) PROVE Goal
  BY <1>6 DEF NodeDies
<1>7. CASE UNCHANGED extVars
  BY <1>7 DEF extVars
<1> QED
  BY <1>2, <1>3, <1>4, <1>5, <1>6, <1>7 DEF ExtensionsNext

\* The calls stay in the range of the hooks.
LEMMA HookInRangeNext ==
  ExtensionsInv /\ [ExtensionsNext]_extVars => HookInRange'
<1> SUFFICES ASSUME ExtensionsInv, [ExtensionsNext]_extVars PROVE HookInRange'
  OBVIOUS
<1>0. ShapesOK /\ HookInRange /\ Len(hooks) \in Nat
  BY DEF ExtensionsInv, ShapesOK
<1>1. CASE LoadExtension
  <2>1. toLoad # <<>> /\ UNCHANGED <<hookAt, callState>>
    BY <1>1 DEF LoadExtension, bridgeVars
  <2>2. \A c \in ToolCall : callState'[c] = "new" /\ hookAt'[c] = 0
    BY <1>0, <2>1 DEF HookInRange
  <2> QED
    BY <2>2 DEF HookInRange
<1>2. CASE UNCHANGED <<toLoad, hooks, hookAt, callState>>
  BY <1>0, <1>2 DEF HookInRange
<1>3. ASSUME NEW c \in ToolCall, UNCHANGED <<toLoad, hooks>>, toLoad = <<>>,
             callState[c] \in {"new", "waits"}, ToolApproved(c)
      PROVE  HookInRange'
  <2>1. hookAt[c] \in 0 .. Len(hooks)
    BY <1>0, <1>3 DEF HookInRange
  <2>2. /\ hookAt'[c] = hookAt[c] + 1
        /\ callState'[c] = IF hookAt[c] = Len(hooks) THEN "executed" ELSE "hook"
        /\ \A d \in ToolCall : d # c => hookAt'[d] = hookAt[d] /\ callState'[d] = callState[d]
    BY <1>0, <1>3 DEF ToolApproved, ShapesOK
  <2> QED
    BY <1>0, <1>3, <2>1, <2>2 DEF HookInRange
<1>4. ASSUME NEW c \in ToolCall, UNCHANGED <<toLoad, hooks>>, toLoad = <<>>,
             callState[c] \in {"hook", "waits"}, ToolRefused(c)
      PROVE  HookInRange'
  BY <1>0, <1>4 DEF HookInRange, ToolRefused, ShapesOK
<1>5. ASSUME NEW c \in ToolCall, UNCHANGED <<toLoad, hooks>>, toLoad = <<>>,
             callState[c] = "hook", hookAt' = hookAt,
             callState' = [callState EXCEPT ![c] = "waits"]
      PROVE  HookInRange'
  BY <1>0, <1>5 DEF HookInRange, ShapesOK
<1> QED
  BY <1>1, <1>2, <1>3, <1>4, <1>5, PlaceSteps

\* A call that leaves its bridge lets go of that lock only.
LEMMA LeavingKeepsLocks ==
  ASSUME ShapesOK, LockWaits, HookInRange,
         NEW e \in Ext, NEW c \in ToolCall, Waits(e, c),
         lock' = [lock EXCEPT ![e] = NoCall], hooks' = hooks,
         ToolApproved(c) \/ ToolRefused(c)
  PROVE  LockWaits'
<1>1. lock[e] = c /\ \A d \in Ext : lock[d] = c => d = e
  BY WaitsHolds
<1>2. /\ callState'[c] # "waits"
      /\ \A d \in ToolCall : d # c => hookAt'[d] = hookAt[d] /\ callState'[d] = callState[d]
  <2>1. CASE ToolApproved(c)
    BY <2>1, CallPlacesTyped DEF ShapesOK, ToolApproved
  <2>2. CASE ToolRefused(c)
    BY <2>2, CallPlacesTyped DEF ShapesOK, ToolRefused
  <2> QED
    BY <2>1, <2>2
<1>3. lock'[e] = NoCall /\ \A d \in Ext : d # e => lock'[d] = lock[d]
  BY DEF ShapesOK
<1>4. ASSUME NEW d \in Ext, lock'[d] # NoCall PROVE Waits(d, lock[d])'
  <2>1. d # e /\ lock'[d] = lock[d] /\ lock[d] \in ToolCall /\ lock[d] # c
    BY <1>1, <1>3, <1>4 DEF ShapesOK
  <2>2. callState[lock[d]] = "waits" /\ Hook(lock[d]) = d
    BY <1>3, <1>4, <2>1 DEF LockWaits, Waits
  <2>3. callState'[lock[d]] = "waits" /\ hookAt'[lock[d]] = hookAt[lock[d]]
    BY <1>2, <2>1, <2>2
  <2> QED
    BY <2>1, <2>2, <2>3 DEF Waits, Hook
<1>5. ASSUME NEW d \in ToolCall, callState'[d] = "waits" PROVE lock'[Hook(d)'] = d
  <2>1. d # c /\ callState[d] = "waits" /\ Hook(d)' = Hook(d)
    BY <1>2, <1>5 DEF Hook
  <2>2. lock[Hook(d)] = d /\ Hook(d) \in Ext
    BY <2>1, AtAnExtension DEF LockWaits
  <2> QED
    BY <1>1, <1>3, <2>1, <2>2
<1> QED
  BY <1>4, <1>5 DEF LockWaits

\* The locks and the waiting calls keep matching.
LEMMA LockNext == ExtensionsInv /\ [ExtensionsNext]_extVars => LockWaits'
<1> SUFFICES ASSUME ExtensionsInv, [ExtensionsNext]_extVars PROVE LockWaits'
  OBVIOUS
<1>0. ShapesOK /\ LockWaits /\ HookInRange
  BY DEF ExtensionsInv
<1>1. ASSUME UNCHANGED <<lock, hooks, hookAt, callState>> PROVE LockWaits'
  BY <1>0, <1>1 DEF LockWaits, Waits, Hook
<1>2. CASE LoadExtension
  <2>1. toLoad # <<>> /\ UNCHANGED <<lock, callState>>
    BY <1>2 DEF LoadExtension, bridgeVars
  <2>2. \A c \in ToolCall : callState[c] = "new"
    BY <1>0, <2>1 DEF HookInRange
  <2>3. \A e \in Ext : lock[e] = NoCall
    BY <1>0, <2>2 DEF LockWaits, Waits, ShapesOK
  <2> QED
    BY <2>1, <2>2, <2>3 DEF LockWaits
<1>3. ASSUME NEW c \in ToolCall, UNCHANGED <<lock, hooks>>,
             callState[c] # "waits", ToolApproved(c) \/ ToolRefused(c)
      PROVE  LockWaits'
  <2>1. /\ callState'[c] # "waits"
        /\ \A d \in ToolCall : d # c => hookAt'[d] = hookAt[d] /\ callState'[d] = callState[d]
    <3>1. CASE ToolApproved(c)
      BY <1>0, <3>1, CallPlacesTyped DEF ShapesOK, ToolApproved
    <3>2. CASE ToolRefused(c)
      BY <1>0, <3>2, CallPlacesTyped DEF ShapesOK, ToolRefused
    <3> QED
      BY <1>3, <3>1, <3>2
  <2>2. \A e \in Ext : lock[e] # c
    BY <1>0, <1>3, ExtensionsAssumption DEF LockWaits, Waits
  <2>3. ASSUME NEW e \in Ext, lock[e] # NoCall PROVE Waits(e, lock[e])'
    <3>1. lock[e] \in ToolCall /\ lock[e] # c /\ Waits(e, lock[e])
      BY <1>0, <2>2, <2>3 DEF ShapesOK, LockWaits
    <3> QED
      BY <1>3, <2>1, <3>1 DEF Waits, Hook
  <2>4. ASSUME NEW d \in ToolCall, callState'[d] = "waits" PROVE lock[Hook(d)'] = d
    <3>1. d # c /\ callState[d] = "waits" /\ Hook(d)' = Hook(d)
      BY <1>3, <2>1, <2>4 DEF Hook
    <3> QED
      BY <1>0, <3>1 DEF LockWaits
  <2> QED
    BY <1>3, <2>3, <2>4 DEF LockWaits
<1>4. ASSUME NEW c \in ToolCall, CallBridge(c) PROVE LockWaits'
  <2> DEFINE e == Hook(c)
  <2>1. e \in Ext /\ lock[e] = NoCall /\ callState[c] = "hook"
    BY <1>0, <1>4, AtAnExtension DEF CallBridge
  <2>2. /\ lock'[e] = c /\ callState'[c] = "waits" /\ Hook(c)' = e
        /\ UNCHANGED <<hooks, hookAt>>
        /\ \A d \in Ext : d # e => lock'[d] = lock[d]
        /\ \A d \in ToolCall : d # c => callState'[d] = callState[d]
    BY <1>0, <1>4, <2>1 DEF CallBridge, ShapesOK, Hook
  <2> HIDE DEF e
  <2>3. \A d \in Ext : lock[d] # c
    BY <1>0, <2>1, ExtensionsAssumption DEF LockWaits, Waits
  <2>4. ASSUME NEW d \in Ext, lock'[d] # NoCall PROVE Waits(d, lock[d])'
    <3>1. CASE d = e
      <4>1. lock[d]' = c /\ Hook(lock[d])' = e
        BY <2>2, <3>1 DEF Hook
      <4> QED
        BY <2>2, <3>1, <4>1 DEF Waits
    <3>2. CASE d # e
      <4>1. lock[d] \in ToolCall /\ lock[d] # c /\ Waits(d, lock[d]) /\ lock'[d] = lock[d]
        BY <1>0, <2>2, <2>3, <2>4, <3>2 DEF ShapesOK, LockWaits
      <4> QED
        BY <2>2, <4>1 DEF Waits, Hook
    <3> QED
      BY <3>1, <3>2
  <2>5. ASSUME NEW d \in ToolCall, callState'[d] = "waits" PROVE lock'[Hook(d)'] = d
    <3>1. CASE d = c
      <4>1. Hook(d)' = e
        BY <2>2, <3>1
      <4> QED
        BY <2>2, <3>1, <4>1
    <3>2. CASE d # c
      <4>1. callState[d] = "waits" /\ Hook(d)' = Hook(d)
        BY <2>2, <2>5, <3>2 DEF Hook
      <4>2. lock[Hook(d)] = d /\ Hook(d) \in Ext
        BY <1>0, <4>1, AtAnExtension DEF LockWaits
      <4>3. Hook(d) # e
        BY <2>1, <4>2, ExtensionsAssumption
      <4> QED
        BY <2>2, <4>1, <4>2, <4>3
    <3> QED
      BY <3>1, <3>2
  <2> QED
    BY <2>4, <2>5 DEF LockWaits
<1>5. ASSUME NEW c \in ToolCall, CancelCall(c) PROVE LockWaits'
  <2>1. Hook(c) \in Ext /\ Waits(Hook(c), c)
    BY <1>0, <1>5, AtAnExtension DEF CancelCall, Waits
  <2> QED
    BY <1>0, <1>5, <2>1, LeavingKeepsLocks DEF CancelCall
<1>6. ASSUME NEW e \in Ext, NEW c \in ToolCall, ReadLine(e, c) PROVE LockWaits'
  <2>1. hooks' = hooks
    BY <1>6 DEF ReadLine
  <2> QED
    BY <1>0, <1>1, <1>6, <2>1, ReadLineCases, LeavingKeepsLocks
<1>7. ASSUME NEW e \in Ext, NEW c \in ToolCall, ReadEnd(e, c) PROVE LockWaits'
  <2>1. hooks' = hooks /\ Answered(e, c, "error")
    BY <1>7 DEF ReadEnd
  <2> QED
    BY <1>0, <1>1, <2>1, AnsweredCases, LeavingKeepsLocks
<1>8. ASSUME NEW c \in ToolCall, BeginToolCall(c) \/ CallDeadBridge(c) PROVE LockWaits'
  BY <1>3, <1>8 DEF BeginToolCall, CallDeadBridge
<1>9. ASSUME NEW e \in Ext, NEW c \in ToolCall,
             Asks(e, c) \/ \E how \in {"allow", "block", "error"} : Decides(e, c, how)
      PROVE  LockWaits'
  BY <1>1, <1>9 DEF Asks, Decides
<1>10. ASSUME NEW e \in Ext, NodeDies(e) PROVE LockWaits'
  BY <1>1, <1>10 DEF NodeDies
<1>11. CASE UNCHANGED extVars
  BY <1>1, <1>11 DEF extVars
<1> QED
  BY <1>2, <1>4, <1>5, <1>6, <1>7, <1>8, <1>9, <1>10, <1>11 DEF ExtensionsNext

\* A process that is dead stays without work.
LEMMA DeadNext == ExtensionsInv /\ [ExtensionsNext]_extVars => DeadIdle'
<1> SUFFICES ASSUME ExtensionsInv, [ExtensionsNext]_extVars PROVE DeadIdle'
  OBVIOUS
<1>0. ShapesOK /\ DeadIdle /\ HookInRange
  BY DEF ExtensionsInv
<1>1. ASSUME UNCHANGED handling, nodes \subseteq nodes' PROVE DeadIdle'
  BY <1>0, <1>1 DEF DeadIdle
<1>2. CASE LoadExtension
  BY <1>1, <1>2 DEF LoadExtension, StartBridge, bridgeVars
<1>3. ASSUME NEW c \in ToolCall, CallBridge(c) PROVE DeadIdle'
  BY <1>0, <1>3 DEF CallBridge, DeadIdle, ShapesOK
<1>4. ASSUME NEW e \in Ext, NEW c \in ToolCall,
             NEW how \in {"allow", "block", "error"}, Decides(e, c, how)
      PROVE  DeadIdle'
  BY <1>0, <1>4 DEF Decides, DeadIdle, ShapesOK
<1>5. ASSUME NEW e \in Ext, NodeDies(e) PROVE DeadIdle'
  BY <1>0, <1>5 DEF NodeDies, DeadIdle, ShapesOK
<1>6. ASSUME NEW c \in ToolCall, BeginToolCall(c) \/ CallDeadBridge(c) \/ CancelCall(c)
      PROVE  DeadIdle'
  BY <1>1, <1>6 DEF BeginToolCall, CallDeadBridge, CancelCall
<1>7. ASSUME NEW e \in Ext, NEW c \in ToolCall, Asks(e, c) \/ ReadLine(e, c) \/ ReadEnd(e, c)
      PROVE  DeadIdle'
  BY <1>1, <1>7 DEF Asks, ReadLine, ReadEnd
<1>8. CASE UNCHANGED extVars
  BY <1>1, <1>8 DEF extVars
<1> QED
  BY <1>2, <1>3, <1>4, <1>5, <1>6, <1>7, <1>8 DEF ExtensionsNext

\* Who has left an answer behind, or has asked in vain, stays among those whose
\* answers and calls may have come apart.
LEMMA AstrayGrows ==
  ASSUME [ExtensionsNext]_extVars
  PROVE  Astray \subseteq Astray' /\ hasUi' = hasUi
<1>1. hasUi' = hasUi /\ canceledAt \subseteq canceledAt' /\ askers \subseteq askers'
  <2>1. ASSUME NEW e \in Ext, NEW c \in ToolCall,
               \/ \E how \in {"allow", "block", "error"} : Decides(e, c, how)
               \/ Asks(e, c) \/ ReadLine(e, c) \/ ReadEnd(e, c)
        PROVE  hasUi' = hasUi /\ canceledAt \subseteq canceledAt' /\ askers \subseteq askers'
    BY <2>1 DEF Decides, Asks, ReadLine, ReadEnd
  <2>2. ASSUME NEW c \in ToolCall,
               BeginToolCall(c) \/ CallBridge(c) \/ CallDeadBridge(c) \/ CancelCall(c)
        PROVE  hasUi' = hasUi /\ canceledAt \subseteq canceledAt' /\ askers \subseteq askers'
    BY <2>2 DEF BeginToolCall, CallBridge, CallDeadBridge, CancelCall
  <2>3. CASE LoadExtension \/ (\E e \in Ext : NodeDies(e)) \/ UNCHANGED extVars
    BY <2>3 DEF LoadExtension, NodeDies, bridgeVars, extVars
  <2> QED
    BY <2>1, <2>2, <2>3 DEF ExtensionsNext
<1> QED
  BY <1>1 DEF Astray

\* A question comes into the pipe when it is asked.
LEMMA QuestionsAskedNext ==
  ExtensionsInv /\ [ExtensionsNext]_extVars => QuestionsAsked'
<1> SUFFICES ASSUME ExtensionsInv, [ExtensionsNext]_extVars PROVE QuestionsAsked'
  OBVIOUS
<1>0. ShapesOK /\ QuestionsAsked
  BY DEF ExtensionsInv
<1>1. ASSUME UNCHANGED <<output, askers>> PROVE QuestionsAsked'
  BY <1>0, <1>1 DEF QuestionsAsked
<1>2. ASSUME NEW e \in Ext, NEW line \in Lines, PutLine(e, line), askers \subseteq askers',
             line = "question" => e \in askers'
      PROVE  QuestionsAsked'
  <2> SUFFICES ASSUME NEW d \in Ext, NEW i \in DOMAIN output'[d], output'[d][i] = "question"
               PROVE  d \in askers'
    BY DEF QuestionsAsked
  <2>1. CASE d # e
    <3>1. output'[d] = output[d]
      BY <1>0, <1>2, <2>1 DEF PutLine, ShapesOK
    <3> QED
      BY <1>0, <1>2, <3>1 DEF QuestionsAsked
  <2>2. CASE d = e
    <3>1. output[e] \in Seq(Lines) /\ output'[e] = Append(output[e], line)
      BY <1>0, <1>2 DEF PutLine, ShapesOK
    <3>2. \/ i \in DOMAIN output[e] /\ output'[e][i] = output[e][i]
          \/ output'[e][i] = line
      BY <2>2, <3>1
    <3> QED
      BY <1>0, <1>2, <2>2, <3>2 DEF QuestionsAsked
  <2> QED
    BY <2>1, <2>2
<1>3. ASSUME NEW e \in Ext, NEW c \in ToolCall,
             NEW how \in {"allow", "block", "error"}, Decides(e, c, how)
      PROVE  QuestionsAsked'
  BY <1>2, <1>3 DEF Decides, Lines
<1>4. ASSUME NEW e \in Ext, NEW c \in ToolCall, Asks(e, c) PROVE QuestionsAsked'
  BY <1>2, <1>4 DEF Asks, Lines
<1>5. ASSUME NEW e \in Ext, NEW c \in ToolCall, ReadLine(e, c) PROVE QuestionsAsked'
  <2>1. output[e] # <<>> /\ output' = [output EXCEPT ![e] = Tail(@)] /\ askers' = askers
    BY <1>5 DEF ReadLine
  <2>2. \A i \in DOMAIN output'[e] :
          i + 1 \in DOMAIN output[e] /\ output'[e][i] = output[e][i + 1]
    BY <1>0, <2>1, TakeTyped
  <2>3. \A d \in Ext : d # e => output'[d] = output[d]
    BY <1>0, <2>1 DEF ShapesOK
  <2> QED
    BY <1>0, <2>1, <2>2, <2>3 DEF QuestionsAsked
<1>6. ASSUME NEW c \in ToolCall,
             BeginToolCall(c) \/ CallBridge(c) \/ CallDeadBridge(c) \/ CancelCall(c)
      PROVE  QuestionsAsked'
  BY <1>1, <1>6 DEF BeginToolCall, CallBridge, CallDeadBridge, CancelCall
<1>7. ASSUME NEW e \in Ext, NEW c \in ToolCall, ReadEnd(e, c) PROVE QuestionsAsked'
  BY <1>1, <1>7 DEF ReadEnd
<1>8. CASE LoadExtension \/ (\E e \in Ext : NodeDies(e)) \/ UNCHANGED extVars
  BY <1>1, <1>8 DEF LoadExtension, NodeDies, bridgeVars, extVars
<1> QED
  BY <1>3, <1>4, <1>5, <1>6, <1>7, <1>8 DEF ExtensionsNext

\* Where nobody passes a question on, an extension whose question is in the pipe
\* counts as astray.
LEMMA AskedAstray ==
  ASSUME ExtensionsInv, ~hasUi, NEW e \in Ext, output[e] # <<>>,
         Head(output[e]) = "question"
  PROVE  e \in Astray
<1>1. 1 \in DOMAIN output[e] /\ output[e][1] = "question"
  BY DEF ExtensionsInv, ShapesOK
<1> QED
  BY <1>1 DEF ExtensionsInv, QuestionsAsked, Astray

\* A line that is read at an extension that nobody left is for the reader, who
\* holds the lock; an answer is the last line, and the verdict on this call.
LEMMA ReadsItsOwn ==
  ASSUME ExtensionsInv, NEW e \in Ext \ Astray, NEW c \in readers[e]
  PROVE  /\ c \in ToolCall /\ lock[e] = c /\ readers[e] = {c} /\ Waits(e, c)
         /\ output[e] # <<>> /\ Head(output[e]) # "question" =>
              /\ Len(output[e]) = 1
              /\ handling[e] = {}
              /\ Head(output[e]) = verdict[<<e, c>>]
<1>1. c \in ToolCall
  BY DEF ExtensionsInv, ShapesOK
<1>2. lock[e] # NoCall
  BY DEF ExtensionsInv, OneRequest, Alone
<1>3. lock[e] = c /\ readers[e] = {c}
  BY <1>2 DEF ExtensionsInv, OneRequest, Alone
<1>4. Waits(e, c)
  BY <1>2, <1>3 DEF ExtensionsInv, LockWaits
<1>5. ASSUME output[e] # <<>>, Head(output[e]) # "question"
      PROVE  /\ Len(output[e]) = 1
             /\ handling[e] = {}
             /\ Head(output[e]) = verdict[<<e, c>>]
  <2>1. 1 \in DOMAIN output[e] /\ Head(output[e]) = output[e][1]
    BY <1>5 DEF ExtensionsInv, ShapesOK
  <2> QED
    BY <1>2, <1>3, <1>5, <2>1 DEF ExtensionsInv, OneRequest, Alone
<1> QED
  BY <1>1, <1>3, <1>4, <1>5

\* A step that leaves the bridge of an extension alone keeps its request.
LEMMA BridgeUntouched ==
  ASSUME NEW e, Alone(e), lock'[e] = lock[e], readers'[e] = readers[e],
         handling'[e] = handling[e], output'[e] = output[e],
         verdict'[<<e, lock[e]>>] = verdict[<<e, lock[e]>>]
  PROVE  Alone(e)'
BY DEF Alone

\* What an extension that works on a request puts into the pipe.
LEMMA PutKeepsAlone ==
  ASSUME ExtensionsInv, NEW e \in Ext \ Astray, NEW c \in handling[e],
         NEW line \in Lines, PutLine(e, line), UNCHANGED <<lock, readers>>,
         \/ /\ line = "question" /\ UNCHANGED <<handling, verdict>>
         \/ /\ line # "question"
            /\ handling' = [handling EXCEPT ![e] = handling[e] \ {c}]
            /\ verdict' = [verdict EXCEPT ![<<e, c>>] = line]
  PROVE  Alone(e)'
<1>1. lock[e] = c /\ c \in ToolCall /\ readers[e] = {c} /\ handling[e] = {c} /\ c # NoCall
  <2>1. c \in ToolCall /\ c # NoCall
    BY ExtensionsAssumption DEF ExtensionsInv, ShapesOK
  <2>2. lock[e] # NoCall
    BY DEF ExtensionsInv, OneRequest, Alone
  <2> QED
    BY <2>1, <2>2 DEF ExtensionsInv, OneRequest, Alone
<1>2. \A i \in DOMAIN output[e] : output[e][i] = "question"
  BY <1>1 DEF ExtensionsInv, OneRequest, Alone
<1>3. output[e] \in Seq(Lines) /\ output'[e] = Append(output[e], line)
  BY DEF ExtensionsInv, ShapesOK, PutLine
<1>4. /\ Len(output'[e]) = Len(output[e]) + 1
      /\ output'[e][Len(output[e]) + 1] = line
      /\ \A i \in DOMAIN output'[e] :
           i = Len(output[e]) + 1 \/ output'[e][i] = "question"
  BY <1>2, <1>3
<1>5. CASE line = "question" /\ UNCHANGED <<handling, verdict>>
  BY <1>1, <1>4, <1>5 DEF Alone
<1>6. CASE /\ line # "question"
           /\ handling' = [handling EXCEPT ![e] = handling[e] \ {c}]
           /\ verdict' = [verdict EXCEPT ![<<e, c>>] = line]
  <2>1. handling'[e] = {} /\ verdict'[<<e, c>>] = line
    BY <1>1, <1>6 DEF ExtensionsInv, ShapesOK
  <2>2. lock'[e] = c /\ readers'[e] = {c}
    BY <1>1
  <2> QED
    BY <1>1, <1>4, <2>1, <2>2 DEF Alone
<1> QED
  BY <1>5, <1>6

\* Reading keeps the request of an extension that is not left by it.
LEMMA ReadKeepsAlone ==
  ASSUME ExtensionsInv, ShapesOK', NEW e \in Ext, NEW c \in ToolCall, ReadLine(e, c),
         e \notin Astray, e \notin Astray'
  PROVE  Alone(e)'
<1> DEFINE line == Head(output[e])
           how == IF line # "question" THEN line ELSE IF hasUi THEN "error" ELSE "allow"
<1>1. c \in readers[e] /\ output[e] # <<>>
  BY DEF ReadLine
<1>2. /\ lock[e] = c /\ readers[e] = {c} /\ Waits(e, c)
      /\ line # "question" =>
           Len(output[e]) = 1 /\ handling[e] = {} /\ line = verdict[<<e, c>>]
  BY <1>1, ReadsItsOwn
<1>3. c # NoCall
  BY ExtensionsAssumption
<1>4. UNCHANGED <<handling, verdict>> /\ output' = [output EXCEPT ![e] = Tail(@)]
  BY DEF ReadLine
<1>5. /\ Len(output[e]) \in Nat
      /\ output'[e] \in Seq(Lines) /\ Len(output'[e]) = Len(output[e]) - 1
      /\ \A i \in DOMAIN output'[e] :
           i + 1 \in DOMAIN output[e] /\ output'[e][i] = output[e][i + 1]
  BY <1>1, <1>4, TakeTyped DEF ExtensionsInv
<1>6. CASE UNCHANGED <<readers, lock, hookAt, callState>>
  <2>1. \A i \in DOMAIN output[e] :
          output[e][i] # "question" =>
            /\ i = Len(output[e])
            /\ handling[e] = {}
            /\ output[e][i] = verdict[<<e, c>>]
    BY <1>1, <1>2, <1>3 DEF ExtensionsInv, OneRequest, Alone
  <2>2. \A i \in DOMAIN output'[e] : i \in Nat
    BY <1>5
  <2>3. ASSUME NEW i \in DOMAIN output'[e], output'[e][i] # "question"
        PROVE  /\ i = Len(output'[e])
               /\ handling'[e] = {}
               /\ output'[e][i] = verdict'[<<e, c>>]
    <3>1. i + 1 \in DOMAIN output[e] /\ output[e][i + 1] = output'[e][i]
      BY <1>5
    <3>2. i + 1 = Len(output[e]) /\ handling[e] = {} /\ output[e][i + 1] = verdict[<<e, c>>]
      BY <2>1, <2>3, <3>1
    <3> QED
      BY <1>4, <1>5, <2>2, <3>1, <3>2
  <2>4. lock'[e] = c /\ readers'[e] = {c} /\ handling'[e] \subseteq {c}
    BY <1>1, <1>2, <1>3, <1>4, <1>6 DEF ExtensionsInv, OneRequest, Alone
  <2> QED
    BY <1>3, <2>3, <2>4 DEF Alone
<1>7. CASE /\ readers' = [readers EXCEPT ![e] = @ \ {c}]
           /\ Answered(e, c, how)
  <2>1. readers'[e] = {}
    BY <1>2, <1>7 DEF ExtensionsInv, ShapesOK
  <2>2. line # "question"
    <3> SUFFICES ASSUME line = "question" PROVE FALSE
      OBVIOUS
    <3>1. hasUi
      BY <1>1, AskedAstray
    <3>2. e \in canceledAt'
      BY <1>2, <2>1, <3>1 DEF ReadLine
    <3> QED
      BY <3>2 DEF Astray
  <2>3. Len(output'[e]) = 0
    BY <1>2, <1>5, <2>2
  <2>4. output'[e] = <<>>
    BY <1>5, <2>3
  <2>5. lock'[e] = NoCall
    BY <1>2, <1>7 DEF Answered, ExtensionsInv, ShapesOK
  <2> QED
    BY <1>2, <1>4, <2>1, <2>2, <2>4, <2>5 DEF Alone
<1> QED
  BY <1>6, <1>7 DEF ReadLine

\* One request at a time is out at an extension that nobody left.
LEMMA OneRequestNext ==
  ExtensionsInv /\ [ExtensionsNext]_extVars => OneRequest'
<1> SUFFICES ASSUME ExtensionsInv, [ExtensionsNext]_extVars,
                    NEW e \in Ext, e \notin Astray'
             PROVE  Alone(e)'
  BY DEF OneRequest
<1>0. ShapesOK /\ HookInRange /\ LockWaits /\ ShapesOK'
  BY ShapesNext DEF ExtensionsInv
<1>a. e \notin Astray
  BY AstrayGrows
<1>b. Alone(e)
  BY <1>a DEF ExtensionsInv, OneRequest
<1>1. ASSUME UNCHANGED <<lock, readers, handling, output, verdict>>
      PROVE  Alone(e)'
  BY <1>b, <1>1, BridgeUntouched
<1>2. CASE LoadExtension
  BY <1>1, <1>2 DEF LoadExtension, bridgeVars
<1>3. ASSUME NEW c \in ToolCall, BeginToolCall(c) \/ CallDeadBridge(c) PROVE Alone(e)'
  BY <1>1, <1>3 DEF BeginToolCall, CallDeadBridge
<1>4. ASSUME NEW c \in ToolCall, CallBridge(c) PROVE Alone(e)'
  <2>1. Alone(e) /\ UNCHANGED <<output, verdict>>
    BY <1>4, <1>b DEF CallBridge
  <2>2. CASE e = Hook(c)
    <3>1. lock[e] = NoCall /\ c # NoCall
      BY <1>4, <2>2, ExtensionsAssumption DEF CallBridge
    <3>2. handling[e] = {} /\ output[e] = <<>> /\ readers[e] = {}
      BY <2>1, <3>1 DEF Alone
    <3>3. lock'[e] = c /\ handling'[e] = {c} /\ readers'[e] = {c} /\ output'[e] = <<>>
      BY <1>0, <1>4, <2>1, <2>2, <3>2 DEF CallBridge, ShapesOK
    <3> QED
      BY <3>1, <3>3 DEF Alone
  <2>3. CASE e # Hook(c)
    <3>1. lock'[e] = lock[e] /\ handling'[e] = handling[e] /\ readers'[e] = readers[e]
      BY <1>0, <1>4, <2>3 DEF CallBridge, ShapesOK
    <3> QED
      BY <2>1, <3>1, BridgeUntouched
  <2> QED
    BY <2>2, <2>3
<1>5. ASSUME NEW c \in ToolCall, CancelCall(c) PROVE Alone(e)'
  <2>1. e # Hook(c) /\ Alone(e)
    BY <1>5, <1>b DEF CancelCall, Astray
  <2>2. lock'[e] = lock[e] /\ UNCHANGED <<readers, handling, output, verdict>>
    BY <1>0, <1>5, <2>1 DEF CancelCall, ShapesOK
  <2> QED
    BY <2>1, <2>2, BridgeUntouched
<1>6. ASSUME NEW d \in Ext, NEW c \in ToolCall,
             NEW how \in {"allow", "block", "error"}, Decides(d, c, how)
      PROVE  Alone(e)'
  <2>1. Alone(e) /\ e \notin Astray /\ UNCHANGED <<lock, readers>>
    BY <1>6, <1>a, <1>b DEF Decides
  <2>2. CASE e = d
    BY <1>6, <2>1, <2>2, PutKeepsAlone DEF Decides, Lines
  <2>3. CASE e # d
    <3>1. /\ handling'[e] = handling[e] /\ output'[e] = output[e]
          /\ verdict'[<<e, lock[e]>>] = verdict[<<e, lock[e]>>]
      BY <1>0, <1>6, <2>3 DEF Decides, PutLine, ShapesOK
    <3> QED
      BY <2>1, <3>1, BridgeUntouched
  <2> QED
    BY <2>2, <2>3
<1>7. ASSUME NEW d \in Ext, NEW c \in ToolCall, Asks(d, c) PROVE Alone(e)'
  <2>1. /\ Alone(e) /\ e \notin Astray
        /\ UNCHANGED <<lock, readers, handling, verdict>>
    BY <1>7, <1>a, <1>b DEF Asks
  <2>2. CASE e = d
    BY <1>7, <2>1, <2>2, PutKeepsAlone DEF Asks, Lines
  <2>3. CASE e # d
    <3>1. output'[e] = output[e]
      BY <1>0, <1>7, <2>3 DEF Asks, PutLine, ShapesOK
    <3> QED
      BY <2>1, <3>1, BridgeUntouched
  <2> QED
    BY <2>2, <2>3
<1>8. ASSUME NEW d \in Ext, NEW c \in ToolCall, ReadLine(d, c) PROVE Alone(e)'
  <2>1. CASE e = d
    BY <1>0, <1>8, <1>a, <2>1, ReadKeepsAlone
  <2>2. CASE e # d
    <3>1. Alone(e)
      BY <1>8, <1>b DEF ReadLine
    <3>2. /\ UNCHANGED <<handling, verdict>>
          /\ output'[e] = output[e] /\ readers'[e] = readers[e]
      BY <1>0, <1>8, <2>2 DEF ReadLine, ShapesOK
    <3>3. lock'[e] = lock[e]
      BY <1>0, <1>8, <2>2, ReadLineCases DEF ShapesOK
    <3> QED
      BY <3>1, <3>2, <3>3, BridgeUntouched
  <2> QED
    BY <2>1, <2>2
<1>9. ASSUME NEW d \in Ext, NEW c \in ToolCall, ReadEnd(d, c) PROVE Alone(e)'
  <2>1. Alone(e) /\ e \notin Astray /\ UNCHANGED <<handling, output, verdict>>
    BY <1>9, <1>a, <1>b DEF ReadEnd
  <2>2. CASE e = d
    <3>1. readers[e] = {c} /\ Waits(e, c)
      BY <1>9, <2>1, <2>2, ReadsItsOwn DEF ReadEnd
    <3>2. lock'[e] = NoCall /\ readers'[e] = {}
      BY <1>0, <1>9, <2>2, <3>1 DEF ReadEnd, Answered, ShapesOK
    <3>3. handling[e] = {} /\ output[e] = <<>>
      BY <1>9, <2>2 DEF ReadEnd, ExtensionsInv, DeadIdle
    <3> QED
      BY <2>1, <3>2, <3>3 DEF Alone
  <2>3. CASE e # d
    <3>1. readers'[e] = readers[e] /\ Answered(d, c, "error")
      BY <1>0, <1>9, <2>3 DEF ReadEnd, ShapesOK
    <3>2. lock'[e] = lock[e]
      BY <1>0, <2>3, <3>1, AnsweredCases DEF ShapesOK
    <3> QED
      BY <2>1, <3>1, <3>2, BridgeUntouched
  <2> QED
    BY <2>2, <2>3
<1>10. ASSUME NEW d \in Ext, NodeDies(d) PROVE Alone(e)'
  <2>1. Alone(e) /\ UNCHANGED <<lock, readers, output, verdict>>
    BY <1>10, <1>b DEF NodeDies
  <2>2. handling'[e] = handling[e] \/ handling'[e] = {}
    BY <1>0, <1>10 DEF NodeDies, ShapesOK
  <2> QED
    BY <2>1, <2>2 DEF Alone
<1>11. CASE UNCHANGED extVars
  BY <1>1, <1>11 DEF extVars
<1> QED
  BY <1>2, <1>3, <1>4, <1>5, <1>6, <1>7, <1>8, <1>9, <1>10, <1>11 DEF ExtensionsNext

\* A hook is passed with the verdict of its extension on this call, and the
\* verdict does not change after that.
LEMMA PassedNext ==
  ExtensionsInv /\ [ExtensionsNext]_extVars => PassedApproved'
<1> SUFFICES ASSUME ExtensionsInv, [ExtensionsNext]_extVars PROVE PassedApproved'
  OBVIOUS
<1>0. /\ ShapesOK /\ LoadedOnce /\ HookInRange /\ LockWaits /\ PassedApproved
      /\ Astray \subseteq Astray'
  BY AstrayGrows DEF ExtensionsInv
<1>1. ASSUME UNCHANGED <<hooks, hookAt, callState, verdict>>
      PROVE  PassedApproved'
  BY <1>0, <1>1 DEF PassedApproved
<1>2. ASSUME UNCHANGED <<hooks, verdict>>,
             NEW c \in ToolCall, ToolRefused(c)
      PROVE  PassedApproved'
  <2>1. /\ hookAt' = hookAt /\ callState'[c] = "refused"
        /\ \A d \in ToolCall : d # c => callState'[d] = callState[d]
    BY <1>0, <1>2 DEF ToolRefused, ShapesOK
  <2> QED
    BY <1>0, <1>2, <2>1 DEF PassedApproved
<1>3. ASSUME UNCHANGED <<hooks, verdict>>,
             NEW c \in ToolCall, NEW e \in Ext, Waits(e, c), ToolApproved(c),
             e \notin Astray' => verdict[<<e, c>>] = "allow"
      PROVE  PassedApproved'
  <2>1. /\ hookAt'[c] = hookAt[c] + 1
        /\ \A d \in ToolCall : d # c => hookAt'[d] = hookAt[d] /\ callState'[d] = callState[d]
    BY <1>0, <1>3 DEF ToolApproved, ShapesOK
  <2>2. callState[c] = "waits" /\ hooks[hookAt[c]] = e /\ hookAt[c] \in Nat
    BY <1>0, <1>3 DEF Waits, Hook, ShapesOK
  <2>3. ASSUME NEW k \in DOMAIN hooks, k < hookAt'[c], hooks[k] \notin Astray'
        PROVE  verdict[<<hooks[k], c>>] = "allow"
    <3>1. k \in Nat /\ (k = hookAt[c] \/ k < hookAt[c])
      BY <1>0, <2>1, <2>2, <2>3 DEF ShapesOK
    <3>2. CASE k = hookAt[c]
      BY <1>3, <2>2, <2>3, <3>2
    <3>3. CASE k < hookAt[c]
      BY <1>0, <1>3, <2>2, <2>3, <3>3 DEF PassedApproved
    <3> QED
      BY <3>1, <3>2, <3>3
  <2> QED
    BY <1>0, <1>3, <2>1, <2>3 DEF PassedApproved
<1>4. CASE LoadExtension
  <2>1. toLoad # <<>> /\ callState' = callState
    BY <1>4 DEF LoadExtension, bridgeVars
  <2>2. \A c \in ToolCall : callState'[c] = "new"
    BY <1>0, <2>1 DEF HookInRange
  <2> QED
    BY <2>2 DEF PassedApproved
<1>5. ASSUME NEW c \in ToolCall, BeginToolCall(c) PROVE PassedApproved'
  <2>1. /\ hookAt'[c] = 1 /\ UNCHANGED <<hooks, verdict>>
        /\ \A d \in ToolCall : d # c => hookAt'[d] = hookAt[d] /\ callState'[d] = callState[d]
    <3>1. hookAt[c] = 0
      BY <1>0, <1>5 DEF BeginToolCall, HookInRange
    <3> QED
      BY <1>0, <1>5, <3>1 DEF BeginToolCall, ToolApproved, ShapesOK
  <2>2. \A k \in DOMAIN hooks : ~(k < 1)
    BY <1>0 DEF ShapesOK
  <2> QED
    BY <1>0, <2>1, <2>2 DEF PassedApproved
<1>6. ASSUME NEW c \in ToolCall, CallBridge(c) PROVE PassedApproved'
  <2>1. /\ callState[c] = "hook" /\ UNCHANGED <<hooks, hookAt, verdict>>
        /\ \A d \in ToolCall : d # c => callState'[d] = callState[d]
    BY <1>0, <1>6 DEF CallBridge, ShapesOK
  <2> QED
    BY <1>0, <2>1 DEF PassedApproved
<1>7. ASSUME NEW c \in ToolCall, CallDeadBridge(c) \/ CancelCall(c) PROVE PassedApproved'
  BY <1>2, <1>7 DEF CallDeadBridge, CancelCall
<1>8. ASSUME NEW e \in Ext, NEW c \in ToolCall,
             NEW how \in {"allow", "block", "error"}, Decides(e, c, how)
      PROVE  PassedApproved'
  <2>1. /\ UNCHANGED <<hooks, hookAt, callState>>
        /\ \A d \in Ext, b \in ToolCall : d # e \/ b # c =>
             verdict'[<<d, b>>] = verdict[<<d, b>>]
    BY <1>0, <1>8 DEF Decides, ShapesOK
  <2>2. ASSUME e \notin Astray PROVE Waits(e, c)
    <3>1. c # NoCall /\ c \in handling[e]
      BY <1>8, ExtensionsAssumption DEF Decides
    <3>2. lock[e] # NoCall /\ handling[e] \subseteq {lock[e]}
      BY <2>2, <3>1 DEF ExtensionsInv, OneRequest, Alone
    <3>3. lock[e] = c
      BY <3>1, <3>2
    <3> QED
      BY <1>0, <3>1, <3>3 DEF LockWaits
  <2>3. ASSUME NEW b \in ToolCall, NEW k \in DOMAIN hooks,
               callState[b] \in {"hook", "waits", "executed"},
               k < hookAt[b], hooks[k] \notin Astray
        PROVE  verdict'[<<hooks[k], b>>] = "allow"
    <3>1. hooks[k] \in Ext /\ verdict[<<hooks[k], b>>] = "allow" /\ k \in Nat
      BY <1>0, <2>3 DEF PassedApproved, ShapesOK
    <3>2. hooks[k] # e \/ b # c
      <4> SUFFICES ASSUME hooks[k] = e, b = c PROVE FALSE
        OBVIOUS
      <4>1. Waits(e, c)
        BY <2>2, <2>3
      <4>2. hooks[hookAt[c]] = e /\ hookAt[c] \in DOMAIN hooks
        BY <1>0, <4>1, AtAnExtension DEF Waits, Hook
      <4>3. k = hookAt[c]
        BY <1>0, <4>2 DEF LoadedOnce
      <4> QED
        BY <2>3, <3>1, <4>3
    <3> QED
      BY <2>1, <3>1, <3>2
  <2> QED
    BY <1>0, <2>1, <2>3 DEF PassedApproved
<1>9. ASSUME NEW e \in Ext, NEW c \in ToolCall, ReadLine(e, c) PROVE PassedApproved'
  <2>1. /\ UNCHANGED <<hooks, verdict>>
        /\ c \in readers[e] /\ output[e] # <<>>
    BY <1>9 DEF ReadLine
  <2>2. ASSUME \/ Head(output[e]) = "allow"
               \/ Head(output[e]) = "question" /\ ~hasUi,
               e \notin Astray'
        PROVE  verdict[<<e, c>>] = "allow"
    <3>1. e \notin Astray
      BY <1>0, <2>2
    <3>2. Head(output[e]) = "allow"
      BY <2>1, <2>2, <3>1, AskedAstray
    <3> QED
      BY <2>1, <3>1, <3>2, ReadsItsOwn
  <2>3. CASE UNCHANGED <<lock, hookAt, callState>>
    BY <1>1, <2>1, <2>3
  <2>4. CASE /\ Waits(e, c) /\ ToolApproved(c)
             /\ \/ Head(output[e]) = "allow"
                \/ Head(output[e]) = "question" /\ ~hasUi
    BY <1>3, <2>1, <2>2, <2>4
  <2>5. CASE ToolRefused(c)
    BY <1>2, <2>1, <2>5
  <2> QED
    BY <1>9, <2>3, <2>4, <2>5, ReadLineCases
<1>10. ASSUME NEW e \in Ext, NEW c \in ToolCall, ReadEnd(e, c) PROVE PassedApproved'
  <2>1. UNCHANGED <<hooks, verdict>> /\ Answered(e, c, "error")
    BY <1>10 DEF ReadEnd
  <2>2. UNCHANGED <<lock, hookAt, callState>> \/ ToolRefused(c)
    BY <2>1, AnsweredCases
  <2> QED
    BY <1>1, <1>2, <2>1, <2>2
<1>11. ASSUME NEW e \in Ext, NEW c \in ToolCall, Asks(e, c) PROVE PassedApproved'
  BY <1>1, <1>11 DEF Asks
<1>12. ASSUME NEW e \in Ext, NodeDies(e) PROVE PassedApproved'
  BY <1>1, <1>12 DEF NodeDies
<1>13. CASE UNCHANGED extVars
  BY <1>1, <1>13 DEF extVars
<1> QED
  BY <1>4, <1>5, <1>6, <1>7, <1>8, <1>9, <1>10, <1>11, <1>12, <1>13
     DEF ExtensionsNext

-----------------------------------------------------------------------------
\* The invariant of the extensions is one of every state.
THEOREM ExtensionsInvariant == ExtensionsSpec => []ExtensionsInv
<1>1. ExtensionsInv /\ [ExtensionsNext]_extVars => ExtensionsInv'
  BY ShapesNext, LoadedNext, HookInRangeNext, LockNext, DeadNext, QuestionsAskedNext,
     OneRequestNext, PassedNext DEF ExtensionsInv
<1> QED
  BY <1>1, InitInv, PTL DEF ExtensionsSpec

\* Type correctness: an extension is registered once, every call is at a hook in
\* range, and who holds the lock of a bridge waits at it.
THEOREM ExtensionsTyped == ExtensionsSpec => []ExtensionsTypeOK
<1>1. ExtensionsInv => ExtensionsTypeOK
  <2> SUFFICES ASSUME ExtensionsInv PROVE ExtensionsTypeOK
    OBVIOUS
  <2>1. IsInjective(hooks)
    BY DEF ExtensionsInv, LoadedOnce, IsInjective
  <2>2. ASSUME NEW c \in ToolCall PROVE hookAt[c] \in 0 .. Len(hooks) + 1
    <3>1. Len(hooks) \in Nat /\ callState[c] \in {"new", "hook", "waits", "refused", "executed"}
      BY DEF ExtensionsInv, ShapesOK
    <3> QED
      BY <3>1 DEF ExtensionsInv, HookInRange
  <2> QED
    BY <2>1, <2>2 DEF ExtensionsInv, LockWaits, ExtensionsTypeOK
<1> QED
  BY <1>1, ExtensionsInvariant, PTL

\* A tool runs only when each of its extensions has allowed this very call, as
\* long as no call of that extension was left behind, and it has not asked the
\* user where nobody passes questions on: for any number of calls side by side,
\* questions to the user and deaths of the processes.
THEOREM ExtensionsApprove == ExtensionsSpec => []RunsOnlyApproved
<1>1. ExtensionsInv => RunsOnlyApproved
  <2> SUFFICES ASSUME ExtensionsInv, NEW c \in ToolCall, NEW e \in Ext,
                      callState[c] = "executed", e \in ToSet(hooks) \ Astray
               PROVE  verdict[<<e, c>>] = "allow"
    BY DEF RunsOnlyApproved
  <2>1. PICK k \in DOMAIN hooks : hooks[k] = e
    BY DEF ToSet
  <2>2. hookAt[c] = Len(hooks) + 1 /\ k < hookAt[c]
    BY DEF ExtensionsInv, HookInRange, ShapesOK
  <2> QED
    BY <2>1, <2>2 DEF ExtensionsInv, PassedApproved
<1> QED
  BY <1>1, ExtensionsInvariant, PTL


-----------------------------------------------------------------------------
(* The shapes of the five components, and of their sum.                     *)

OneTurnRuns ==
  \A i, j \in DOMAIN turns : turns[i].state = "running" /\ turns[j].state = "running" => i = j

BotShape ==
  /\ PollInv /\ SubmitInv
  /\ polling \in {"poll", "handling", "down"} /\ handled \subseteq UpdateIds
  /\ OneTurnRuns

\* Only a claim makes a turn run, and it finds none that does.
LEMMA TurnsRunAlone ==
  ASSUME PollInv, SubmitInv, OneTurnRuns, [BotNext]_botVars
  PROVE  OneTurnRuns'
<1>1. /\ TurnsOK /\ DOMAIN turns = 1 .. Len(turns) /\ Len(turns) \in Nat
      /\ \A u \in batch : u \in Nat
  BY DEF SubmitInv, TurnsOK, PollInv, BatchOK, UpdateIds
<1>2. ASSUME NEW u \in Nat,
             \/ StartTurn(u) \/ (\E failed \in BOOLEAN : EndTurn(u, failed))
             \/ StopTurn(u) \/ Die
      PROVE  OneTurnRuns'
  BY <1>1, <1>2, TurnSteps DEF TurnsGoOn, OneTurnRuns
<1>3. CASE Die
  BY <1>2, <1>3
<1>4. ASSUME NEW u \in batch, SubmitPrompt(u) PROVE OneTurnRuns'
  <2>1. turns' = Append(turns, [update |-> u, state |-> "pending", runner |-> 0])
    BY <1>4 DEF SubmitPrompt
  <2>2. /\ DOMAIN turns' = 1 .. Len(turns) + 1
        /\ \A i \in DOMAIN turns : turns'[i] = turns[i]
        /\ turns'[Len(turns) + 1].state = "pending"
    BY <1>1, <2>1
  <2>3. \A i \in DOMAIN turns' : i \in DOMAIN turns \/ i = Len(turns) + 1
    BY <1>1, <2>2
  <2> QED
    BY <2>2, <2>3 DEF OneTurnRuns
<1>5. CASE UNCHANGED turns
  BY <1>5 DEF OneTurnRuns
<1>6. ASSUME NEW u \in batch, Ignore(u) \/ Prepare(u) \/ Toggle(u) \/ NoTurn(u) \/ Reply(u)
      PROVE  UNCHANGED turns
  BY <1>6 DEF Ignore, Prepare, Toggle, NoTurn, Reply
<1>7. (\E kind \in Kinds : ChatSends(kind)) \/ PollUpdates \/ Restart \/ BatchDone \/ UNCHANGED botVars
        => UNCHANGED turns
  BY DEF ChatSends, PollUpdates, Restart, BatchDone, botVars
<1> QED
  BY <1>1, <1>2, <1>3, <1>4, <1>5, <1>6, <1>7 DEF BotNext, PollFails, BotDies, BatchFails

LEMMA HandledExist ==
  ASSUME PollInv, SubmitInv, handled \subseteq UpdateIds, polling \in {"poll", "handling", "down"},
         [BotNext]_botVars
  PROVE  handled' \subseteq UpdateIds' /\ polling' \in {"poll", "handling", "down"}
<1>1. Len(updates) \in Nat /\ batch \subseteq UpdateIds
  BY DEF PollInv, SubmitInv, BatchOK
<1>2. UpdateIds \subseteq UpdateIds'
  <2>1. ASSUME NEW kind \in Kinds, ChatSends(kind) PROVE UpdateIds \subseteq UpdateIds'
    <3>1. Len(updates') = Len(updates) + 1
      BY <2>1 DEF ChatSends, PollInv
    <3> QED
      BY <1>1, <3>1 DEF UpdateIds
  <2>2. CASE UNCHANGED updates
    BY <2>2 DEF UpdateIds
  <2>3. UNCHANGED updates \/ \E kind \in Kinds : ChatSends(kind)
    BY DEF BotNext, botVars, PollUpdates, PollFails, BotDies, Die, Restart, StartTurn, EndTurn, BatchDone,
           BatchFails, Ignore, Prepare, StopTurn, Toggle, SubmitPrompt, NoTurn, Reply
  <2> QED
    BY <2>1, <2>2, <2>3
<1>3. handled' = handled \/ handled' = handled \cup batch
  BY DEF BotNext, botVars, ChatSends, PollUpdates, PollFails, BotDies, Die, Restart, StartTurn, EndTurn,
         BatchDone, BatchFails, Ignore, Prepare, StopTurn, Toggle, SubmitPrompt, NoTurn, Reply
<1>4. polling' = polling \/ polling' \in {"poll", "handling", "down"}
  BY DEF BotNext, botVars, ChatSends, PollUpdates, PollFails, BotDies, Die, Restart, StartTurn, EndTurn,
         BatchDone, BatchFails, Ignore, Prepare, StopTurn, Toggle, SubmitPrompt, NoTurn, Reply
<1> QED
  BY <1>1, <1>2, <1>3, <1>4

\* At most one turn of the chat runs, whatever handlers claim and processes die.
THEOREM BotTyped == BotSpec => []BotTypeOK
<1>1. BotInit => BotShape
  BY BotInitInv, BotInitSubmits DEF BotInit, BotShape, OneTurnRuns
<1>2. PollInv /\ SubmitInv /\ [BotNext]_botVars => SubmitInv'
  BY SendsSubmits, PollsSubmits, DieSubmits, PollerSubmits, HandlersSubmit, PromptSubmits
     DEF BotNext, PollFails, BotDies, BatchFails
<1>3. BotShape /\ [BotNext]_botVars => BotShape'
  BY <1>2, BotNextInv, TurnsRunAlone, HandledExist DEF BotShape, SubmitInv
<1>4. BotShape => BotTypeOK
  BY DEF BotShape, BotTypeOK, OneTurnRuns, PollInv, SubmitInv, BatchOK
<1> QED
  BY <1>1, <1>3, <1>4, PTL DEF BotSpec

-----------------------------------------------------------------------------
\* A command at a session knows one that was made, and one that is about to
\* link it has given it a path.
LinkShape ==
  /\ load.sessions \in Nat /\ sessions \in 0 .. load.sessions
  /\ link \in 0 .. sessions /\ link \in paths
  /\ runnerModes \in Pair
  /\ \A c \in Client :
       /\ handler[c] \in {"activate", "relink"} => arg[c] \in 0 .. sessions
       /\ handler[c] = "relink" => arg[c] \in paths

LEMMA LinkInit == RpcInit => LinkShape
<1> SUFFICES ASSUME RpcInit PROVE LinkShape
  OBVIOUS
<1>1. load.sessions \in Nat
  BY RpcAssumption DEF RpcInit
<1> QED
  BY <1>1 DEF RpcInit, LinkShape, OneAtATime, Pair

\* A connection goes to a place where nothing is asked of what it carries.
LEMMA LinkElsewhere ==
  ASSUME RpcTyped, LinkShape, NEW c \in Client, NEW place, NEW n, At(c, place, n),
         place \notin {"activate", "relink"},
         UNCHANGED <<rpcLink, runnerModes, load>>
  PROVE  LinkShape'
<1>1. /\ handler' = [handler EXCEPT ![c] = place] /\ arg' = [arg EXCEPT ![c] = n]
      /\ DOMAIN handler = Client /\ DOMAIN arg = Client
  BY DEF At, RpcTyped
<1>2. UNCHANGED <<link, paths, sessions, runnerModes, load>>
  BY DEF rpcLink
<1>3. \A d \in Client : d # c => handler'[d] = handler[d] /\ arg'[d] = arg[d]
  BY <1>1
<1>4. handler'[c] = place
  BY <1>1
<1> QED
  BY <1>2, <1>3, <1>4 DEF LinkShape

LEMMA LinkUntouched ==
  ASSUME LinkShape, UNCHANGED <<handler, arg, link, paths, sessions, runnerModes, load>>
  PROVE  LinkShape'
  BY DEF LinkShape

LEMMA LinkNext ==
  ASSUME RpcTyped, LinkShape, [RpcNext]_rpcVars
  PROVE  LinkShape'
<1> USE DEF rpcLink, rpcModes, rpcUi
<1>0. DOMAIN handler = Client /\ DOMAIN arg = Client
  BY DEF RpcTyped
<1>1. ASSUME NEW c \in Client,
             \/ Connect(c) \/ EndOfInput(c) \/ Drained(c) \/ Submit(c) \/ Accept(c) \/ Start(c)
             \/ FindActive(c, "steer") \/ SteerActive(c) \/ FindActive(c, "abort") \/ AbortActive(c)
      PROVE  LinkShape'
  <2>1. \E place, n : At(c, place, n) /\ place \notin {"activate", "relink"}
    BY <1>1 DEF Connect, EndOfInput, Drained, Submit, Accept, Start, FindActive, SteerActive, AbortActive
  <2>2. UNCHANGED <<rpcLink, runnerModes, load>>
    BY <1>1 DEF Connect, EndOfInput, Drained, Submit, Accept, Start, FindActive, SteerActive, AbortActive
  <2> QED
    BY <2>1, <2>2, LinkElsewhere
<1>2. ASSUME NEW c \in Client, HangUp(c) PROVE LinkShape'
  BY <1>2, LinkUntouched DEF HangUp
<1>3. ASSUME NEW c \in Client, NewSession(c) PROVE LinkShape'
  <2>1. /\ sessions' = sessions + 1 /\ sessions < load.sessions
        /\ handler' = [handler EXCEPT ![c] = "activate"] /\ arg' = [arg EXCEPT ![c] = sessions + 1]
        /\ UNCHANGED <<link, paths, runnerModes, load>>
    BY <1>3 DEF NewSession, At
  <2>2. handler'[c] = "activate" /\ arg'[c] = sessions'
    BY <1>0, <2>1
  <2>3. \A d \in Client : d # c => handler'[d] = handler[d] /\ arg'[d] = arg[d]
    BY <2>1, <1>0
  <2> QED
    BY <2>1, <2>2, <2>3 DEF LinkShape
<1>4. ASSUME NEW c \in Client, SwitchSession(c) PROVE LinkShape'
  <2>1. PICK s \in 0 .. sessions : At(c, "activate", s)
    BY <1>4 DEF SwitchSession
  <2>2. handler'[c] = "activate" /\ arg'[c] = s
    BY <1>0, <2>1 DEF At
  <2>3. \A d \in Client : d # c => handler'[d] = handler[d] /\ arg'[d] = arg[d]
    BY <1>0, <2>1 DEF At
  <2>4. UNCHANGED <<link, paths, sessions, runnerModes, load>>
    BY <1>4 DEF SwitchSession
  <2> QED
    BY <2>2, <2>3, <2>4 DEF LinkShape
<1>5. ASSUME NEW c \in Client, ActivateSession(c) PROVE LinkShape'
  <2>1. CASE handler[c] = "activate"
    <3>1. /\ paths' = paths \cup {arg[c]} /\ At(c, "relink", arg[c])
          /\ UNCHANGED <<link, sessions, runnerModes, load>>
      BY <1>5, <2>1 DEF ActivateSession
    <3>2. handler'[c] = "relink" /\ arg'[c] = arg[c]
      BY <1>0, <3>1 DEF At
    <3>3. \A d \in Client : d # c => handler'[d] = handler[d] /\ arg'[d] = arg[d]
      BY <1>0, <3>1 DEF At
    <3> QED
      BY <2>1, <3>1, <3>2, <3>3 DEF LinkShape
  <2>2. CASE handler[c] # "activate"
    <3>1. /\ handler[c] = "relink" /\ link' = arg[c] /\ At(c, "read", 0)
          /\ UNCHANGED <<paths, sessions, runnerModes, load>>
      BY <1>5, <2>2 DEF ActivateSession
    <3>2. handler'[c] = "read"
      BY <1>0, <3>1 DEF At
    <3>3. \A d \in Client : d # c => handler'[d] = handler[d] /\ arg'[d] = arg[d]
      BY <1>0, <3>1 DEF At
    <3> QED
      BY <3>1, <3>2, <3>3 DEF LinkShape
  <2> QED
    BY <2>1, <2>2
<1>6. ASSUME NEW c \in Client, SetMode(c) PROVE LinkShape'
  <2>1. At(c, "modes", 0) /\ UNCHANGED <<rpcLink, runnerModes, load>>
    BY <1>6 DEF SetMode
  <2> QED
    BY <2>1, LinkElsewhere
<1>7. ASSUME NEW c \in Client, SetQueueModes(c) PROVE LinkShape'
  <2>1. /\ handler[c] = "modes" /\ runnerModes' \in Pair /\ At(c, "read", 0)
        /\ UNCHANGED <<link, paths, sessions, load>>
    BY <1>7 DEF SetQueueModes, RpcTyped
  <2>2. handler'[c] = "read"
    BY <1>0, <2>1 DEF At
  <2>3. \A d \in Client : d # c => handler'[d] = handler[d] /\ arg'[d] = arg[d]
    BY <1>0, <2>1 DEF At
  <2> QED
    BY <2>1, <2>2, <2>3 DEF LinkShape
<1>8. ASSUME NEW t \in DOMAIN prompts,
             \/ ClaimOldest(t) \/ ClaimFails(t) \/ Delta(t) \/ RunPromptEnds(t)
             \/ \E failed \in BOOLEAN : TurnEnds(t, failed)
      PROVE  LinkShape'
  BY <1>8, LinkUntouched DEF ClaimOldest, ClaimFails, Delta, TurnEnds, RunPromptEnds
<1>9. ASSUME NEW named \in BOOLEAN, Ask(named) PROVE LinkShape'
  BY <1>9, LinkUntouched DEF Ask
<1>10. ASSUME NEW q \in DOMAIN questions, Show(q) \/ Answer(q) \/ Receive(q) \/ Withdraw(q)
       PROVE  LinkShape'
  BY <1>10, LinkUntouched DEF Show, Answer, Receive, Withdraw
<1>11. CASE UNCHANGED rpcVars
  BY <1>11, LinkUntouched DEF rpcVars
<1> QED
  BY <1>1, <1>2, <1>3, <1>4, <1>5, <1>6, <1>7, <1>8, <1>9, <1>10, <1>11 DEF RpcNext

\* The server's link is a session that was made and has its path, the runner
\* has modes that the server had, and a question is found under its own ID.
THEOREM RpcTypedAlways == RpcSpec => []RpcTypeOK
<1>1. RpcInit => LinkShape
  BY LinkInit
<1>2. RpcInv /\ LinkShape /\ [RpcNext]_rpcVars => LinkShape'
  BY LinkNext DEF RpcInv
<1>3. RpcInv /\ UiInv /\ LinkShape => RpcTypeOK
  <2> SUFFICES ASSUME RpcInv, UiInv, LinkShape PROVE RpcTypeOK
    OBVIOUS
  <2>1. link \in 0 .. load.sessions /\ link \in paths /\ runnerModes \in Pair
    BY DEF LinkShape
  <2>2. modes \in Pair
    BY DEF RpcInv, RpcTyped
  <2> QED
    BY <2>1, <2>2 DEF RpcTypeOK, UiInv, Registered
<1> QED
  BY <1>1, <1>2, <1>3, RpcInvariant, PTL DEF RpcSpec

-----------------------------------------------------------------------------
ClientWires == {"completions", "responses", "anthropic", "google", "messages", "bedrock"}

\* A client with a wire that exists and with one of the two retry settings.
Fit(c) == Shaped(c) /\ c.wire \in ClientWires /\ c.retries \in {0, 3}

LEMMA ChangesFit ==
  ASSUME NEW c, Fit(c), NEW x
  PROVE  Fit(SetModel(c, x)) /\ Fit(SetThinkingLevel(c, x)) /\ Fit(SetRetryEnabled(c, x))
<1> DEFINE Made(m, th, r) ==
      [wire |-> c.wire, name |-> c.name, model |-> m, key |-> c.key, thinking |-> th, retries |-> r]
<1>1. \A m, th, r : r \in {0, 3} => Fit(Made(m, th, r))
  BY DEF Fit, Shaped
<1>2. [c EXCEPT !.model = x] = Made(x, c.thinking, c.retries)
  BY DEF Fit, Shaped
<1>3. [c EXCEPT !.thinking = x] = Made(c.model, x, c.retries)
  BY DEF Fit, Shaped
<1>4. \A r : [c EXCEPT !.retries = r] = Made(c.model, c.thinking, r)
  BY DEF Fit, Shaped
<1>5. c.retries \in {0, 3}
  BY DEF Fit
<1> HIDE DEF Made
<1>6. Fit(SetModel(c, x))
  BY <1>1, <1>2, <1>5 DEF SetModel
<1>7. Fit(SetThinkingLevel(c, x))
  BY <1>1, <1>3, <1>5 DEF SetThinkingLevel
<1>8. Fit(SetRetryEnabled(c, x))
  <2>1. \/ SetRetryEnabled(c, x) = c
        \/ \E r \in {0, 3} : SetRetryEnabled(c, x) = [c EXCEPT !.retries = r]
    BY <1>5 DEF SetRetryEnabled
  <2> QED
    BY <1>1, <1>4, <2>1
<1> QED
  BY <1>6, <1>7, <1>8

LEMMA BuiltFits ==
  ASSUME NEW e, NEW w \in ClientWires, NEW n, NEW m, NEW k
  PROVE  Fit(Built(e, w, n, m, k))
  BY DEF Built, Fit, Shaped

LEMMA WireExists ==
  ASSUME NEW e, NEW n, NEW m
  PROVE  WireOf(e, n, m) \in ClientWires
<1>1. \A api : Protocol(api) \in ClientWires
  BY DEF Protocol, ClientWires
<1> QED
  BY <1>1 DEF WireOf, copilotConfigured, ClientWires

LEMMA ConfiguredFits ==
  ASSUME NEW e
  PROVE  Fit(ConfiguredFromEnv(e))
<1>1. "completions" \in ClientWires
  BY DEF ClientWires
<1>2. Fit(NewFromEnv(e))
  BY <1>1, BuiltFits DEF NewFromEnv
<1> QED
  BY <1>2, WireExists, BuiltFits DEF ConfiguredFromEnv

LEMMA NewFits ==
  ASSUME NEW e, NEW n, NEW m, NewConfigured(e, n, m) # Unbuilt
  PROVE  Fit(NewConfigured(e, n, m))
  BY WireExists, BuiltFits DEF NewConfigured

LEMMA SettingsFit ==
  ASSUME Fit(client), ApplySettings
  PROVE  Fit(client')
<1> DEFINE chosen == IF env.provider # "" \/ settings.provider = "" THEN Unbuilt
                     ELSE NewConfigured(env, settings.provider, settings.model)
           c1 == IF chosen = Unbuilt THEN client ELSE chosen
           c2 == IF env.model = "" /\ settings.model # "" THEN SetModel(c1, settings.model) ELSE c1
           c3 == IF env.thinking = "" /\ settings.thinking # ""
                 THEN SetThinkingLevel(c2, settings.thinking) ELSE c2
<1>1. Fit(c1)
  BY NewFits
<1> HIDE DEF c1
<1>2. Fit(c2)
  BY <1>1, ChangesFit
<1> HIDE DEF c2
<1>3. Fit(c3)
  BY <1>2, ChangesFit
<1>4. client' = IF settings.retry THEN SetRetryEnabled(c3, TRUE) ELSE c3
  BY DEF ApplySettings, c1, c2
<1> HIDE DEF c3
<1> QED
  BY <1>3, <1>4, ChangesFit

LEMMA SelectFits ==
  ASSUME Fit(client), [SelectNext]_selectVars
  PROVE  Fit(client')
<1>1. ASSUME \/ UNCHANGED selectVars
             \/ Turn \/ BeginListing \/ ListResponses \/ ListGoogle \/ ListCompletions
             \/ ListBedrock \/ ListRadius \/ ListAnthropic \/ ListFails
      PROVE  client' = client
  BY <1>1 DEF selectVars, Turn, BeginListing, ListResponses, ListGoogle, ListCompletions,
              ListBedrock, ListRadius, ListAnthropic, ListFails, NextPage, Listed
<1>2. ASSUME NEW s \in Selections, CommandSetModel(s[1], s[2])
      PROVE  Fit(client')
  BY <1>2, NewFits, ChangesFit DEF CommandSetModel
<1>3. ASSUME NEW level \in {"off", "high"}, CommandSetThinking(level)
      PROVE  Fit(client')
  BY <1>3, ChangesFit DEF CommandSetThinking
<1>4. ASSUME NEW enabled \in BOOLEAN, CommandSetRetry(enabled)
      PROVE  Fit(client')
  BY <1>4, ChangesFit DEF CommandSetRetry
<1>5. ASSUME NEW backward \in BOOLEAN, CycleModel(backward)
      PROVE  Fit(client')
  BY <1>5, ChangesFit DEF CycleModel
<1> QED
  BY <1>1, <1>2, <1>3, <1>4, <1>5, SettingsFit DEF SelectNext

LEMMA PagesBounded ==
  ASSUME pages \in 0 .. PageLimit, [SelectNext]_selectVars
  PROVE  pages' \in 0 .. PageLimit
<1>1. \/ pages' = pages \/ pages' = 0
      \/ pages < PageLimit /\ pages' = pages + 1
  BY DEF SelectNext, selectVars, ApplySettings, Turn, CommandSetModel, CommandSetThinking,
         CommandSetRetry, BeginListing, ListResponses, ListGoogle, ListCompletions,
         ListBedrock, ListRadius, ListAnthropic, ListFails, CycleModel, NextPage, Listed
<1> QED
  BY <1>1, SelectAssumption

\* A client has one of the wires and a retry limit that its code knows, and a
\* listing ends at its page limit, whatever a service says.
THEOREM SelectTyped == SelectSpec => []SelectTypeOK
<1> DEFINE Inv == Fit(client) /\ pages \in 0 .. PageLimit
<1>1. SelectInit => Inv
  BY ConfiguredFits, SelectAssumption DEF SelectInit
<1>2. Inv /\ [SelectNext]_selectVars => Inv'
  BY SelectFits, PagesBounded DEF Fit, Shaped
<1>3. Inv => SelectTypeOK
  BY DEF Fit, ClientWires, SelectTypeOK
<1> QED
  BY <1>1, <1>2, <1>3, PTL DEF SelectSpec

-----------------------------------------------------------------------------
\* Each component of the sum behaves as it does alone, and has its shape.
THEOREM ServicesTyped == ServicesSpec => []ServicesTypeOK
<1>1. ServicesInit => CallInit /\ BotInit /\ RpcInit /\ SelectInit /\ ExtensionsInit
  BY DEF ServicesInit
<1>2. [ServicesNext]_servicesVars =>
        /\ [CallNext]_callVars /\ [BotNext]_botVars /\ [RpcNext]_rpcVars
        /\ [SelectNext]_selectVars /\ [ExtensionsNext]_extVars
  BY DEF ServicesNext, servicesVars
<1>3. CallTypeOK /\ BotTypeOK /\ RpcTypeOK /\ SelectTypeOK /\ ExtensionsTypeOK => ServicesTypeOK
  BY DEF ServicesTypeOK
<1> QED
  BY <1>1, <1>2, <1>3, CallTyped, BotTyped, RpcTypedAlways, SelectTyped, ExtensionsTyped, PTL
     DEF ServicesSpec, CallSpec, BotSpec, RpcSpec, SelectSpec, ExtensionsSpec
=============================================================================
