------------------------------- MODULE TelegramBot -------------------------------
(***************************************************************************)
(* The poller of internal/adapters/telegram_bot.go: it asks the server for *)
(* updates from its offset on, which also tells the server to forget the   *)
(* earlier ones; all updates of a batch are handled at once, each by a     *)
(* goroutine; and only then it polls again.  Any error ends Run, and with  *)
(* it the process; a new process starts with offset 0 and is sent what the *)
(* server has not been told to forget.                                     *)
(*                                                                         *)
(* The turns are those of the one conversation of the chat; they outlive   *)
(* the process, in the queue file (see TurnRunner).  A handler that has    *)
(* submitted one claims and runs the oldest, until it has run its own or a *)
(* run has failed, be it that of another's turn (runtime.go:264).          *)
(***************************************************************************)
EXTENDS Naturals, Sequences, SequencesExt, FiniteSetsExt

CONSTANTS
  MaxUpdates,     \* bound on what the chat sends
  MaxDeaths       \* bound on restarts of the process

ASSUME BotAssumption == MaxUpdates \in Nat /\ MaxDeaths \in Nat

VARIABLES
  updates,     \* what the chat has sent: the kind of update 1, 2, ...
  forgotten,   \* the server keeps updates from this one on
  offset,      \* TelegramBot.Offset
  polling,     \* "poll", "handling" or "down"
  batch,       \* the updates being handled
  doing,       \* per update: where its HandleUpdate is
  turns,       \* the queue of the conversation: [update, state, runner]
  toolDetail,  \* the preference, in memory and on disk
  handled,     \* updates whose handling has ended well (history)
  deaths

botVars == <<updates, forgotten, offset, polling, batch, doing, turns, toolDetail,
             handled, deaths>>

Kinds == {"prompt", "stop", "toggle", "foreign", "file"}
UpdateIds == 1..Len(updates)

BotInit ==
  /\ updates = <<>>
  /\ forgotten = 1 /\ offset = 0
  /\ polling = "poll" /\ batch = {}
  /\ doing = [u \in 1..MaxUpdates |-> "none"]
  /\ turns = <<>>
  /\ toolDetail = FALSE
  /\ handled = {} /\ deaths = 0

ChatSends(kind) ==
  /\ Len(updates) < MaxUpdates
  /\ updates' = Append(updates, kind)
  /\ UNCHANGED <<forgotten, offset, polling, batch, doing, turns, toolDetail, handled, deaths>>

\* mutant: the next poll asks for the last update again
PollUpdatesOffByOne ==
  LET from == Max({forgotten, offset})
      new == {u \in UpdateIds : u >= from}
  IN /\ polling = "poll"
     /\ new # {}
     /\ forgotten' = from
     /\ offset' = Max(new)
     /\ batch' = new
     /\ doing' = [u \in DOMAIN doing |-> IF u \in new THEN "start" ELSE doing[u]]
     /\ polling' = "handling"
     /\ UNCHANGED <<updates, turns, toolDetail, handled, deaths>>

\* getUpdates, and the offset of the next call.
PollUpdates ==
  LET from == Max({forgotten, offset})
      new == {u \in UpdateIds : u >= from}
  IN /\ polling = "poll"
     /\ new # {}
     /\ forgotten' = from
     /\ offset' = Max(new) + 1
     /\ batch' = new
     /\ doing' = [u \in DOMAIN doing |-> IF u \in new THEN "start" ELSE doing[u]]
     /\ polling' = "handling"
     /\ UNCHANGED <<updates, turns, toolDetail, handled, deaths>>

\* A turn that goes on, in another state or with another handler.
Now(turn, state, runner) == [update |-> turn.update, state |-> state, runner |-> runner]

Die ==
  /\ deaths < MaxDeaths
  /\ deaths' = deaths + 1
  /\ polling' = "down"
  /\ batch' = {}
  /\ doing' = [u \in DOMAIN doing |-> IF u \in batch THEN "none" ELSE doing[u]]
  /\ turns' = [i \in DOMAIN turns |->
                 Now(turns[i],
                     IF turns[i].state = "running" THEN "pending" ELSE turns[i].state, 0)]
  /\ UNCHANGED <<updates, forgotten, offset, toolDetail, handled>>

\* The poll fails; or the process dies in the middle of anything.
PollFails == polling = "poll" /\ Die
BotDies == polling = "handling" /\ Die

Restart ==
  /\ polling = "down"
  /\ polling' = "poll"
  /\ offset' = 0
  /\ UNCHANGED <<updates, forgotten, batch, doing, turns, toolDetail, handled, deaths>>

-----------------------------------------------------------------------------
(* HandleUpdate. *)

Step(u, place) == doing' = [doing EXCEPT ![u] = place]

Ignore(u) ==
  /\ doing[u] = "start" /\ updates[u] = "foreign"
  /\ Step(u, "ok")
  /\ UNCHANGED <<updates, forgotten, offset, polling, batch, turns, toolDetail, handled, deaths>>

\* The link and the session are opened, the attachment is stored.  A link
\* that fails ends the bot, an attachment that fails is reported.
Prepare(u) ==
  /\ doing[u] = "start" /\ updates[u] # "foreign"
  /\ \/ Step(u, IF updates[u] = "file" THEN "prompt" ELSE updates[u])
     \/ Step(u, "failed") /\ deaths < MaxDeaths
     \/ updates[u] = "file" /\ Step(u, "reply")
  /\ UNCHANGED <<updates, forgotten, offset, polling, batch, turns, toolDetail, handled, deaths>>

StopTurn(u) ==
  /\ doing[u] = "stop"
  /\ turns' = [i \in DOMAIN turns |->
                 IF turns[i].state = "running" THEN Now(turns[i], "canceled", turns[i].runner)
                 ELSE turns[i]]
  /\ doing' = [doing EXCEPT ![u] = "reply"]
  /\ UNCHANGED <<updates, forgotten, offset, polling, batch, toolDetail, handled, deaths>>

Toggle(u) ==
  /\ doing[u] = "toggle"
  /\ toolDetail' \in BOOLEAN
  /\ Step(u, "reply")
  /\ UNCHANGED <<updates, forgotten, offset, polling, batch, turns, handled, deaths>>

SubmitPrompt(u) ==
  /\ doing[u] = "prompt"
  /\ turns' = Append(turns, [update |-> u, state |-> "pending", runner |-> 0])
  /\ Step(u, "waiting")
  /\ UNCHANGED <<updates, forgotten, offset, polling, batch, toolDetail, handled, deaths>>

\* A waiting handler claims the oldest pending turn, be it its own, that of
\* another handler or one of a process that is gone.
StartTurn(u) ==
  LET pending == {i \in DOMAIN turns : turns[i].state = "pending"}
  IN /\ doing[u] = "waiting"
     /\ \A i \in DOMAIN turns : turns[i].state # "running"
     /\ pending # {}
     /\ turns' = [turns EXCEPT ![Min(pending)] = Now(@, "running", u)]
     /\ Step(u, "running")
     /\ UNCHANGED <<updates, forgotten, offset, polling, batch, toolDetail, handled, deaths>>

\* The last that was submitted for the update.
OwnTurn(u) == Max({i \in DOMAIN turns : turns[i].update = u})

\* The handler goes on with the result of its own turn, or with the error of
\* any; otherwise it waits on, also for an own turn that another has run.
EndTurn(u, failed) ==
  /\ doing[u] = "running"
  /\ \E i \in DOMAIN turns :
       /\ turns[i].runner = u
       /\ turns' = [turns EXCEPT
                      ![i] = Now(@, IF @.state = "running" THEN "ended" ELSE @.state, 0)]
       /\ Step(u, IF i = OwnTurn(u) \/ failed THEN "reply" ELSE "waiting")
  /\ UNCHANGED <<updates, forgotten, offset, polling, batch, toolDetail, handled, deaths>>

\* The turn cannot be queued; or, later, none can be claimed.
NoTurn(u) ==
  /\ doing[u] \in {"prompt", "waiting"}
  /\ Step(u, "reply")
  /\ UNCHANGED <<updates, forgotten, offset, polling, batch, turns, toolDetail, handled, deaths>>

Reply(u) ==
  /\ doing[u] = "reply"
  /\ \/ Step(u, "ok")
     \/ deaths < MaxDeaths /\ Step(u, "failed")
  /\ UNCHANGED <<updates, forgotten, offset, polling, batch, turns, toolDetail, handled, deaths>>

\* mutant: the poller does not wait for its handlers
BatchDoneAtOnce ==
  /\ polling = "handling"
  /\ handled' = handled \cup {u \in batch : doing[u] = "ok"}
  /\ polling' = "poll"
  /\ UNCHANGED <<updates, forgotten, offset, batch, doing, turns, toolDetail, deaths>>

\* handleUpdates waits for all of them, or for the first error.
BatchDone ==
  /\ polling = "handling"
  /\ \A u \in batch : doing[u] = "ok"
  /\ handled' = handled \cup batch
  /\ polling' = "poll"
  /\ batch' = {}
  /\ UNCHANGED <<updates, forgotten, offset, doing, turns, toolDetail, deaths>>

BatchFails == polling = "handling" /\ (\E u \in batch : doing[u] = "failed") /\ Die

BotNext ==
  \/ \E kind \in Kinds : ChatSends(kind)
  \/ PollUpdates \/ PollFails \/ BotDies \/ Restart
  \/ BatchDone \/ BatchFails
  \/ \E u \in batch : Ignore(u) \/ Prepare(u) \/ StopTurn(u) \/ Toggle(u)
                      \/ SubmitPrompt(u) \/ StartTurn(u) \/ NoTurn(u) \/ Reply(u)
                      \/ \E failed \in BOOLEAN : EndTurn(u, failed)

BotSpec == BotInit /\ [][BotNext]_botVars

-----------------------------------------------------------------------------
BotTypeOK ==
  /\ polling \in {"poll", "handling", "down"}
  /\ batch \subseteq UpdateIds /\ handled \subseteq UpdateIds
  /\ \A i, j \in DOMAIN turns : turns[i].state = "running" /\ turns[j].state = "running" => i = j

(***************************************************************************)
(* The server is told to forget an update only after its handler has       *)
(* ended well: whenever the bot fails or dies, no update is lost that has  *)
(* no reply yet.  The reply may be the error of another's turn; the own    *)
(* turn is in the queue then, for whoever next claims one of this chat.    *)
(***************************************************************************)
ForgottenAreHandled == \A u \in UpdateIds : u < forgotten => u \in handled

(***************************************************************************)
(* A prompt is submitted again only by a process that came after the one   *)
(* that submitted it died.                                                 *)
(***************************************************************************)
Times(u) == Cardinality({i \in DOMAIN turns : turns[i].update = u})
ResubmittedAfterDeath == \A u \in UpdateIds : Times(u) <= 1 + deaths
=============================================================================
