-------------------------------- MODULE RpcServer --------------------------------
(***************************************************************************)
(* The JSONL server of internal/rpc.  All connections share one Server:    *)
(* its link (the conversation that commands are about), its modes and the  *)
(* questions of extensions that wait for an answer.  A connection handles  *)
(* one command at a time; a prompt is submitted, accepted by a response    *)
(* and then run by a goroutine, which streams the events of the turn.  The *)
(* turns are those of the queue (see TurnRunner): a goroutine claims the   *)
(* oldest pending turn and runs it, until it has run its own or a run has  *)
(* failed, be it that of another's turn (runtime.go:264).                  *)
(***************************************************************************)
EXTENDS Naturals, Sequences, FiniteSets

CONSTANTS
  Client,        \* connections
  NoClient,
  Loads          \* bounds: how many prompts, how many of them steered, sessions,
                 \* questions and changes of mode

ASSUME RpcAssumption ==
  /\ NoClient \notin Client
  /\ Loads \subseteq [prompts : Nat, steered : Nat, sessions : Nat, questions : Nat, modes : Nat]

VARIABLES
  handler,     \* per connection: where its Serve is
  arg,         \* per connection: what the command at hand has read
  gone,        \* connections whose client has hung up
  written,        \* per connection: the lines about prompts
  link,        \* Server.Link: a session; 0 is the first
  paths,       \* sessions with a path of their own (SetSessionPath)
  sessions,    \* sessions made so far
  prompts,     \* submitted turns: [session, client, state, runner, goroutine, steered]
  modes, runnerModes, modeSets,
  modesRead,   \* per connection: the pair that it hands to the runner
  uiOutput,    \* the connection that is asked
  questions,   \* [id, to, state, got]
  uiPending,   \* id -> the question that waits under it
  answered,    \* questions whose client has answered (history)
  load         \* the bounds of this behaviour

rpcVars == <<handler, arg, gone, written, link, paths, sessions, prompts, modes, runnerModes,
             modeSets, modesRead, uiOutput, questions, uiPending, answered, load>>
rpcUi == <<uiOutput, questions, uiPending, answered, load>>
rpcModes == <<modes, runnerModes, modeSets, modesRead>>
rpcLink == <<link, paths, sessions>>

Pair == [steering : BOOLEAN, followUp : BOOLEAN]   \* TRUE: "all"
OneAtATime == [steering |-> FALSE, followUp |-> FALSE]

RpcInit ==
  /\ handler = [c \in Client |-> "off"] /\ arg = [c \in Client |-> 0]
  /\ gone = {} /\ written = [c \in Client |-> <<>>]
  /\ link = 0 /\ paths = {0} /\ sessions = 0
  /\ prompts = <<>>
  /\ modes = OneAtATime /\ runnerModes = OneAtATime /\ modeSets = 0
  /\ modesRead = [c \in Client |-> OneAtATime]
  /\ uiOutput = NoClient /\ questions = <<>> /\ answered = {}
  /\ uiPending = [id \in {} |-> 0]
  /\ load \in Loads

At(c, place, value) ==
  /\ handler' = [handler EXCEPT ![c] = place]
  /\ arg' = [arg EXCEPT ![c] = value]

Ready(c) == handler[c] = "read" /\ c \notin gone

\* A line for a client that has hung up is lost.
Send(c, what, t) ==
  written' = IF c \in gone THEN written ELSE [written EXCEPT ![c] = Append(@, [what |-> what, turn |-> t])]

-----------------------------------------------------------------------------
(* Connections.                                                             *)

Connect(c) ==
  /\ handler[c] = "off"
  /\ At(c, "read", 0)
  /\ uiOutput' = c
  /\ UNCHANGED <<gone, written, rpcLink, prompts, rpcModes, questions, uiPending, answered, load>>

HangUp(c) ==
  /\ handler[c] # "off" /\ c \notin gone
  /\ gone' = gone \cup {c}
  /\ UNCHANGED <<handler, arg, written, rpcLink, prompts, rpcModes, rpcUi>>

\* End of input: Serve waits for the prompts of all connections.
EndOfInput(c) ==
  /\ handler[c] = "read" /\ c \in gone
  /\ At(c, "drain", 0)
  /\ UNCHANGED <<gone, written, rpcLink, prompts, rpcModes, rpcUi>>

Drained(c) ==
  /\ handler[c] = "drain"
  /\ \A t \in DOMAIN prompts : prompts[t].goroutine \in {"none", "over"}
  /\ At(c, "closed", 0)
  /\ UNCHANGED <<gone, written, rpcLink, prompts, rpcModes, rpcUi>>

-----------------------------------------------------------------------------
(* prompt.                                                                  *)

Submit(c) ==
  /\ Ready(c) /\ Len(prompts) < load.prompts
  /\ prompts' = Append(prompts, [session |-> link, client |-> c, state |-> "pending",
                                 runner |-> 0, goroutine |-> "none", steered |-> FALSE])
  /\ At(c, "accept", Len(prompts) + 1)
  /\ UNCHANGED <<gone, written, rpcLink, rpcModes, rpcUi>>

\* A response that cannot be written ends Serve; the turn stays in the queue.
Accept(c) ==
  /\ handler[c] = "accept"
  /\ Send(c, "accepted", arg[c])
  /\ IF c \in gone THEN At(c, "drain", 0) ELSE At(c, "start", arg[c])
  /\ UNCHANGED <<gone, rpcLink, prompts, rpcModes, rpcUi>>

Start(c) ==
  /\ handler[c] = "start"
  /\ prompts' = [prompts EXCEPT ![arg[c]].goroutine = "polls"]
  /\ At(c, "read", 0)
  /\ UNCHANGED <<gone, written, rpcLink, rpcModes, rpcUi>>

Running(t) == \E u \in DOMAIN prompts : prompts[u].runner = t

\* The goroutine of prompt t claims the oldest pending turn of its session.
ClaimOldest(t) ==
  /\ prompts[t].goroutine = "polls" /\ ~Running(t)
  /\ \A u \in DOMAIN prompts : prompts[u].session = prompts[t].session => prompts[u].state # "running"
  /\ LET pending == {u \in DOMAIN prompts :
                       prompts[u].session = prompts[t].session /\ prompts[u].state = "pending"}
     IN \E u \in pending :
          /\ \A v \in pending : u <= v
          /\ prompts' = [prompts EXCEPT ![u].state = "running", ![u].runner = t]
  /\ UNCHANGED <<handler, arg, gone, written, rpcLink, rpcModes, rpcUi>>

Delta(t) ==
  /\ Running(t)
  /\ \A i \in DOMAIN written[prompts[t].client] :
       written[prompts[t].client][i] # [what |-> "delta", turn |-> t]
  /\ Send(prompts[t].client, "delta", t)
  /\ UNCHANGED <<handler, arg, gone, rpcLink, prompts, rpcModes, rpcUi>>

\* mutant: the goroutine ends with the turn it has claimed
TurnEndsAny(u, failed) ==
  LET t == prompts[u].runner
  IN /\ t # 0
     /\ prompts' = [prompts EXCEPT
          ![u].runner = 0,
          ![u].state = IF @ = "canceled" THEN @ ELSE "completed",
          ![t].goroutine = IF failed THEN "failed" ELSE "succeeded"]
     /\ UNCHANGED <<handler, arg, gone, written, rpcLink, rpcModes, rpcUi>>

\* runClaimed returns.  Its goroutine returns with it when the turn was its own
\* or the run has failed; otherwise it polls on, also for an own turn that
\* somebody else has run.
TurnEnds(u, failed) ==
  LET t == prompts[u].runner
  IN /\ t # 0
     /\ prompts' = [prompts EXCEPT
          ![u].runner = 0,
          ![u].state = IF @ = "canceled" THEN @ ELSE "completed",
          ![t].goroutine = IF failed THEN "failed" ELSE IF u = t THEN "succeeded" ELSE @]
     /\ UNCHANGED <<handler, arg, gone, written, rpcLink, rpcModes, rpcUi>>

\* The queue cannot be read.
ClaimFails(t) ==
  /\ prompts[t].goroutine = "polls" /\ ~Running(t)
  /\ prompts' = [prompts EXCEPT ![t].goroutine = "failed"]
  /\ UNCHANGED <<handler, arg, gone, written, rpcLink, rpcModes, rpcUi>>

RunPromptEnds(t) ==
  /\ prompts[t].goroutine \in {"succeeded", "failed"}
  /\ Send(prompts[t].client, IF prompts[t].goroutine = "failed" THEN "error" ELSE "done", t)
  /\ prompts' = [prompts EXCEPT ![t].goroutine = "over"]
  /\ UNCHANGED <<handler, arg, gone, rpcLink, rpcModes, rpcUi>>

-----------------------------------------------------------------------------
(* steer, follow_up and abort find the active turn, and then act on it.     *)

FindActive(c, place) ==
  /\ Ready(c)
  /\ place = "steer" => Cardinality({t \in DOMAIN prompts : prompts[t].steered}) < load.steered
  /\ \E t \in DOMAIN prompts :
       prompts[t].session = link /\ prompts[t].state = "running" /\ At(c, place, t)
  /\ UNCHANGED <<gone, written, rpcLink, prompts, rpcModes, rpcUi>>

\* Refused when the turn has ended meanwhile.
SteerActive(c) ==
  /\ handler[c] = "steer"
  /\ prompts' = IF prompts[arg[c]].state = "running"
                THEN [prompts EXCEPT ![arg[c]].steered = TRUE] ELSE prompts
  /\ At(c, "read", 0)
  /\ UNCHANGED <<gone, written, rpcLink, rpcModes, rpcUi>>

AbortActive(c) ==
  /\ handler[c] = "abort"
  /\ prompts' = IF prompts[arg[c]].state = "running"
                THEN [prompts EXCEPT ![arg[c]].state = "canceled"] ELSE prompts
  /\ At(c, "read", 0)
  /\ UNCHANGED <<gone, written, rpcLink, rpcModes, rpcUi>>

-----------------------------------------------------------------------------
(* new_session, import_session and switch_session.                          *)

NewSession(c) ==
  /\ Ready(c) /\ sessions < load.sessions
  /\ sessions' = sessions + 1
  /\ At(c, "activate", sessions + 1)
  /\ UNCHANGED <<gone, written, link, paths, prompts, rpcModes, rpcUi>>

SwitchSession(c) ==
  /\ Ready(c)
  /\ \E s \in 0 .. sessions : s # link /\ At(c, "activate", s)
  /\ UNCHANGED <<gone, written, rpcLink, prompts, rpcModes, rpcUi>>

\* mutant: the link is switched before the path is known
ActivateLinkFirst(c) ==
  \/ /\ handler[c] = "activate"
     /\ link' = arg[c]
     /\ At(c, "relink", arg[c])
     /\ UNCHANGED <<gone, written, paths, sessions, prompts, rpcModes, rpcUi>>
  \/ /\ handler[c] = "relink"
     /\ paths' = paths \cup {arg[c]}
     /\ At(c, "read", 0)
     /\ UNCHANGED <<gone, written, link, sessions, prompts, rpcModes, rpcUi>>

ActivateSession(c) ==
  \/ /\ handler[c] = "activate"
     /\ paths' = paths \cup {arg[c]}
     /\ At(c, "relink", arg[c])
     /\ UNCHANGED <<gone, written, link, sessions, prompts, rpcModes, rpcUi>>
  \/ /\ handler[c] = "relink"
     /\ link' = arg[c]
     /\ At(c, "read", 0)
     /\ UNCHANGED <<gone, written, paths, sessions, prompts, rpcModes, rpcUi>>

-----------------------------------------------------------------------------
(* set_steering_mode and set_follow_up_mode: the server's pair is changed    *)
(* under its lock, and what it then was goes to the runner after it.         *)

SetMode(c) ==
  /\ Ready(c) /\ modeSets < load.modes
  /\ modeSets' = modeSets + 1
  /\ \E m \in BOOLEAN, f \in {"steering", "followUp"} :
       modes' = [modes EXCEPT ![f] = m]
  /\ modesRead' = [modesRead EXCEPT ![c] = modes']
  /\ At(c, "modes", 0)
  /\ UNCHANGED <<gone, written, rpcLink, prompts, runnerModes, rpcUi>>

SetQueueModes(c) ==
  /\ handler[c] = "modes"
  /\ runnerModes' = modesRead[c]
  /\ At(c, "read", 0)
  /\ UNCHANGED <<gone, written, rpcLink, prompts, modes, modeSets, modesRead, rpcUi>>

-----------------------------------------------------------------------------
(* Questions of extensions.  Their IDs are numbered, or 0 when the extension *)
(* has named one.                                                            *)

Drop(id) == [k \in DOMAIN uiPending \ {id} |-> uiPending[k]]
Await(id, q) == [k \in DOMAIN uiPending \cup {id} |-> IF k = id THEN q ELSE uiPending[k]]

Ask(named) ==
  LET q == Len(questions) + 1
      id == IF named THEN 0 ELSE q
  IN /\ uiOutput # NoClient /\ q <= load.questions
     /\ questions' = Append(questions, [id |-> id, to |-> uiOutput, state |-> "registered", got |-> 0])
     /\ uiPending' = Await(id, q)
     /\ UNCHANGED <<handler, arg, gone, written, rpcLink, prompts, rpcModes, uiOutput, answered, load>>

Show(q) ==
  /\ questions[q].state = "registered"
  /\ IF questions[q].to \in gone
     THEN /\ questions' = [questions EXCEPT ![q].state = "failed"]
          /\ uiPending' = Drop(questions[q].id)
     ELSE questions' = [questions EXCEPT ![q].state = "shown"] /\ UNCHANGED uiPending
  /\ UNCHANGED <<handler, arg, gone, written, rpcLink, prompts, rpcModes, uiOutput, answered, load>>

\* mutant: the entry is deleted before it is looked up
AnswerDeletesFirst(q) ==
  /\ questions[q].state \in {"shown", "canceled"} /\ q \notin answered
  /\ Ready(questions[q].to)
  /\ answered' = answered \cup {q}
  /\ uiPending' = Drop(questions[q].id)
  /\ UNCHANGED <<handler, arg, gone, written, rpcLink, prompts, rpcModes, uiOutput, questions, load>>

Answer(q) ==
  LET id == questions[q].id
  IN /\ questions[q].state \in {"shown", "canceled"} /\ q \notin answered
     /\ Ready(questions[q].to)
     /\ answered' = answered \cup {q}
     /\ IF id \in DOMAIN uiPending
        THEN questions' = [questions EXCEPT ![uiPending[id]].got = q] /\ uiPending' = Drop(id)
        ELSE UNCHANGED <<questions, uiPending>>
     /\ UNCHANGED <<handler, arg, gone, written, rpcLink, prompts, rpcModes, uiOutput, load>>

Receive(q) ==
  /\ questions[q].state = "shown" /\ questions[q].got # 0
  /\ questions' = [questions EXCEPT ![q].state = "done"]
  /\ UNCHANGED <<handler, arg, gone, written, rpcLink, prompts, rpcModes, uiOutput, uiPending, answered, load>>

\* The context of whoever asked ends.
Withdraw(q) ==
  /\ questions[q].state = "shown"
  /\ questions' = [questions EXCEPT ![q].state = "canceled"]
  /\ uiPending' = Drop(questions[q].id)
  /\ UNCHANGED <<handler, arg, gone, written, rpcLink, prompts, rpcModes, uiOutput, answered, load>>

RpcNext ==
  \/ \E c \in Client :
       \/ Connect(c) \/ HangUp(c) \/ EndOfInput(c) \/ Drained(c)
       \/ Submit(c) \/ Accept(c) \/ Start(c)
       \/ FindActive(c, "steer") \/ SteerActive(c) \/ FindActive(c, "abort") \/ AbortActive(c)
       \/ NewSession(c) \/ SwitchSession(c) \/ ActivateSession(c)
       \/ SetMode(c) \/ SetQueueModes(c)
  \/ \E t \in DOMAIN prompts : ClaimOldest(t) \/ ClaimFails(t) \/ Delta(t) \/ RunPromptEnds(t)
                              \/ \E failed \in BOOLEAN : TurnEnds(t, failed)
  \/ \E named \in BOOLEAN : Ask(named)
  \/ \E q \in DOMAIN questions : Show(q) \/ Answer(q) \/ Receive(q) \/ Withdraw(q)

RpcSpec == RpcInit /\ [][RpcNext]_rpcVars

-----------------------------------------------------------------------------
RpcTypeOK ==
  /\ link \in 0 .. load.sessions /\ link \in paths
  /\ modes \in Pair /\ runnerModes \in Pair
  /\ \A id \in DOMAIN uiPending : questions[uiPending[id]].id = id

(***************************************************************************)
(* What a client is written about a prompt is an acceptance, then events,  *)
(* and one end, in this order; "done" only when its own turn has been run, *)
(* and no prompt that was accepted is left without a goroutine until it    *)
(* has come to an end.  The end may be the error of another's turn: then   *)
(* the own turn is pending still, and nobody waits for it.                 *)
(***************************************************************************)
EndLines == {"done", "error"}

StreamFramed ==
  \A c \in Client :
    /\ \A i, j \in DOMAIN written[c] :
         i < j /\ written[c][i].turn = written[c][j].turn =>
           written[c][i].what \notin EndLines /\ written[c][j].what # "accepted"
    /\ \A i \in DOMAIN written[c] :
         LET t == written[c][i].turn
         IN /\ written[c][i].what = "done" => prompts[t].state \in {"completed", "canceled"}
            /\ written[c][i].what = "accepted" =>
                 \/ prompts[t].goroutine \in {"polls", "succeeded", "failed"}
                 \/ handler[c] = "start" /\ arg[c] = t
                 \/ c \in gone
                 \/ \E j \in DOMAIN written[c] :
                      written[c][j].turn = t /\ written[c][j].what \in EndLines

(***************************************************************************)
(* The answer of a client to a question that still waits reaches it, unless *)
(* another question has taken its ID.                                      *)
(***************************************************************************)
AnswersReach ==
  \A q \in answered :
    questions[q].state = "shown" =>
      \/ questions[q].got # 0
      \/ \E p \in DOMAIN questions : p # q /\ questions[p].id = questions[q].id
=============================================================================
