----------------------------- MODULE TurnRunner -----------------------------
(***************************************************************************)
(* The runners of internal/runtime/runtime.go over the durable queue.      *)
(*                                                                         *)
(* Every Handle is a process with one Queue and one Runner.  Submitting a  *)
(* turn starts a goroutine, the submitter, that polls the queue            *)
(* (runSubmitted) and runs whatever turn of the conversation it can claim, *)
(* its own or another's, until its own turn has run, a turn it ran failed, *)
(* or its caller's context is done.  A submitter is named by the turn it   *)
(* submitted.                                                              *)
(*                                                                         *)
(* Running a claimed turn (runClaimed, runTurn): the agent works; its      *)
(* messages are appended to the session file; then the turn is completed   *)
(* or canceled in the queue.  A watcher renews the lease and cancels the   *)
(* turn's context when the queue says that the turn is no longer its own.  *)
(* Runner.Cancel cancels a local context and settles the turn in the queue *)
(* at once, while the work winds down in its own time.                     *)
(*                                                                         *)
(* The steps of the queue are those of TurnQueue.  The session file is     *)
(* the order in which turns have appended their messages to it.            *)
(***************************************************************************)
EXTENDS TurnQueue, Sequences

CONSTANTS
  Cancellable,   \* the turns somebody may cancel through Runner.Cancel
  Failing,       \* the turns whose run may end with an error
  Impatient,     \* the turns whose submitter's context may be done
  StallFree,     \* no live worker keeps a turn beyond its lease
  Unreliable,    \* the processes that may fail to read or write the queue file
  SaveMayFail,   \* a run may fail before or in its append: see SaveFails
  MaxAppends     \* bound: session appends in a behaviour

ASSUME RunnerAssumption ==
  /\ None \notin Turn
  /\ Cancellable \subseteq Turn
  /\ Failing \subseteq Turn
  /\ Impatient \subseteq Turn
  /\ StallFree \in BOOLEAN
  /\ Unreliable \subseteq Handle
  /\ SaveMayFail \in BOOLEAN
  /\ MaxAppends \in Nat

VARIABLES
  loop,        \* where each submitter is in runSubmitted
  home,        \* the process a turn was submitted to
  running,     \* the turn a submitter is running
  cancelled,   \* turnCtx.Err() # nil for the run of a submitter
  runErr,      \* the run of a submitter ended with an error
  active,      \* Runner.active: the run a local cancel of a turn reaches
  caller,      \* the submitter on whose behalf the flock holder claims
  transcript   \* the turns in the order of their session appends

runVars == <<loop, home, running, cancelled, runErr, active, caller, transcript>>
allVars == <<vars, runVars>>

RunInit ==
  /\ Init
  /\ loop = [s \in Turn |-> "new"]
  /\ home = [s \in Turn |-> None]
  /\ running = [s \in Turn |-> None]
  /\ cancelled = [s \in Turn |-> FALSE]
  /\ runErr = [s \in Turn |-> FALSE]
  /\ active = [h \in Handle |-> [t \in Turn |-> None]]
  /\ caller = None
  /\ transcript = <<>>

\* A submitter between the claim of a turn and its settlement.
Working(s) ==
  loop[s] \in {"run", "persist", "completing", "canceling"}

\* runClaimed has not returned: the run is still registered.
InRun(s) == Working(s) \/ loop[s] = "leave"

-----------------------------------------------------------------------------
(***************************************************************************)
(* Submit, and the polling loop.                                           *)
(***************************************************************************)
SubmitBegin(h, s) ==
  /\ loop[s] = "new"
  /\ EnqueueBegin(h)
  /\ loop' = [loop EXCEPT ![s] = "submit"]
  /\ home' = [home EXCEPT ![s] = h]
  /\ UNCHANGED <<running, cancelled, runErr, active, caller, transcript>>

Submitted(s) ==
  /\ loop[s] = "submit"
  /\ EnqueueWrite(home[s], s)
  /\ loop' = [loop EXCEPT ![s] = "poll"]
  /\ UNCHANGED <<home, running, cancelled, runErr, active, caller, transcript>>

SubmitFails(s) ==
  /\ loop[s] = "submit"
  /\ home[s] \in Unreliable
  /\ WriteFails(home[s])
  /\ loop' = [loop EXCEPT ![s] = "returned"]
  /\ UNCHANGED <<home, running, cancelled, runErr, active, caller, transcript>>

Poll(s) ==
  /\ loop[s] = "poll"
  /\ ClaimBegin(home[s], ConversationOf[s])
  /\ caller' = s
  /\ UNCHANGED <<loop, home, running, cancelled, runErr, active, transcript>>

Sweep(s) ==
  /\ caller = s
  /\ \E t \in Turn : Requeue(home[s], t) \/ FindBusy(home[s], t)
  /\ UNCHANGED runVars

\* The claimed turn is registered for local cancellation and starts to run.
StartRun(s, t) ==
  /\ caller = s
  /\ ClaimFirst(home[s], t)
  /\ loop' = [loop EXCEPT ![s] = "run"]
  /\ running' = [running EXCEPT ![s] = t]
  /\ cancelled' = [cancelled EXCEPT ![s] = FALSE]
  /\ runErr' = [runErr EXCEPT ![s] = FALSE]
  /\ active' = [active EXCEPT ![home[s]][t] = s]
  /\ caller' = None
  /\ UNCHANGED <<home, transcript>>

\* Mutant: a submitter that finds the conversation busy does not wait.
PollOnce(s) ==
  /\ caller = s
  /\ ClaimNothing(home[s])
  /\ caller' = None
  /\ loop' = [loop EXCEPT ![s] = "returned"]
  /\ UNCHANGED <<home, running, cancelled, runErr, active, transcript>>

PollAgain(s) ==
  /\ caller = s
  /\ ClaimNothing(home[s])
  /\ caller' = None
  /\ UNCHANGED <<loop, home, running, cancelled, runErr, active, transcript>>

\* Claim returns an error, and so does runSubmitted.
PollFails(s) ==
  /\ caller = s
  /\ home[s] \in Unreliable
  /\ WriteFails(home[s])
  /\ loop' = [loop EXCEPT ![s] = "returned"]
  /\ caller' = None
  /\ UNCHANGED <<home, running, cancelled, runErr, active, transcript>>

\* The submitter's own context is done while it waits for a turn to claim.
GiveUp(s) ==
  /\ s \in Impatient
  /\ loop[s] = "poll"
  /\ caller # s
  /\ loop' = [loop EXCEPT ![s] = "returned"]
  /\ UNCHANGED <<vars, home, running, cancelled, runErr, active, caller, transcript>>

-----------------------------------------------------------------------------
(***************************************************************************)
(* One run: the agent, the session append, the queue.                      *)
(***************************************************************************)
\* What runClaimed decides once runTurn returned: turnCtx is done, or the run's
\* own error is a context.Canceled.  A cancellation that comes later finds it
\* decided; one between the append and the decision may as well come before.
Outcomes(canceled, failed) ==
  IF canceled THEN {"canceling"}
  ELSE IF failed THEN {"completing", "canceling"} ELSE {"completing"}

\* Mutant: the turn is settled before its messages are in the session file.
AgentEndsSettled(s, failed) ==
  /\ loop[s] = "run"
  /\ failed => running[s] \in Failing \/ cancelled[s]
  /\ Finish(home[s], running[s], "complete")
  /\ runErr' = [runErr EXCEPT ![s] = failed]
  /\ loop' = [loop EXCEPT ![s] = "persist"]
  /\ UNCHANGED <<home, running, cancelled, active, caller, transcript>>

\* Mutant: a failed run returns before its messages are saved.
AgentEndsUnsaved(s, failed) ==
  /\ loop[s] = "run"
  /\ failed => running[s] \in Failing \/ cancelled[s]
  /\ runErr' = [runErr EXCEPT ![s] = failed]
  /\ loop' = [loop EXCEPT ![s] =
                IF failed /\ ~cancelled[s] THEN "completing" ELSE "persist"]
  /\ UNCHANGED <<vars, home, running, cancelled, active, caller, transcript>>

\* A cancelled agent ends with an error, or with a result it already had.
AgentEnds(s, failed) ==
  /\ loop[s] = "run"
  /\ failed => running[s] \in Failing \/ cancelled[s]
  /\ runErr' = [runErr EXCEPT ![s] = failed]
  /\ loop' = [loop EXCEPT ![s] = "persist"]
  /\ UNCHANGED <<vars, home, running, cancelled, active, caller, transcript>>

\* runTurn appends its messages and the outcome under the path lock; it asks
\* nobody whether the turn is still its own.
Persist(s) ==
  /\ loop[s] = "persist"
  /\ Len(transcript) < MaxAppends
  /\ transcript' = Append(transcript, running[s])
  /\ \E o \in Outcomes(cancelled[s], runErr[s]) : loop' = [loop EXCEPT ![s] = o]
  /\ UNCHANGED <<vars, home, running, cancelled, runErr, active, caller>>

\* The session cannot be opened or appended to, or an automatic compaction fails
\* or finds the runner's slot taken: runTurn returns the error, and runClaimed
\* goes on to settle the turn as it would after a run that is saved.
SaveFails(s) ==
  /\ SaveMayFail
  /\ loop[s] \in {"run", "persist"}
  /\ \E o \in Outcomes(cancelled[s], TRUE) : loop' = [loop EXCEPT ![s] = o]
  /\ runErr' = [runErr EXCEPT ![s] = TRUE]
  /\ UNCHANGED <<vars, home, running, cancelled, active, caller, transcript>>

Settle(s) ==
  \/ loop[s] = "completing" /\ Finish(home[s], running[s], "complete")
  \/ loop[s] = "canceling" /\ Finish(home[s], running[s], "canceled")

SettleRun(s) ==
  /\ Settle(s)
  /\ loop' = [loop EXCEPT ![s] = "leave"]
  /\ UNCHANGED <<home, running, cancelled, runErr, active, caller, transcript>>

\* The turn was canceled or taken over and finish() refuses, or the disk fails;
\* the error is ignored.
SettleRefused(s) ==
  /\ loop[s] \in {"completing", "canceling"}
  /\ MayCall(home[s])
  /\ ~Owns(home[s], running[s]) \/ home[s] \in Unreliable
  /\ loop' = [loop EXCEPT ![s] = "leave"]
  /\ UNCHANGED <<vars, home, running, cancelled, runErr, active, caller, transcript>>

\* The run is over: runSubmitted returns, or polls again for its own turn.
Leave(s) ==
  /\ loop' = [loop EXCEPT ![s] =
                IF running[s] = s \/ runErr[s] THEN "returned" ELSE "poll"]
  /\ cancelled' = [cancelled EXCEPT ![s] = FALSE]
  /\ runErr' = [runErr EXCEPT ![s] = FALSE]
  /\ UNCHANGED <<vars, home, caller, transcript>>

\* Mutant: the run stays registered for local cancellation.
EndRunRegistered(s) ==
  /\ loop[s] = "leave"
  /\ running' = [running EXCEPT ![s] = None]
  /\ Leave(s)
  /\ UNCHANGED active

\* The deferred calls of runClaimed unregister the turn's run, whichever it is.
EndRun(s) ==
  /\ loop[s] = "leave"
  /\ active' = [active EXCEPT ![home[s]][running[s]] = None]
  /\ running' = [running EXCEPT ![s] = None]
  /\ Leave(s)

-----------------------------------------------------------------------------
(***************************************************************************)
(* The watcher of a run, and cancellation.                                 *)
(***************************************************************************)
\* The watcher leaves when the context is done: a canceled run is not renewed.
RenewRun(s) ==
  /\ Working(s)
  /\ ~cancelled[s]
  /\ file[running[s]].ttl < Lease
  /\ Renew(home[s], running[s])
  /\ UNCHANGED runVars

\* Mutant: the watcher compares the status and forgets the owner.
WatchStatusOnly(s) ==
  /\ Working(s)
  /\ ~cancelled[s]
  /\ MayCall(home[s])
  /\ file[running[s]].status # "active" \/ home[s] \in Unreliable
  /\ cancelled' = [cancelled EXCEPT ![s] = TRUE]
  /\ UNCHANGED <<vars, loop, home, running, runErr, active, caller, transcript>>

\* Renew or Get fails, or Get shows another status or owner.
WatchLoss(s) ==
  /\ Working(s)
  /\ ~cancelled[s]
  /\ MayCall(home[s])
  /\ ~Owns(home[s], running[s]) \/ home[s] \in Unreliable
  /\ cancelled' = [cancelled EXCEPT ![s] = TRUE]
  /\ UNCHANGED <<vars, loop, home, running, runErr, active, caller, transcript>>

\* Runner.Cancel: first the local context, when the turn runs here ...
CancelLocal(h, t) ==
  /\ t \in Cancellable
  /\ pc[h] # "dead"
  /\ active[h][t] # None
  /\ cancelled' = [cancelled EXCEPT ![active[h][t]] = TRUE]
  /\ UNCHANGED <<vars, loop, home, running, runErr, active, caller, transcript>>

\* ... then the queue, from any process.
CancelDurable(h, t) ==
  /\ t \in Cancellable
  /\ CancelActive(h, t)
  /\ UNCHANGED runVars

\* The context of the submitter is done while it runs a turn.
LoseCaller(s) ==
  /\ s \in Impatient
  /\ Working(s)
  /\ ~cancelled[s]
  /\ cancelled' = [cancelled EXCEPT ![s] = TRUE]
  /\ UNCHANGED <<vars, loop, home, running, runErr, active, caller, transcript>>

-----------------------------------------------------------------------------
\* With StallFree a live worker renews its lease before it expires, and once
\* canceled winds down before it expires.
LastTick(s) ==
  /\ Working(s)
  /\ Owns(home[s], running[s])
  /\ file[running[s]].ttl = 1

Elapse ==
  /\ StallFree => \A s \in Turn : ~LastTick(s)
  /\ Tick
  /\ UNCHANGED runVars

\* A process dies with all its submitters; their turns stay in the file.
Die(h) ==
  /\ Crash(h)
  /\ LET gone == {s \in Turn : home[s] = h /\ loop[s] # "returned"}
     IN /\ loop' = [s \in Turn |-> IF s \in gone THEN "gone" ELSE loop[s]]
        /\ running' = [s \in Turn |-> IF s \in gone THEN None ELSE running[s]]
        /\ cancelled' = [s \in Turn |-> s \notin gone /\ cancelled[s]]
        /\ runErr' = [s \in Turn |-> s \notin gone /\ runErr[s]]
        /\ caller' = IF lock = h THEN None ELSE caller
  /\ active' = [active EXCEPT ![h] = [t \in Turn |-> None]]
  /\ UNCHANGED <<home, transcript>>

Submitter(s) ==
  \/ Submitted(s) \/ SubmitFails(s)
  \/ Poll(s) \/ Sweep(s) \/ PollAgain(s) \/ PollFails(s) \/ GiveUp(s)
  \/ \E t \in Turn : StartRun(s, t)
  \/ \E failed \in BOOLEAN : AgentEnds(s, failed)
  \/ Persist(s) \/ SaveFails(s)
  \/ SettleRun(s) \/ SettleRefused(s) \/ EndRun(s)
  \/ RenewRun(s) \/ WatchLoss(s) \/ LoseCaller(s)

RunNext ==
  \/ \E h \in Handle : Die(h)
  \/ \E h \in Handle, t \in Turn :
       SubmitBegin(h, t) \/ CancelLocal(h, t) \/ CancelDurable(h, t)
  \/ \E s \in Turn : Submitter(s)
  \/ Elapse

RunSpec == RunInit /\ [][RunNext]_allVars
-----------------------------------------------------------------------------
RunTypeOK ==
  /\ TypeOK
  /\ loop \in [Turn -> {"new", "submit", "poll", "run", "persist",
                        "completing", "canceling", "leave", "returned", "gone"}]
  /\ home \in [Turn -> Handle \cup {None}]
  /\ running \in [Turn -> Turn \cup {None}]
  /\ cancelled \in [Turn -> BOOLEAN]
  /\ runErr \in [Turn -> BOOLEAN]
  /\ active \in [Handle -> [Turn -> Turn \cup {None}]]
  /\ caller \in Turn \cup {None}
  /\ transcript \in Seq(Turn)
  /\ \A s \in Turn : InRun(s) <=> running[s] # None

\* No two runs of one conversation at the same time, whatever process they
\* are in: docs/M1-CONTRACTS.md, section 7.
OneRunner ==
  \A r, s \in Turn :
    /\ Working(r)
    /\ Working(s)
    /\ ConversationOf[running[r]] = ConversationOf[running[s]]
    => r = s

\* The session file has the turns of a conversation in submission order, so
\* the model reads the conversation as it was held.
TranscriptInOrder ==
  \A i, j \in DOMAIN transcript :
    i < j => ~Earlier(transcript[j], transcript[i])

\* A turn the queue calls complete has its messages in the session file, also
\* when its first worker died or lost it half way: docs/M1-CONTRACTS.md, l. 85.
CompleteIsRecorded ==
  \A t \in Turn :
    file[t].status = "complete" => \E i \in DOMAIN transcript : transcript[i] = t

\* A local cancel reaches a run of exactly the turn it names.
CancelHitsItsTurn ==
  \A h \in Handle, t \in Turn :
    active[h][t] # None =>
      /\ home[active[h][t]] = h
      /\ running[active[h][t]] = t

-----------------------------------------------------------------------------
ClaimGoesOn(s) == Sweep(s) \/ PollAgain(s) \/ \E t \in Turn : StartRun(s, t)

\* The goroutines are scheduled, the agent ends, calls of the queue that are
\* possible again and again are made.  Nobody has to submit, cancel or crash.
RunFairness ==
  /\ WF_allVars(Elapse)
  /\ \A s \in Turn :
       /\ WF_allVars(Submitted(s))
       /\ SF_allVars(Poll(s))
       /\ WF_allVars(ClaimGoesOn(s))
       /\ WF_allVars(\E failed \in BOOLEAN : AgentEnds(s, failed))
       /\ WF_allVars(Persist(s))
       /\ SF_allVars(SettleRun(s) \/ SettleRefused(s))
       /\ WF_allVars(EndRun(s))

RunFairSpec == RunSpec /\ RunFairness

\* A process has died and no submitter is left in any other.
Deserted ==
  /\ \E s \in Turn : loop[s] = "gone"
  /\ \A s \in Turn : loop[s] \in {"new", "returned", "gone"}

\* Every accepted turn is run and settled.  A submitter that leaves early with
\* another turn's error leaves one behind that still polls; and the turn of a
\* process that has died is taken over when its lease has run out, as long as
\* there is a submitter of the conversation in a process that lives.
EveryTurnRuns == \A t \in Turn : (rank[t] > 0) ~> (Settled(file[t]) \/ Deserted)

\* The submitter of a turn gets its result: RunSubmitted returns, as
\* TestRunnerWaitsForQueuedTurnInsteadOfRejectingIt expects of both runners.
SubmitterReturns == \A s \in Turn : (loop[s] = "poll") ~> (loop[s] = "returned")

\* The fairness of the watcher and of the calls of the queue: an agent may hang, and ends
\* only when its context is done (the provider and the tools get that context).
WatchFairness ==
  \A s \in Turn :
    /\ WF_allVars(Submitted(s))
    /\ WF_allVars(ClaimGoesOn(s))
    /\ SF_allVars(WatchLoss(s))
    /\ WF_allVars(cancelled[s] /\ \E failed \in BOOLEAN : AgentEnds(s, failed))

RunWatchSpec == RunSpec /\ WatchFairness

\* A run whose turn was canceled or taken over elsewhere is stopped, also when
\* its agent hangs, unless its own process has claimed the turn again: the
\* owner is the process, so the watcher cannot tell that claim from its own.
LostRunStops ==
  \A s \in Turn :
    loop[s] = "run" /\ ~Owns(home[s], running[s])
      ~> loop[s] # "run" \/ Owns(home[s], running[s])
=============================================================================
