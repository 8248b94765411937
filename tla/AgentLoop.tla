----------------------------- MODULE AgentLoop -----------------------------
(***************************************************************************)
(* One run of the agent: the loop of internal/agent/loop.go, and what      *)
(* runTurn of internal/runtime/runtime.go does around it.                  *)
(*                                                                         *)
(* The loop asks the provider, executes the tool calls of its answer and   *)
(* asks again until an answer has no calls.  Meanwhile other goroutines    *)
(* put steering and follow-up messages into the turn's queues and may      *)
(* cancel its context.  runAgentWithRetry resumes a run that ended with a  *)
(* retryable error; a run that overflowed the context is started again     *)
(* after a compaction; runTurn saves what comes after the history.         *)
(*                                                                         *)
(* A message is its role and what decides how the loop goes on; call i of  *)
(* an answer has the id i.                                                 *)
(***************************************************************************)
EXTENDS Naturals, Sequences, FiniteSetsExt

CONSTANTS
  SteeringMode,    \* "all": a drain takes all steering, "one": it takes one message
  FollowUpMode,    \* the same for follow-up
  HistoryLength,   \* length of the history runTurn starts from
  HookedLengths,   \* lengths of what a BeforeAgentStart hook makes of it
  MaxCalls,        \* bound: tool calls of one answer
  MaxInjected,     \* bound: messages others put into the queues in a run
  MaxAnswers,      \* bound: answers of the provider in a run
  MaxRetries       \* AutoRetryMaxRetries, 0 when it is disabled

ASSUME AgentAssumption ==
  /\ {SteeringMode, FollowUpMode} \subseteq {"all", "one"}
  /\ HistoryLength \in Nat \ {0}
  /\ HookedLengths \subseteq Nat
  /\ MaxCalls \in Nat /\ MaxInjected \in Nat
  /\ MaxAnswers \in Nat /\ MaxRetries \in Nat

VARIABLES
  steering,    \* MessageQueues.steering
  followUp,    \* MessageQueues.followUp
  accepted,    \* the queue that accepted each injected message, in that order
  ctxDone,     \* the context of the turn is done
  phase,       \* where the run is
  continuing,  \* the loop was entered through ContinueFrom
  rerun,       \* the loop was started again after an overflow
  messages,    \* result.Messages
  outcome,     \* what the calls of the last answer have come to
  next,        \* the next call whose result is appended
  runErr,      \* the error the loop returned, by what it leads to
  attempt,     \* retries so far
  answers,     \* answers so far
  saved,       \* what runTurn appended to the session
  verdict      \* the outcome runTurn recorded

queueVars == <<steering, followUp, accepted>>
loopVars  == <<phase, messages, outcome, next, runErr, answers>>
turnVars  == <<continuing, rerun, attempt, saved, verdict>>
agentVars == <<queueVars, ctxDone, loopVars, turnVars>>

\* User messages: the prompt of the turn, and the injected ones by number.
Prompt == 0
Injected == 1 .. MaxInjected

Errors == {"retryable", "overflow", "other"}

History(n)       == [i \in 1 .. n |-> [role |-> "history"]]
User(m)          == [role |-> "user", id |-> m]
Assistant(n, s)  == [role |-> "assistant", calls |-> n, stop |-> s]
ToolResult(i, r) == [role |-> "tool", call |-> i, result |-> r]

Users(q) == [i \in DOMAIN q |-> User(q[i])]
Last(s)  == s[Len(s)]

Init ==
  /\ steering = <<>> /\ followUp = <<>> /\ accepted = <<>>
  /\ ctxDone = FALSE
  /\ phase = "start"
  /\ continuing = FALSE /\ rerun = FALSE
  /\ messages = <<>>
  /\ outcome = <<>> /\ next = 1
  /\ runErr = "none"
  /\ attempt = 0 /\ answers = 0
  /\ saved = <<>> /\ verdict = "none"

-----------------------------------------------------------------------------
(***************************************************************************)
(* The other goroutines: Runner.Steer, FollowUp and Cancel, until the run  *)
(* is unregistered.                                                        *)
(***************************************************************************)
Open == phase \notin {"saved", "panic"} /\ Len(accepted) < MaxInjected

Steer ==
  /\ Open
  /\ steering' = Append(steering, Len(accepted) + 1)
  /\ accepted' = Append(accepted, "steer")
  /\ UNCHANGED <<followUp, ctxDone, loopVars, turnVars>>

FollowUp ==
  /\ Open
  /\ followUp' = Append(followUp, Len(accepted) + 1)
  /\ accepted' = Append(accepted, "follow")
  /\ UNCHANGED <<steering, ctxDone, loopVars, turnVars>>

Cancel ==
  /\ ~ctxDone
  /\ phase \notin {"saved", "panic"}
  /\ ctxDone' = TRUE
  /\ UNCHANGED <<queueVars, loopVars, turnVars>>

\* What a drain takes from a queue, and what it leaves there.
Taken(q, m) == IF m = "all" \/ q = <<>> THEN q ELSE <<Head(q)>>

LeftNothing(q, m) == <<>>  \* mutant: the queue is emptied in both modes
Left(q, m) == IF m = "all" \/ q = <<>> THEN <<>> ELSE Tail(q)

-----------------------------------------------------------------------------
(***************************************************************************)
(* The loop of runFromWithQueuesAndImages.                                 *)
(***************************************************************************)
End(err) ==
  /\ phase' = "ended"
  /\ runErr' = err

\* What a BeforeAgentStart hook that changes the history, which is what a context
\* begins with, makes of the context.
PastLength(s) == Max({0} \cup {i \in DOMAIN s : s[i].role = "history"})
Hooked(n, s)  == History(n) \o SubSeq(s, PastLength(s) + 1, Len(s))

CannotContinue ==
  /\ continuing
  /\ messages # <<>> => Last(messages).role = "assistant"

\* A new run adds the prompt.
Start ==
  /\ phase = "start"
  /\ ~CannotContinue
  /\ \E n \in HookedLengths :
       messages' = Hooked(n, IF continuing THEN messages ELSE <<User(Prompt)>>)
  /\ phase' = "drain"
  /\ runErr' = "none"
  /\ UNCHANGED <<queueVars, ctxDone, outcome, next, answers, turnVars>>

\* ContinueFrom refuses an empty context, and one that ends with an answer.
StartRefused ==
  /\ phase = "start"
  /\ CannotContinue
  /\ messages' = <<>>
  /\ End("other")
  /\ UNCHANGED <<queueVars, ctxDone, outcome, next, answers, turnVars>>

\* The hook fails: the result is empty.
StartFails ==
  /\ phase = "start"
  /\ messages' = <<>>
  /\ \E e \in Errors : End(e)
  /\ UNCHANGED <<queueVars, ctxDone, outcome, next, answers, turnVars>>

\* Steering goes in before the provider is asked, which refuses a context
\* that is already done.
Drain ==
  /\ phase = "drain"
  /\ messages' = messages \o Users(Taken(steering, SteeringMode))
  /\ steering' = Left(steering, SteeringMode)
  /\ phase' = IF ctxDone THEN "refused" ELSE "provider"
  /\ UNCHANGED <<followUp, accepted, ctxDone, outcome, next, runErr,
                 answers, turnVars>>

\* The provider, or a hook around it, returns an error: it becomes an answer.
ProviderFails ==
  /\ phase \in {"provider", "refused"}
  /\ messages' =
       Append(messages, Assistant(0, IF ctxDone THEN "aborted" ELSE "error"))
  /\ \E e \in Errors : End(e)
  /\ UNCHANGED <<queueVars, ctxDone, outcome, next, answers, turnVars>>

\* Mutant: an answer that reports an error is taken for a final one.
AnswersAny(n, s) ==
  /\ phase = "provider"
  /\ answers < MaxAnswers
  /\ answers' = answers + 1
  /\ messages' = Append(messages, Assistant(n, s))
  /\ outcome' = [i \in 1 .. n |-> "running"]
  /\ next' = 1
  /\ phase' = IF n = 0 THEN "answered"
              ELSE IF n > 1 /\ s # "length" THEN "parallel" ELSE "sequential"
  /\ UNCHANGED <<queueVars, ctxDone, runErr, turnVars>>

\* An answer with n calls; several calls run in parallel, unless the answer
\* was cut off at the length limit.
Answers(n, s) ==
  /\ phase = "provider"
  /\ answers < MaxAnswers
  /\ answers' = answers + 1
  /\ messages' = Append(messages, Assistant(n, s))
  /\ outcome' = [i \in 1 .. n |-> "running"]
  /\ next' = 1
  /\ IF s = "error"
     THEN \E e \in Errors : End(e)
     ELSE /\ phase' = IF n = 0 THEN "answered"
                      ELSE IF n > 1 /\ s # "length" THEN "parallel"
                      ELSE "sequential"
          /\ UNCHANGED runErr
  /\ UNCHANGED <<queueVars, ctxDone, turnVars>>

\* A final answer: queued messages keep the run going, steering first.  (What
\* arrives between the two drains may as well arrive after them.)
GoOn ==
  /\ phase = "answered"
  /\ steering # <<>> \/ followUp # <<>>
  /\ IF steering # <<>>
     THEN /\ messages' = messages \o Users(Taken(steering, SteeringMode))
          /\ steering' = Left(steering, SteeringMode)
          /\ UNCHANGED followUp
     ELSE /\ messages' = messages \o Users(Taken(followUp, FollowUpMode))
          /\ followUp' = Left(followUp, FollowUpMode)
          /\ UNCHANGED steering
  /\ phase' = "drain"
  /\ UNCHANGED <<accepted, ctxDone, outcome, next, runErr, answers, turnVars>>

\* Nothing is queued, or a hook or the provider stops the run here.
Finish ==
  /\ phase = "answered"
  /\ End("none")
  /\ UNCHANGED <<queueVars, ctxDone, messages, outcome, next, answers, turnVars>>

-----------------------------------------------------------------------------
(***************************************************************************)
(* Tool calls: runParallelToolCalls, and the loop for a single call or for *)
(* the calls of an answer that was cut off.                                *)
(***************************************************************************)
Calls == DOMAIN outcome

\* One of the parallel calls ends.  It has "failed" when the execution or a hook
\* failed or there is no such tool; the text of a blocked call is "done" too.
ToolEnds(i, r) ==
  /\ phase = "parallel"
  /\ i \in Calls
  /\ outcome[i] = "running"
  /\ outcome' = [outcome EXCEPT ![i] = r]
  /\ UNCHANGED <<queueVars, ctxDone, phase, messages, next, runErr, answers, turnVars>>

\* Mutant: results are appended as the calls end.
CollectEnded ==
  /\ phase = "parallel"
  /\ \E i \in Calls :
       /\ outcome[i] \notin {"running", "collected"}
       /\ messages' = Append(messages, ToolResult(i, outcome[i]))
       /\ outcome' = [outcome EXCEPT ![i] = "collected"]
  /\ next' = next + 1
  /\ UNCHANGED <<queueVars, ctxDone, phase, runErr, answers, turnVars>>

\* When all have ended the results are appended in the order of the calls; an
\* error under a done context is an abort.
Collect ==
  /\ phase = "parallel"
  /\ next \in Calls
  /\ \A i \in Calls : outcome[i] # "running"
  /\ LET aborted == outcome[next] = "failed" /\ ctxDone
     IN /\ messages' =
             Append(messages,
                    ToolResult(next, IF aborted THEN "aborted" ELSE outcome[next]))
        /\ runErr' = IF aborted THEN "canceled" ELSE runErr
  /\ next' = next + 1
  /\ UNCHANGED <<queueVars, ctxDone, phase, outcome, answers, turnVars>>

\* The results of the last answer, which are the last messages.
Results == SubSeq(messages, Len(messages) - Len(outcome) + 1, Len(messages))

AllTerminate == \A i \in DOMAIN Results : Results[i].result = "terminate"

AfterParallel ==
  /\ phase = "parallel"
  /\ next > Len(outcome)
  /\ \/ runErr # "none" /\ End(runErr)
     \/ runErr = "none" /\ End("none")   \* all terminate, or the provider stops
     \/ runErr = "none" /\ ~AllTerminate /\ phase' = "drain" /\ UNCHANGED runErr
  /\ UNCHANGED <<queueVars, ctxDone, messages, outcome, next, answers, turnVars>>

Truncated == messages[Len(messages) - next + 1].stop = "length"

\* Mutant: an aborted call has no result.
CallEndsUnanswered(r) ==
  /\ phase = "sequential"
  /\ next \in Calls
  /\ next' = next + 1
  /\ IF r = "failed" /\ ctxDone /\ ~Truncated
     THEN End("canceled") /\ UNCHANGED messages
     ELSE /\ messages' = Append(messages, ToolResult(next, IF Truncated THEN "done" ELSE r))
          /\ UNCHANGED <<phase, runErr>>
  /\ UNCHANGED <<queueVars, ctxDone, outcome, answers, turnVars>>

\* The next call ends.  Only the execution itself can have "failed", and under a
\* done context that ends the run; the texts for a truncated, blocked or unknown
\* call and for a hook that failed are results as any other.
CallEnds(r) ==
  /\ phase = "sequential"
  /\ next \in Calls
  /\ next' = next + 1
  /\ IF r = "failed" /\ ctxDone /\ ~Truncated
     THEN /\ messages' = Append(messages, ToolResult(next, "aborted"))
          /\ End("canceled")
     ELSE /\ messages' = Append(messages, ToolResult(next, IF Truncated THEN "done" ELSE r))
          /\ UNCHANGED <<phase, runErr>>
  /\ UNCHANGED <<queueVars, ctxDone, outcome, answers, turnVars>>

\* Only here hooks prepare the next turn, which may fail, or stop the run.
AfterSequential ==
  /\ phase = "sequential"
  /\ next > Len(outcome)
  /\ \/ End("none")
     \/ ~AllTerminate /\ phase' = "drain" /\ UNCHANGED runErr
     \/ ~AllTerminate /\ \E e \in Errors : End(e)
  /\ UNCHANGED <<queueVars, ctxDone, messages, outcome, next, answers, turnVars>>

-----------------------------------------------------------------------------
(***************************************************************************)
(* runAgentWithRetry, and the overflow and the session append of runTurn.  *)
(***************************************************************************)
\* Mutant: the error stays in the context.
Untrimmed(s) == s

\* What ContinueFrom gets: without the error the run ended with.
Trimmed(s) ==
  IF s # <<>> /\ Last(s).role = "assistant" /\ Last(s).stop = "error"
  THEN SubSeq(s, 1, Len(s) - 1)
  ELSE s

MayRetry == ~rerun /\ runErr = "retryable" /\ attempt < MaxRetries /\ ~ctxDone

\* Mutant: attempts are not counted and the context is not looked at.
RetryForever ==
  /\ phase = "ended"
  /\ ~rerun /\ runErr = "retryable"
  /\ phase' = "backoff"
  /\ UNCHANGED <<queueVars, ctxDone, continuing, rerun, messages, outcome, next,
                 runErr, attempt, answers, saved, verdict>>

Retry ==
  /\ phase = "ended"
  /\ MayRetry
  /\ phase' = "backoff"
  /\ attempt' = attempt + 1
  /\ UNCHANGED <<queueVars, ctxDone, continuing, rerun, messages, outcome, next,
                 runErr, answers, saved, verdict>>

\* The timer of the delay: the context may be done, but is not looked at.
Resume ==
  /\ phase = "backoff"
  /\ continuing' = TRUE
  /\ messages' = Trimmed(messages)
  /\ phase' = "start"
  /\ UNCHANGED <<queueVars, ctxDone, outcome, next, runErr, answers, rerun,
                 attempt, saved, verdict>>

BackoffCanceled ==
  /\ phase = "backoff"
  /\ ctxDone
  /\ End("canceled")
  /\ UNCHANGED <<queueVars, ctxDone, messages, outcome, next, answers, turnVars>>

\* The final answer was cut off, or its usage is beyond the context window.
AnswerOverflows ==
  /\ runErr = "none"
  /\ messages # <<>>
  /\ Last(messages).role = "assistant"
  /\ Last(messages).stop \in {"length", "stop"}

\* Mutant: the new run does not add the prompt when the last one was resumed.
OverflowContinues ==
  /\ phase = "ended"
  /\ ~MayRetry /\ ~rerun
  /\ runErr = "overflow" \/ AnswerOverflows
  /\ rerun' = TRUE
  /\ messages' = History(HistoryLength)
  /\ phase' = "start"
  /\ UNCHANGED <<queueVars, ctxDone, continuing, outcome, next, runErr, attempt,
                 answers, saved, verdict>>

\* The context overflowed, the conversation was compacted: the run starts again
\* from the prompt, and without retries.
Overflow ==
  /\ phase = "ended"
  /\ ~MayRetry /\ ~rerun
  /\ runErr = "overflow" \/ AnswerOverflows
  /\ continuing' = FALSE
  /\ rerun' = TRUE
  /\ messages' = <<>>
  /\ phase' = "start"
  /\ UNCHANGED <<queueVars, ctxDone, outcome, next, runErr, attempt, answers,
                 saved, verdict>>

\* Nothing overflowed, or the compaction failed: the messages are saved.
\* result.Messages[len(history):] panics when the result is shorter.
SavePanics ==
  /\ phase = "ended"
  /\ ~MayRetry
  /\ Len(messages) < HistoryLength
  /\ phase' = "panic"
  /\ UNCHANGED <<queueVars, ctxDone, messages, outcome, next, runErr, answers, turnVars>>

Save ==
  /\ phase = "ended"
  /\ ~MayRetry
  /\ Len(messages) >= HistoryLength
  /\ saved' = SubSeq(messages, HistoryLength + 1, Len(messages))
  /\ verdict' = IF runErr = "none" THEN "completed"
                ELSE IF ctxDone THEN "aborted" ELSE "failed"
  /\ phase' = "saved"
  /\ UNCHANGED <<queueVars, ctxDone, continuing, rerun, messages, outcome, next,
                 runErr, attempt, answers>>

-----------------------------------------------------------------------------
ToolOutcome == {"done", "terminate", "failed"}

RunStep ==
  \/ Start \/ StartRefused \/ StartFails \/ Drain \/ ProviderFails
  \/ \E n \in 0 .. MaxCalls, e \in {"stop", "length", "error"} : Answers(n, e)
  \/ GoOn \/ Finish
  \/ \E r \in ToolOutcome : CallEnds(r) \/ \E i \in 1 .. MaxCalls : ToolEnds(i, r)
  \/ Collect \/ AfterParallel \/ AfterSequential
  \/ Retry \/ Resume \/ BackoffCanceled
  \/ Overflow \/ SavePanics \/ Save

Next ==
  \/ RunStep
  \/ Steer \/ FollowUp \/ Cancel

Spec == Init /\ [][Next]_agentVars

-----------------------------------------------------------------------------
Phases == {"start", "drain", "provider", "refused", "answered", "parallel",
           "sequential", "ended", "backoff", "saved", "panic"}

Message ==
  [role : {"history"}]
    \cup [role : {"user"}, id : Injected \cup {Prompt}]
    \cup [role : {"assistant"}, calls : 0 .. MaxCalls,
          stop : {"stop", "length", "error", "aborted"}]
    \cup [role : {"tool"}, call : 1 .. MaxCalls, result : ToolOutcome \cup {"aborted"}]

AgentTypeOK ==
  /\ steering \in Seq(Injected)
  /\ followUp \in Seq(Injected)
  /\ accepted \in Seq({"steer", "follow"})
  /\ ctxDone \in BOOLEAN
  /\ phase \in Phases
  /\ continuing \in BOOLEAN
  /\ rerun \in BOOLEAN
  /\ messages \in Seq(Message)
  /\ outcome \in Seq(ToolOutcome \cup {"running"})
  /\ next \in 1 .. MaxCalls + 1
  /\ runErr \in Errors \cup {"none", "canceled"}
  /\ attempt \in 0 .. MaxRetries
  /\ answers \in 0 .. MaxAnswers
  /\ saved \in Seq(Message)
  /\ verdict \in {"none", "completed", "failed", "aborted"}

\* The calls of answer i are followed by their results, one per call, in order.
Answered(s, i) ==
  \A j \in 1 .. s[i].calls :
    i + j \in DOMAIN s /\ s[i + j].role = "tool" /\ s[i + j].call = j

\* Tool message i is a result of a call before it.
Called(s, i) ==
  /\ s[i].call < i
  /\ LET a == s[i - s[i].call]
     IN a.role = "assistant" /\ s[i].call <= a.calls

IsError(x) == x.role = "assistant" /\ x.stop \in {"error", "aborted"}

\* Whatever was executed, blocked, truncated, failed, injected or retried: the
\* provider is asked with a context it accepts.  No answer in it is an error,
\* all calls have their results right behind them, and it does not end with an
\* answer: docs/M1-CONTRACTS.md, l. 123, and ContinueFrom's early return.
ContextPaired ==
  phase = "provider" =>
    /\ Last(messages).role # "assistant"
    /\ \A i \in DOMAIN messages :
         /\ ~IsError(messages[i])
         /\ messages[i].role = "assistant" => Answered(messages, i)
         /\ messages[i].role = "tool" => Called(messages, i)

\* So can the next turn go on from what is saved, also after an abort: only an
\* error at the very end has calls without results.
SavedPaired ==
  \A i \in DOMAIN saved :
    /\ saved[i].role = "assistant" =>
         IF IsError(saved[i]) THEN i = Len(saved) ELSE Answered(saved, i)
    /\ saved[i].role = "tool" => Called(saved, i)

\* A turn recorded as completed has no error in it, and one recorded as aborted
\* was canceled: docs/M1-CONTRACTS.md, l. 131-132.
NoFalseSuccess ==
  /\ verdict = "completed" => \A i \in DOMAIN saved : ~IsError(saved[i])
  /\ verdict = "aborted" => ctxDone

\* The messages that a queue has accepted, which are numbered in that order, are
\* in the conversation or wait in the queue, once and in order.
IsInjected(x) == x.role = "user" /\ x.id # Prompt
CameBy(x, k)  == IsInjected(x) /\ accepted[x.id] = k

KeptInOrder(k, queue) ==
  /\ \A m \in DOMAIN accepted : accepted[m] = k =>
       \/ \E i \in DOMAIN messages : messages[i] = User(m)
       \/ \E i \in DOMAIN queue : queue[i] = m
  /\ \A i, j \in DOMAIN messages :
       i < j /\ CameBy(messages[i], k) /\ CameBy(messages[j], k) => messages[i].id < messages[j].id
  /\ \A i \in DOMAIN messages, j \in DOMAIN queue :
       CameBy(messages[i], k) => messages[i].id < queue[j]
  /\ \A j \in DOMAIN queue : accepted[queue[j]] = k
  /\ \A i, j \in DOMAIN queue : i < j => queue[i] < queue[j]

\* What a queue has accepted is kept through tool calls, errors, aborts and
\* retries.  Two events lose what was taken: a run that starts again after an
\* overflow, and a hook that fails and leaves no result.
InjectedKept ==
  ~rerun /\ messages # <<>> => KeptInOrder("steer", steering) /\ KeptInOrder("follow", followUp)

\* What a turn saves is what came after the history, from its prompt on: "Hooks
\* can replace messages without mutating durable agent history", handoff.md,
\* l. 922.
SavedFromPrompt ==
  phase = "saved" => saved # <<>> /\ saved[1] = User(Prompt)

\* The run goes on by itself when its context is done: the provider and the
\* tools get that context and return.
CancelFairness == WF_agentVars(ctxDone /\ RunStep)

FairSpec == Spec /\ CancelFairness

\* A canceled run ends, in whatever phase the cancellation finds it.
CancelEnds == ctxDone ~> phase \in {"saved", "panic"}
=============================================================================
