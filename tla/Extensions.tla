-------------------------------- MODULE Extensions --------------------------------
(***************************************************************************)
(* Extensions (internal/extensions): each is a Node process behind a       *)
(* bridge, a pipe in both directions.  They are found and started one      *)
(* after the other, and their hooks are asked, in that order, before a     *)
(* tool call is run.  The tool calls of one answer run side by side, so a  *)
(* bridge is shared: bridge.mu lets one request out at a time, and a       *)
(* goroutine waits for the answer, which carries no ID.  A canceled call   *)
(* lets the lock go and leaves its goroutine behind.  While an extension   *)
(* decides it may ask the user, in the same pipe; the terminal and the RPC *)
(* server can pass that on, the Telegram bot and the dashboard cannot.     *)
(***************************************************************************)
EXTENDS Integers, Sequences, FiniteSets, SequencesExt

CONSTANTS
  ToolCall,        \* the tool calls
  Ext,             \* extension files
  Found,           \* the files found, in order; a file may be found twice
  InWorkspace,     \* those under the workspace
  Operator,        \* those named by the operator
  Disabled,
  NoCall,
  MaxQuestions,    \* bounds on what the extensions ask the user,
  MaxExtDeaths     \* and on their deaths

ASSUME ExtensionsAssumption ==
  /\ Found \in Seq(Ext) /\ InWorkspace \cup Operator \cup Disabled \subseteq Ext
  /\ NoCall \notin ToolCall /\ MaxQuestions \in Nat /\ MaxExtDeaths \in Nat

VARIABLES
  trusted,      \* whether the workspace is
  hasUi,        \* whether somebody passes on questions: SetUIRequester was called
  toLoad,       \* files not looked at yet
  hooks,        \* the extensions registered, in order
  nodes,        \* the extensions whose process runs
  lock,         \* ext -> the tool call that holds bridge.mu, or NoCall
  handling,     \* ext -> the requests its process works on
  output,       \* ext -> the lines in the pipe from it
  readers,      \* ext -> the calls whose goroutine waits for a line
  verdict,      \* <<ext, call>> -> what the extension decided on the call
  hookAt,       \* call -> the hook it is at
  callState,    \* call -> "new", "hook", "waits", "refused", "executed"
  canceledAt,   \* the extensions that a call has left an answer of behind
  askers,        \* the extensions that have asked the user something
  uiQuestions, extDeaths

extVars == <<trusted, hasUi, toLoad, hooks, nodes, lock, handling, output, readers, verdict,
             hookAt, callState, canceledAt, askers, uiQuestions, extDeaths>>
bridgeVars == <<lock, handling, output, readers, verdict, hookAt, callState, canceledAt,
                askers, uiQuestions, extDeaths>>

ExtensionsInit ==
  /\ trusted \in BOOLEAN /\ hasUi \in BOOLEAN /\ toLoad = Found /\ hooks = <<>> /\ nodes = {}
  /\ lock = [e \in Ext |-> NoCall]
  /\ handling = [e \in Ext |-> {}] /\ output = [e \in Ext |-> <<>>]
  /\ readers = [e \in Ext |-> {}]
  /\ verdict = [ec \in Ext \X ToolCall |-> "none"]
  /\ hookAt = [c \in ToolCall |-> 0] /\ callState = [c \in ToolCall |-> "new"]
  /\ canceledAt = {} /\ askers = {} /\ uiQuestions = 0 /\ extDeaths = 0

-----------------------------------------------------------------------------
(* Loading.                                                                 *)

Admitted(e) ==
  /\ e \notin Disabled
  /\ trusted \/ e \in Operator \/ e \notin InWorkspace

StartBridge(e) == nodes' = nodes \cup {e}
RegisterBridge(e) == hooks' = Append(hooks, e)

Seen == {Found[i] : i \in 1 .. Len(Found) - Len(toLoad)}

\* A file that was seen before is skipped; one that does not start is only
\* reported.
LoadExtension ==
  /\ toLoad # <<>> /\ toLoad' = Tail(toLoad)
  /\ \/ /\ Admitted(Head(toLoad)) /\ Head(toLoad) \notin Seen
        /\ StartBridge(Head(toLoad)) /\ RegisterBridge(Head(toLoad))
     \/ UNCHANGED <<hooks, nodes>>
  /\ UNCHANGED <<trusted, hasUi, bridgeVars>>

-----------------------------------------------------------------------------
(* A tool call and its hooks.                                               *)

Hook(c) == hooks[hookAt[c]]

\* The next hook, or the tool itself.
ToolApproved(c) ==
  /\ hookAt' = [hookAt EXCEPT ![c] = @ + 1]
  /\ callState' = [callState EXCEPT ![c] = IF hookAt[c] = Len(hooks) THEN "executed" ELSE "hook"]
ToolRefused(c) ==
  /\ callState' = [callState EXCEPT ![c] = "refused"]
  /\ UNCHANGED hookAt

BeginToolCall(c) ==
  /\ toLoad = <<>> /\ callState[c] = "new" /\ ToolApproved(c)
  /\ UNCHANGED <<trusted, hasUi, toLoad, hooks, nodes, lock, handling, output, readers, verdict,
                 canceledAt, askers, uiQuestions, extDeaths>>

\* mutant: requests of several calls are out at a time
CallBridgeUnlocked(c) ==
  LET e == Hook(c)
  IN /\ callState[c] = "hook" /\ e \in nodes
     /\ callState' = [callState EXCEPT ![c] = "waits"]
     /\ lock' = [lock EXCEPT ![e] = c]
     /\ handling' = [handling EXCEPT ![e] = @ \cup {c}]
     /\ readers' = [readers EXCEPT ![e] = @ \cup {c}]
     /\ UNCHANGED <<trusted, hasUi, toLoad, hooks, nodes, output, verdict, hookAt, canceledAt,
                    askers, uiQuestions, extDeaths>>

\* bridge.call up to the select.
CallBridge(c) ==
  LET e == Hook(c)
  IN /\ callState[c] = "hook" /\ lock[e] = NoCall /\ e \in nodes
     /\ callState' = [callState EXCEPT ![c] = "waits"]
     /\ lock' = [lock EXCEPT ![e] = c]
     /\ handling' = [handling EXCEPT ![e] = @ \cup {c}]
     /\ readers' = [readers EXCEPT ![e] = @ \cup {c}]
     /\ UNCHANGED <<trusted, hasUi, toLoad, hooks, nodes, output, verdict, hookAt, canceledAt,
                    askers, uiQuestions, extDeaths>>

\* The write to a process that is gone fails: the hook fails, the tool does
\* not run.
CallDeadBridge(c) ==
  /\ callState[c] = "hook" /\ lock[Hook(c)] = NoCall /\ Hook(c) \notin nodes
  /\ ToolRefused(c)
  /\ UNCHANGED <<trusted, hasUi, toLoad, hooks, nodes, lock, handling, output, readers, verdict,
                 canceledAt, askers, uiQuestions, extDeaths>>

PutLine(e, line) == output' = [output EXCEPT ![e] = Append(@, line)]

\* The process works on its requests independently of each other.
Decides(e, c, how) ==
  /\ c \in handling[e]
  /\ handling' = [handling EXCEPT ![e] = @ \ {c}]
  /\ verdict' = [verdict EXCEPT ![<<e, c>>] = how]
  /\ PutLine(e, how)
  /\ UNCHANGED <<trusted, hasUi, toLoad, hooks, nodes, lock, readers, hookAt, callState,
                 canceledAt, askers, uiQuestions, extDeaths>>

Asks(e, c) ==
  /\ c \in handling[e] /\ uiQuestions < MaxQuestions
  /\ uiQuestions' = uiQuestions + 1
  /\ askers' = askers \cup {e}
  /\ PutLine(e, "question")
  /\ UNCHANGED <<trusted, hasUi, toLoad, hooks, nodes, lock, handling, readers, verdict,
                 hookAt, callState,
                 canceledAt, extDeaths>>

Waits(e, c) == callState[c] = "waits" /\ Hook(c) = e

\* What a goroutine makes of an answer; one that was left behind drops it.
Answered(e, c, how) ==
  IF ~Waits(e, c) THEN UNCHANGED <<lock, hookAt, callState>>
  ELSE /\ lock' = [lock EXCEPT ![e] = NoCall]
       /\ IF how = "allow" THEN ToolApproved(c) ELSE ToolRefused(c)

\* Whichever goroutine gets the line, two of them read without a lock.  A
\* question that is passed on is answered before the next line is read, or its
\* answer does not come and the call fails.  One that nobody passes on is taken
\* for the answer to the call, and one that blocks nothing.
ReadLine(e, c) ==
  /\ c \in readers[e] /\ output[e] # <<>>
  /\ output' = [output EXCEPT ![e] = Tail(@)]
  /\ LET line == Head(output[e])
         answer == IF line # "question" THEN line ELSE IF hasUi THEN "error" ELSE "allow"
     IN /\ \/ /\ line = "question" /\ hasUi
              /\ UNCHANGED <<readers, lock, hookAt, callState>>
           \/ /\ readers' = [readers EXCEPT ![e] = @ \ {c}]
              /\ Answered(e, c, answer)
        /\ canceledAt' = IF line = "question" /\ hasUi /\ c \notin readers'[e] /\ Waits(e, c)
                         THEN canceledAt \cup {e} ELSE canceledAt
  /\ UNCHANGED <<trusted, hasUi, toLoad, hooks, nodes, handling, verdict, askers, uiQuestions,
                 extDeaths>>

CancelCall(c) ==
  /\ callState[c] = "waits"
  /\ lock' = [lock EXCEPT ![Hook(c)] = NoCall]
  /\ canceledAt' = canceledAt \cup {Hook(c)}
  /\ ToolRefused(c)
  /\ UNCHANGED <<trusted, hasUi, toLoad, hooks, nodes, handling, output, readers, verdict,
                 askers, uiQuestions, extDeaths>>

NodeDies(e) ==
  /\ e \in nodes /\ extDeaths < MaxExtDeaths
  /\ extDeaths' = extDeaths + 1
  /\ nodes' = nodes \ {e}
  /\ handling' = [handling EXCEPT ![e] = {}]
  /\ UNCHANGED <<trusted, hasUi, toLoad, hooks, lock, output, readers, verdict, hookAt,
                 callState, canceledAt, askers, uiQuestions>>

\* The end of the pipe.
ReadEnd(e, c) ==
  /\ c \in readers[e] /\ output[e] = <<>> /\ e \notin nodes
  /\ readers' = [readers EXCEPT ![e] = @ \ {c}]
  /\ Answered(e, c, "error")
  /\ UNCHANGED <<trusted, hasUi, toLoad, hooks, nodes, handling, output, verdict, canceledAt,
                 askers, uiQuestions, extDeaths>>

ExtensionsNext ==
  \/ LoadExtension
  \/ \E c \in ToolCall : BeginToolCall(c) \/ CallBridge(c) \/ CallDeadBridge(c) \/ CancelCall(c)
  \/ \E e \in Ext, c \in ToolCall :
       \/ \E how \in {"allow", "block", "error"} : Decides(e, c, how)
       \/ Asks(e, c) \/ ReadLine(e, c) \/ ReadEnd(e, c)
  \/ \E e \in Ext : NodeDies(e)

ExtensionsSpec == ExtensionsInit /\ [][ExtensionsNext]_extVars

-----------------------------------------------------------------------------
ExtensionsTypeOK ==
  /\ IsInjective(hooks)
  /\ \A c \in ToolCall : hookAt[c] \in 0 .. Len(hooks) + 1
  /\ \A e \in Ext : lock[e] # NoCall => Waits(e, lock[e])

\* The extensions whose answers and calls may have come apart.
Astray == canceledAt \cup (IF hasUi THEN {} ELSE askers)

(***************************************************************************)
(* Every tool that runs was allowed by each extension, for this call and   *)
(* not for another of the calls that run at the same time.  There are two  *)
(* exceptions, and without either it does not hold: an earlier call of the *)
(* extension was canceled or failed before its answer had come, and the    *)
(* next one takes the late answer for its own (loader.go:447); and the     *)
(* extension has asked the user something where nobody passes it on, the   *)
(* question is taken for the answer (loader.go:415), the tool runs before  *)
(* the extension has decided, and the answer is left to the next call.     *)
(***************************************************************************)
RunsOnlyApproved ==
  \A c \in ToolCall, e \in Ext :
    callState[c] = "executed" /\ e \in ToSet(hooks) \ Astray => verdict[<<e, c>>] = "allow"
=============================================================================
