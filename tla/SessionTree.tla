------------------------------ MODULE SessionTree ------------------------------
(***************************************************************************)
(* One session and the compactions of it (internal/session/session.go and  *)
(* compactConversation of internal/runtime/runtime.go), with one handle at *)
(* a time: turns append their messages, the user goes back to an earlier   *)
(* entry, and a summary takes the place of old messages.  What concurrent  *)
(* handles do to each other is in SessionLog.                              *)
(*                                                                         *)
(* An entry's ID is its position: IDs are random and unique.               *)
(***************************************************************************)
EXTENDS SessionEntries

CONSTANTS
  TreeShapes,     \* what a turn may append, as sequences of <<role, tokens, ops>>
  KeepTurns,      \* AutoCompactTurns, or the turns /compact keeps
  TokenBudgets,   \* settings of AutoCompactKeepRecentTokens, 0 for none
  MaxLog,         \* bound on the length of the log
  MaxBranches     \* bound on the number of branches

\* The results of an assistant message's calls follow it, before what comes next
\* (the agent loop appends them together).
ResultsFollow(shape) ==
  \A k \in DOMAIN shape : shape[k][1] = "toolResult" =>
    k > 1 /\ shape[k - 1][1] \in {"assistant", "toolResult"}

ASSUME TreeAssumption ==
  /\ \A shape \in TreeShapes : shape \in Seq(Range(shape)) /\ ResultsFollow(shape)
  /\ KeepTurns \in Nat \ {0}
  /\ TokenBudgets \subseteq Nat
  /\ MaxLog \in Nat /\ MaxBranches \in Nat

VARIABLES
  log,            \* entries
  keepTokens      \* the setting of this deployment

treeVars == <<log, keepTokens>>

Leaf == LastId(log)
Context == ContextMessages(log, Leaf)
NextId == Len(log) + 1
ActiveIds == {log[i].id : i \in Range(ActiveEntries(log, Leaf))}
ContextIds == {log[i].id : i \in Context.messages}

TreeInit ==
  /\ log = <<>>
  /\ keepTokens \in TokenBudgets

\* Each entry hangs on the one before it; a tool result is of the last
\* assistant message before it.
TurnEntriesUnlinked(shape) ==   \* mutant: an entry is its own parent
  [k \in 1..Len(shape) |->
     Message(Len(log) + k, Leaf + k, shape[k][1], NoEntry, shape[k][2], shape[k][3])]

TurnEntries(shape) ==
  LET n == Len(shape)
      Calls(k) == {j \in 1..(k - 1) : shape[j][1] = "assistant"}
      messages == [k \in 1..n |->
        Message(Len(log) + k, Leaf + (k - 1), shape[k][1],
                IF shape[k][1] = "toolResult" THEN Len(log) + Max(Calls(k)) ELSE NoEntry,
                shape[k][2], shape[k][3])]
  IN messages \o <<Entry(Len(log) + n + 1, Len(log) + n, "operation_finished")>>

\* The save at the end of runTurn: the turn's messages and its outcome.
AppendTurn ==
  \E shape \in TreeShapes :
    /\ Len(log) + Len(shape) + 1 <= MaxLog
    /\ log' = log \o TurnEntries(shape)
    /\ UNCHANGED keepTokens

Branches == {i \in DOMAIN log : log[i].type = "branch"}

Branch ==
  \E i \in DOMAIN log :
    /\ Cardinality(Branches) < MaxBranches
    /\ NextId <= MaxLog
    /\ log' = Append(log, Entry(NextId, log[i].id, "branch"))
    /\ UNCHANGED keepTokens

CurrentPlan ==
  IF keepTokens > 0
  THEN PrepareCompactionByTokens(log, keepTokens)
  ELSE PrepareCompaction(log, KeepTurns)

\* A provider that fails or answers nothing leaves the log as it is.
Compact ==
  LET plan == CurrentPlan
  IN /\ NextId <= MaxLog
     /\ Storable(plan)
     /\ log' = Append(log, Compaction(NextId, Leaf, plan.kept, Summarised(log, plan), plan.details))
     /\ UNCHANGED keepTokens

TreeNext == AppendTurn \/ Branch \/ Compact

TreeSpec == TreeInit /\ [][TreeNext]_treeVars

-----------------------------------------------------------------------------
(* Type invariant. *)

TreeTypeOK ==
  /\ keepTokens \in TokenBudgets
  /\ \A i \in DOMAIN log :
       /\ log[i].id = i
       /\ log[i].parent \in 0..(i - 1)
       /\ log[i].kept \in 0..(i - 1)
       /\ log[i].covers \subseteq 1..(i - 1)

(***************************************************************************)
(* A compaction forgets nothing: every message on the active path is given *)
(* to the provider, or its text went into the summary that stands before   *)
(* the context.  The exception is in the code: when a split turn is all    *)
(* there is to summarise, the provider is not asked (runtime.go:474).      *)
(***************************************************************************)
PrefixOnly(i) == \E c \in DOMAIN log :
  /\ IsCompaction(log[c]) /\ log[c].covers = {} /\ i < log[c].kept
NothingForgotten ==
  LET summary == Context.summary
      known == ContextIds \cup (IF summary = NoEntry THEN {} ELSE log[summary].covers)
  IN \A i \in ActiveIds : IsMessage(log[i]) => i \in known \/ PrefixOnly(i)

(***************************************************************************)
(* A tool result is never in the context without the assistant message     *)
(* that holds its call (session.go:935: never cutting before a tool        *)
(* result's assistant turn); providers refuse such a context.              *)
(***************************************************************************)
ResultsKeepTheirCalls ==
  LET ids == ContextIds
  IN \A i \in ids : log[i].role = "toolResult" => log[i].of \in ids
=============================================================================
