------------------------------ MODULE SessionLog ------------------------------
(***************************************************************************)
(* The handles that work on one session file inside one process: the turns *)
(* of its conversation (runTurn), compactions (compactConversation), a     *)
(* client that branches, and the task boundary detector that lives on      *)
(* after its turn.  Each keeps the entries it has read and the leaf it     *)
(* appends to (session.Session); only the save at the end of a turn takes  *)
(* the path lock (session/lock.go) and reads the file again first.         *)
(*                                                                         *)
(* One write of one line is one step.  publish, which creates the file and *)
(* writes the pending entries, is one step too.                            *)
(***************************************************************************)
EXTENDS SessionEntries

CONSTANTS
  Turn, Compactor, Brancher,   \* who works on the file
  NoOne,
  Overlap,        \* may two turns run at once? (a canceled one winds down)
  Detector,       \* the turns with a TaskBoundaryProvider
  TurnShapes,     \* what a turn may save, as sequences of roles
  MaxFailures,    \* bound on failed writes
  MaxEntries,     \* bound on the IDs given out
  MaxToolEntries  \* bound on what tools append

ASSUME LogAssumption ==
  /\ Overlap \in BOOLEAN /\ Detector \subseteq Turn /\ MaxFailures \in Nat
  /\ MaxEntries \in Nat /\ MaxToolEntries \in Nat
  /\ NoOne \notin Turn \cup Compactor

Actor == Turn \cup Compactor \cup Brancher

VARIABLES
  exists, file,   \* the session file
  handle,         \* per actor: what it has read, its leaf, and flushed
  at,             \* per actor: where it is in its code
  plan,           \* per actor: the compaction it waits for, with its parent
  pathLock,       \* the mutex of this path, or NoOne
  compacting,     \* Runner.compacting
  nextId,         \* fresh IDs
  unsaved,        \* per turn: the messages runTurn still has to append
  messages,       \* per turn: the IDs of those it has appended (history)
  seen,           \* per turn: the dialogue in the file when it took the lock (history)
  tooled,         \* how many entries tools have appended
  failed          \* IDs of entries whose write failed (history)

logVars == <<exists, file, handle, at, plan, pathLock, compacting, nextId,
             unsaved, messages, seen, tooled, failed>>

NoHandle == [entries |-> <<>>, leaf |-> NoEntry, flushed |-> FALSE]
Opened == [entries |-> file, leaf |-> LastId(file), flushed |-> TRUE]
OpenOrCreate == IF exists THEN Opened ELSE NoHandle

Active(t) == at[t] \in {"run", "summarising", "reload", "saving"}
SomeActive == \E t \in Turn : Active(t)

LogInit ==
  /\ exists = FALSE /\ file = <<>>
  /\ handle = [a \in Actor |-> NoHandle]
  /\ at = [a \in Actor |-> "idle"]
  /\ plan = [a \in Actor |-> NoPlan]
  /\ pathLock = NoOne /\ compacting = NoOne
  /\ nextId = 1
  /\ unsaved = [t \in Turn |-> <<>>]
  /\ messages = [t \in Turn |-> <<>>]
  /\ seen = [t \in Turn |-> {}]
  /\ tooled = 0
  /\ failed = {}

Go(a, place) == at' = [at EXCEPT ![a] = place]

(***************************************************************************)
(* Appending an entry through the handle of a: first to the entries in     *)
(* memory, then to the file.  A handle that is not flushed publishes, or   *)
(* keeps the entry pending (Append, for all but assistant messages).       *)
(***************************************************************************)
Publishes(h, entry) == ~h.flushed /\ (IsMessage(entry) => entry.role = "assistant")
Pending(h, entry) == ~h.flushed /\ ~Publishes(h, entry)

\* mutant: the leaf stays where it was
ExtendInPlace(h, entry, ok) ==
  [entries |-> Append(h.entries, entry), leaf |-> h.leaf,
   flushed |-> h.flushed \/ (ok /\ Publishes(h, entry))]

Extend(h, entry, ok) ==
  [entries |-> Append(h.entries, entry), leaf |-> entry.id,
   flushed |-> h.flushed \/ (ok /\ Publishes(h, entry))]

CanFail == Cardinality(failed) < MaxFailures
Fresh == nextId <= MaxEntries

WrittenAlone(h, entry) == Append(file, entry)   \* mutant: what was pending is lost
Written(h, entry) ==
  IF Publishes(h, entry) THEN Append(h.entries, entry) ELSE Append(file, entry)

AppendEntry(a, entry, ok) ==
  LET h == handle[a]
  IN /\ Fresh
     /\ ok \in BOOLEAN
     /\ Publishes(h, entry) /\ exists => ~ok        \* O_EXCL
     /\ ~ok => (CanFail \/ (Publishes(h, entry) /\ exists)) /\ ~Pending(h, entry)
     /\ handle' = [handle EXCEPT ![a] = Extend(h, entry, ok)]
     /\ nextId' = nextId + 1
     /\ IF Pending(h, entry) THEN UNCHANGED <<exists, file, failed>>
        ELSE IF ok THEN exists' = TRUE /\ file' = Written(h, entry) /\ UNCHANGED failed
        ELSE failed' = failed \cup {entry.id} /\ UNCHANGED <<exists, file>>

-----------------------------------------------------------------------------
(* A turn. *)

OpenTurn(t) ==
  /\ at[t] = "idle"
  /\ ~Overlap => ~SomeActive
  /\ Go(t, "run")
  /\ handle' = [handle EXCEPT ![t] = OpenOrCreate]
  /\ UNCHANGED <<exists, file, plan, pathLock, compacting, nextId, unsaved, messages, seen, tooled, failed>>

\* Tools append at once and without the lock: working notes (an artifact is
\* appended the same way), and bash executions, which are messages.  A
\* failure is the tool's result.
ToolEntry(t) ==
  /\ at[t] = "run"
  /\ tooled < MaxToolEntries
  /\ tooled' = tooled + 1
  /\ \E ok \in BOOLEAN :
       \/ AppendEntry(t, [Entry(nextId, handle[t].leaf, "working_note") EXCEPT !.role = "text"], ok)
       \/ AppendEntry(t, Message(nextId, handle[t].leaf, "bashExecution", NoEntry, 1, {}), ok)
  /\ UNCHANGED <<at, plan, pathLock, compacting, unsaved, messages, seen>>

\* The messages of turns that the conversation now consists of.
ActiveDialogue ==
  LET saved == UNION {Range(messages[t]) : t \in Turn}
  IN saved \cap {file[i].id : i \in Range(ActiveEntries(file, LastId(file)))}

\* mutant: the save goes on from what the turn read when it began
BeginSaveStale(t) ==
  /\ at[t] = "run"
  /\ pathLock = NoOne
  /\ pathLock' = t
  /\ seen' = [seen EXCEPT ![t] = ActiveDialogue]
  /\ unsaved' = [unsaved EXCEPT ![t] = <<"user", "assistant">>]
  /\ Go(t, "saving")
  /\ UNCHANGED <<exists, file, handle, plan, compacting, nextId, messages, tooled, failed>>

\* The end of runTurn, under the path lock: an answered turn, one that ended
\* before an answer, or one that was steered.
BeginSave(t) ==
  /\ at[t] = "run"
  /\ pathLock = NoOne
  /\ pathLock' = t
  /\ handle' = [handle EXCEPT ![t] = IF exists THEN Opened ELSE @]
  /\ seen' = [seen EXCEPT ![t] = ActiveDialogue]
  /\ \E roles \in TurnShapes :
       unsaved' = [unsaved EXCEPT ![t] = roles]
  /\ Go(t, "saving")
  /\ UNCHANGED <<exists, file, plan, compacting, nextId, messages, tooled, failed>>

\* mutant: a failed save keeps the lock
ReleaseNever(t, ok, place) == Go(t, IF ok THEN "saving" ELSE place) /\ UNCHANGED pathLock

Release(t, ok, place) ==
  IF ok THEN Go(t, "saving") /\ UNCHANGED pathLock
  ELSE Go(t, place) /\ pathLock' = NoOne

SaveMessage(t) ==
  /\ at[t] = "saving"
  /\ unsaved[t] # <<>>
  /\ \E ok \in BOOLEAN :
       /\ AppendEntry(t, Message(nextId, handle[t].leaf, Head(unsaved[t]), NoEntry, 1, {}), ok)
       /\ Release(t, ok, "failed")
  /\ unsaved' = [unsaved EXCEPT ![t] = Tail(@)]
  /\ messages' = [messages EXCEPT ![t] = Append(@, nextId)]
  /\ UNCHANGED <<plan, compacting, seen, tooled>>

WorkingNote(h) ==
  LET path == ActiveEntries(h.entries, h.leaf)
      notes == {k \in DOMAIN path : h.entries[path[k]].type = "working_note"}
  IN notes # {} /\ h.entries[path[Max(notes)]].role = "text"

\* operation_finished, and after it a completed turn clears its note.
SaveOutcome(t) ==
  /\ at[t] = "saving"
  /\ unsaved[t] = <<>>
  /\ \E ok \in BOOLEAN :
       /\ AppendEntry(t, Entry(nextId, handle[t].leaf, "operation_finished"), ok)
       /\ \E completed \in {TRUE} \cup {Len(messages[t]) > 1} :
            IF ok /\ completed /\ WorkingNote(handle'[t])
            THEN Go(t, "clearing") /\ UNCHANGED pathLock
            ELSE Go(t, IF ok THEN "done" ELSE "failed") /\ pathLock' = NoOne
  /\ UNCHANGED <<plan, compacting, unsaved, messages, seen, tooled>>

ClearNote(t) ==
  /\ at[t] = "clearing"
  /\ \E ok \in BOOLEAN :
       /\ AppendEntry(t, Entry(nextId, handle[t].leaf, "working_note"), ok)
       /\ Go(t, IF ok THEN "done" ELSE "failed")
  /\ pathLock' = NoOne
  /\ UNCHANGED <<plan, compacting, unsaved, messages, seen, tooled>>

\* maybeDetectTaskBoundary: the descriptor, and the boundary if there is one,
\* with the handle of a turn that is over.
DetectBoundary(t) ==
  /\ t \in Detector
  /\ at[t] \in {"done", "described"}
  /\ Go(t, IF at[t] = "done" THEN "described" ELSE "over")
  /\ \E ok \in BOOLEAN : AppendEntry(t, Entry(nextId, handle[t].leaf, "custom"), ok)
  /\ UNCHANGED <<plan, pathLock, compacting, unsaved, messages, seen, tooled>>

-----------------------------------------------------------------------------
(* A compaction: of an idle conversation (Compact), or inside a turn. *)

CheckIdle(c) ==
  /\ c \in Compactor
  /\ at[c] = "idle"
  /\ ~SomeActive
  /\ Go(c, "run")
  /\ UNCHANGED <<exists, file, handle, plan, pathLock, compacting, nextId, unsaved, messages, seen, tooled, failed>>

\* One at a time in the process; the plan is made on a handle of its own.
BeginCompaction(a) ==
  LET p == PrepareCompaction(file, 1)
  IN /\ at[a] = "run"
     /\ compacting = NoOne
     /\ exists /\ Storable(p)
     /\ compacting' = a
     /\ plan' = [plan EXCEPT ![a] = Compaction(NoEntry, LastId(file), p.kept, Summarised(file, p), p.details)]
     /\ Go(a, "summarising")
     /\ UNCHANGED <<exists, file, handle, pathLock, nextId, unsaved, messages, seen, tooled, failed>>

AppendCompaction(a) ==
  /\ at[a] = "summarising"
  /\ Fresh
  /\ nextId' = nextId + 1
  /\ \/ file' = Append(file, [plan[a] EXCEPT !.id = nextId]) /\ UNCHANGED failed
     \/ CanFail /\ failed' = failed \cup {nextId} /\ UNCHANGED file
  /\ compacting' = NoOne
  /\ plan' = [plan EXCEPT ![a] = NoPlan]
  /\ Go(a, IF a \in Turn THEN "reload" ELSE "done")
  /\ UNCHANGED <<exists, handle, pathLock, unsaved, messages, seen, tooled>>

\* The provider fails; before the prompt this ends the turn, after an
\* overflow it does not.
AbandonCompaction(a) ==
  /\ at[a] = "summarising"
  /\ compacting' = NoOne
  /\ plan' = [plan EXCEPT ![a] = NoPlan]
  /\ \E place \in IF a \in Turn THEN {"run", "failed"} ELSE {"done"} : Go(a, place)
  /\ UNCHANGED <<exists, file, handle, pathLock, nextId, unsaved, messages, seen, tooled, failed>>

Reload(t) ==
  /\ at[t] = "reload"
  /\ handle' = [handle EXCEPT ![t] = Opened]
  /\ Go(t, "run")
  /\ UNCHANGED <<exists, file, plan, pathLock, compacting, nextId, unsaved, messages, seen, tooled, failed>>

-----------------------------------------------------------------------------
(* A client that branches: it opens the session and then appends. *)

OpenBranch(b) ==
  /\ b \in Brancher
  /\ at[b] = "idle"
  /\ exists
  /\ handle' = [handle EXCEPT ![b] = Opened]
  /\ Go(b, "run")
  /\ UNCHANGED <<exists, file, plan, pathLock, compacting, nextId, unsaved, messages, seen, tooled, failed>>

BranchAt(b) ==
  /\ b \in Brancher
  /\ at[b] = "run"
  /\ \E target \in Ids(handle[b].entries), ok \in BOOLEAN :
       AppendEntry(b, Entry(nextId, target, "branch"), ok)
  /\ Go(b, "done")
  /\ UNCHANGED <<plan, pathLock, compacting, unsaved, messages, seen, tooled>>

LogNext ==
  \/ \E t \in Turn : \/ OpenTurn(t) \/ ToolEntry(t) \/ BeginSave(t) \/ SaveMessage(t)
                     \/ SaveOutcome(t) \/ ClearNote(t) \/ DetectBoundary(t) \/ Reload(t)
  \/ \E a \in Turn \cup Compactor : \/ CheckIdle(a) \/ BeginCompaction(a)
                                    \/ AppendCompaction(a) \/ AbandonCompaction(a)
  \/ \E b \in Brancher : OpenBranch(b) \/ BranchAt(b)

LogSpec == LogInit /\ [][LogNext]_logVars

-----------------------------------------------------------------------------
PositionIn(t, k) == PositionOf(file, messages[t][k])
Saved(t) == {k \in DOMAIN messages[t] : PositionIn(t, k) # 0}
PathTo(id) == Range(ActiveEntries(file, id))

LogTypeOK ==
  /\ at \in [Actor -> {"idle", "run", "summarising", "reload", "saving", "clearing",
                       "done", "described", "over", "failed"}]
  /\ pathLock \in Turn \cup {NoOne}
  /\ compacting \in Turn \cup Compactor \cup {NoOne}
  /\ ~exists => file = <<>>
  /\ Cardinality(Ids(file)) = Len(file)
  /\ \A t \in Turn : pathLock = t <=> at[t] \in {"saving", "clearing"}

(***************************************************************************)
(* A turn is in the conversation as a whole or not at all: from any of its *)
(* messages the path to the root goes through all its earlier ones,        *)
(* whatever other handles write between them.                              *)
(***************************************************************************)
TurnWhole ==
  \A t \in Turn : \A j, k \in Saved(t) :
    j < k => PositionIn(t, j) \in PathTo(messages[t][k])

(***************************************************************************)
(* The path lock and the reload under it: a turn that is saved goes on     *)
(* from all the messages of other turns that the conversation had when it  *)
(* took the lock.                                                          *)
(***************************************************************************)
TurnsDoNotCut ==
  \A t \in Turn : 1 \in Saved(t) =>
    seen[t] = {} \/ seen[t] \subseteq {file[i].id : i \in PathTo(messages[t][1])}

(***************************************************************************)
(* No path ends before the root, except at an entry whose write failed and *)
(* which its handle went on from: then all that precedes it is lost.       *)
(***************************************************************************)
ParentsExist ==
  \A i \in DOMAIN file :
    file[i].parent \in {NoEntry} \cup Ids(SubSeq(file, 1, i - 1)) \cup failed

(***************************************************************************)
(* What "cannot compact an active conversation" (runtime.go:412) is there  *)
(* for: a message that was saved and not left by a branch stays on the     *)
(* path.  A turn that starts after the check and ends before the summary   *)
(* is cut off by it.                                                       *)
(***************************************************************************)
SavedStaysActive ==
  \A t \in Turn : \A k \in Saved(t) : PositionIn(t, k) \in PathTo(LastId(file))
=============================================================================
