------------------------------ MODULE MemoryEngine ------------------------------
(***************************************************************************)
(* The memory of conversations (internal/memory): semantic nodes, one file *)
(* each; episodes, rows of a table; and two files of checkpoints.  Every   *)
(* completed turn is recorded as an episode (RecordTurn) and may then be   *)
(* consolidated: a model reads the conversation and answers with facts,    *)
(* edges between nodes and a better episode, which are written one by one. *)
(* Recording holds a lock on the conversation; consolidating does not, it  *)
(* only is single-flight inside one process.                               *)
(*                                                                         *)
(* A worker is a turn, or a backfill of old messages.  It may write at the *)
(* same time as another of its conversation: a canceled turn winds down    *)
(* while the next one runs.  The queue is told that a turn is over only    *)
(* after its consolidation (runtime.go:334), so a turn whose process died  *)
(* before that runs again, and is recorded and may be consolidated again.  *)
(* One write of one file or row is one step; checkpoints are rewritten     *)
(* under a file lock and renamed into place, so that is one too.           *)
(***************************************************************************)
EXTENDS Naturals, FiniteSets

CONSTANTS
  Turns, Backfills,      \* workers
  Conversations, Processes,
  Mortal,                \* the processes that may die
  ConversationOf,        \* of each worker
  StartsIn,              \* the process each worker starts in
  OldNode,               \* a node that is there before
  Local,                 \* the fact IDs a model may use in an answer
  Nobody,
  MaxMishaps             \* bound on failed writes and deaths

Workers == Turns \cup Backfills

ASSUME MemoryAssumption ==
  /\ ConversationOf \in [Workers -> Conversations]
  /\ StartsIn \in [Workers -> Processes]
  /\ Mortal \subseteq Processes
  /\ Local \cap (Workers \X Local) = {}    \* an answer's ID is no digest of one
  /\ MaxMishaps \in Nat

VARIABLES
  nodes,         \* Semantic: node ID -> edges
  episodes,      \* Episodic: worker -> related nodes (its key is turn-<id>)
  checkpoint,    \* Checkpoints: conversation -> turn
  progress,      \* ConsolidationCheckpoints: conversation -> last, cooling
  active, inFlight,  \* Engine.active, Engine.inFlight: <<process, conversation>>
  fileLock,      \* flock per conversation
  proc, pc,      \* per worker: its process, and where it is in the code
  sawLast,          \* per worker: progress.last when it was triggered
  answer,        \* per worker: what the model answered
  edgesLeft, factsLeft, \* per worker: what it has still to write
  got,           \* per worker: the edges of the node it has just read
  consolidated,  \* history: the nodes that the last consolidation of a worker
                 \* that came to its end has found
  mishaps

memoryVars == <<nodes, episodes, checkpoint, progress, active, inFlight, fileLock, proc,
                pc, sawLast, answer, edgesLeft, factsLeft, got, consolidated, mishaps>>

Conv(w) == ConversationOf[w]
Key(w) == <<proc[w], Conv(w)>>
NodeOf(w, f) == <<w, f>>          \* a digest of conversation, turn, local ID and subject
NoAnswer == [facts |-> {}, edges |-> {}, related |-> {}]

\* An ID of an answer means the node of the fact that has it; the ID of no fact,
\* or of one that is skipped for want of a subject, stays as it is.
Id(w, facts, i) == IF i \in facts THEN NodeOf(w, i) ELSE i

\* What parseConsolidationResponse lets through, with its IDs mapped: the facts
\* that have a subject, related IDs, and edges of the relations it knows.  Edges
\* out of a new node go into the file that is written for it, edges out of
\* nowhere are dropped; OldNode stands for the nodes that the model was shown.
Answers(w) ==
  UNION {LET ids == {Id(w, fs, i) : i \in Local}
         IN [facts : {fs}, related : SUBSET ids, edges : SUBSET ({OldNode} \X ids)]
           : fs \in SUBSET Local}

MemoryInit ==
  /\ nodes = [n \in {OldNode} |-> {}]
  /\ episodes = [w \in {} |-> {}]
  /\ checkpoint = [c \in Conversations |-> Nobody]
  /\ progress = [c \in Conversations |-> [last |-> Nobody, cooling |-> FALSE]]
  /\ active = {} /\ inFlight = {}
  /\ fileLock = [c \in Conversations |-> Nobody]
  /\ proc = StartsIn
  /\ pc \in [Workers -> {"start", "done"}]     \* done: there is no such turn
  /\ sawLast = [w \in Workers |-> Nobody]
  /\ answer = [w \in Workers |-> NoAnswer]
  /\ edgesLeft = [w \in Workers |-> {}] /\ factsLeft = [w \in Workers |-> {}]
  /\ got = [w \in Workers |-> {}]
  /\ consolidated = [w \in {} |-> {}]
  /\ mishaps \in 0 .. MaxMishaps

Goto(w, place) == pc' = [pc EXCEPT ![w] = place]
Put(f, key, value) == [k \in DOMAIN f \cup {key} |-> IF k = key THEN value ELSE f[k]]

stores == <<nodes, episodes, checkpoint, progress>>
locks == <<active, inFlight, fileLock>>
reading == <<sawLast, answer, edgesLeft, factsLeft, got>>
history == <<consolidated, mishaps>>

Forget(w) ==
  /\ sawLast' = [sawLast EXCEPT ![w] = Nobody]
  /\ answer' = [answer EXCEPT ![w] = NoAnswer]
  /\ edgesLeft' = [edgesLeft EXCEPT ![w] = {}]
  /\ factsLeft' = [factsLeft EXCEPT ![w] = {}]
  /\ got' = [got EXCEPT ![w] = {}]

-----------------------------------------------------------------------------
(* RecordTurn, in withConversation. *)

BeginRecord(w) ==
  /\ w \in Turns
  /\ pc[w] = "start"
  /\ IF Key(w) \in active
     THEN Goto(w, "settle") /\ UNCHANGED active
     ELSE Goto(w, "lock") /\ active' = active \cup {Key(w)}
  /\ UNCHANGED <<stores, inFlight, fileLock, proc, reading, history>>

LockConversation(w) ==
  /\ pc[w] = "lock"
  /\ fileLock[Conv(w)] = Nobody
  /\ fileLock' = [fileLock EXCEPT ![Conv(w)] = w]
  /\ Goto(w, "recordEpisode")
  /\ UNCHANGED <<stores, active, inFlight, proc, reading, history>>

Unlock(w) ==
  /\ fileLock' = [fileLock EXCEPT ![Conv(w)] = Nobody]
  /\ active' = active \ {Key(w)}
  /\ UNCHANGED inFlight

RecordEpisode(w) ==
  /\ pc[w] = "recordEpisode"
  /\ episodes' = Put(episodes, w, {})
  /\ Goto(w, "recordCheckpoint")
  /\ UNCHANGED <<nodes, checkpoint, progress, locks, proc, reading, history>>

RecordCheckpoint(w) ==
  /\ pc[w] = "recordCheckpoint"
  /\ checkpoint' = [checkpoint EXCEPT ![Conv(w)] = w]
  /\ Unlock(w)
  /\ Goto(w, "recorded")
  /\ UNCHANGED <<nodes, episodes, progress, proc, reading, history>>

-----------------------------------------------------------------------------
(* ConsolidateIfTriggered and BackfillFromSessionLog. *)

\* Where a worker goes on: a turn has to be taken off the queue.
Over(w) == IF w \in Turns THEN "settle" ELSE "done"

\* No phrase and no ceiling, or a failure not long ago; what is read of it here,
\* before the single-flight check, is what another failure writes back.
Trigger(w) ==
  /\ pc[w] = "recorded"
  /\ \/ Goto(w, "settle") /\ UNCHANGED sawLast
     \/ /\ ~progress[Conv(w)].cooling
        /\ sawLast' = [sawLast EXCEPT ![w] = progress[Conv(w)].last]
        /\ Goto(w, "enter")
  /\ UNCHANGED <<stores, locks, proc, answer, edgesLeft, factsLeft, got, history>>

BeginConsolidation(w) ==
  /\ pc[w] = (IF w \in Turns THEN "enter" ELSE "start")
  /\ IF Key(w) \in inFlight
     THEN Goto(w, Over(w)) /\ UNCHANGED inFlight
     ELSE Goto(w, "ask") /\ inFlight' = inFlight \cup {Key(w)}
  /\ UNCHANGED <<stores, active, fileLock, proc, reading, history>>

EndConsolidation(w) ==
  /\ inFlight' = inFlight \ {Key(w)}
  /\ Goto(w, Over(w))
  /\ Forget(w)
  /\ UNCHANGED <<active, fileLock, proc>>

\* The model answers, or fails for good after its retries.
Ask(w) ==
  /\ pc[w] = "ask"
  /\ \/ \E a \in Answers(w) :
          /\ answer' = [answer EXCEPT ![w] = a]
          /\ edgesLeft' = [edgesLeft EXCEPT ![w] = a.edges]
          /\ factsLeft' = [factsLeft EXCEPT ![w] = a.facts]
          /\ Goto(w, "edges")
     \/ Goto(w, "fail") /\ UNCHANGED <<answer, edgesLeft, factsLeft>>
  /\ UNCHANGED <<stores, locks, proc, sawLast, got, history>>

\* applyConsolidation: an edge from a node that exists is a read and a write.
ReadNode(w) ==
  /\ pc[w] = "edges"
  /\ \E e \in edgesLeft[w] : got' = [got EXCEPT ![w] = nodes[e[1]] \cup {e[2]}]
  /\ Goto(w, "writeNode")
  /\ UNCHANGED <<stores, locks, proc, sawLast, answer, edgesLeft, factsLeft, history>>

WriteNode(w) ==
  /\ pc[w] = "writeNode"
  /\ \E e \in edgesLeft[w] :
       /\ e[2] \in got[w]
       /\ nodes' = Put(nodes, e[1], got[w])
       /\ edgesLeft' = [edgesLeft EXCEPT ![w] = @ \ {e}]
  /\ got' = [got EXCEPT ![w] = {}]
  /\ Goto(w, "edges")
  /\ UNCHANGED <<episodes, checkpoint, progress, locks, proc, sawLast, answer, factsLeft, history>>

\* The file of a fact is written whole, over the one of an earlier run.
WriteFact(w) ==
  /\ pc[w] = "edges" /\ edgesLeft[w] = {}
  /\ \E f \in factsLeft[w] :
       /\ nodes' = Put(nodes, NodeOf(w, f), {})
       /\ factsLeft' = [factsLeft EXCEPT ![w] = @ \ {f}]
  /\ UNCHANGED <<episodes, checkpoint, progress, locks, proc, pc, sawLast, answer, edgesLeft, got, history>>

\* mutant: the episode does not wait for the facts
WriteEpisodeFirst(w) ==
  /\ pc[w] = "edges" /\ edgesLeft[w] = {}
  /\ episodes' = Put(episodes, w, answer[w].related)
  /\ Goto(w, IF w \in Turns THEN "checkpoint" ELSE "finish")
  /\ UNCHANGED <<nodes, checkpoint, progress, locks, proc, reading, history>>

WriteEpisode(w) ==
  /\ pc[w] = "edges" /\ edgesLeft[w] = {} /\ factsLeft[w] = {}
  /\ episodes' = Put(episodes, w, answer[w].related)
  /\ Goto(w, IF w \in Turns THEN "checkpoint" ELSE "finish")
  /\ UNCHANGED <<nodes, checkpoint, progress, locks, proc, reading, history>>

WriteCheckpoint(w) ==
  /\ pc[w] = "checkpoint"
  /\ checkpoint' = [checkpoint EXCEPT ![Conv(w)] = w]
  /\ Goto(w, "finish")
  /\ UNCHANGED <<nodes, episodes, progress, locks, proc, reading, history>>

Finish(w) ==
  /\ pc[w] = "finish"
  /\ IF w \in Turns
     THEN progress' = [progress EXCEPT ![Conv(w)] = [last |-> w, cooling |-> FALSE]]
     ELSE UNCHANGED progress
  /\ consolidated' = Put(consolidated, w, {NodeOf(w, f) : f \in answer[w].facts})
  /\ EndConsolidation(w)
  /\ UNCHANGED <<nodes, episodes, checkpoint, mishaps>>

\* mutant: a failure forgets that it must cool down, and how far it was
NoteFailureAsDone(w) ==
  /\ pc[w] = "fail"
  /\ progress' = [progress EXCEPT ![Conv(w)] = [last |-> w, cooling |-> TRUE]]
  /\ EndConsolidation(w)
  /\ UNCHANGED <<nodes, episodes, checkpoint, history>>

NoteFailure(w) ==
  /\ pc[w] = "fail"
  /\ IF w \in Turns
     THEN progress' = [progress EXCEPT ![Conv(w)] = [last |-> sawLast[w], cooling |-> TRUE]]
     ELSE UNCHANGED progress
  /\ EndConsolidation(w)
  /\ UNCHANGED <<nodes, episodes, checkpoint, history>>

\* Queue.Complete or Queue.Cancel: from here on the turn is not run again.
Settle(w) ==
  /\ pc[w] = "settle"
  /\ Goto(w, "done")
  /\ UNCHANGED <<stores, locks, proc, reading, history>>

-----------------------------------------------------------------------------
(* Failures. *)

\* A write fails, or the lock file cannot be opened.
WriteError(w) ==
  /\ mishaps < MaxMishaps
  /\ mishaps' = mishaps + 1
  /\ \/ /\ pc[w] = "lock"
        /\ active' = active \ {Key(w)}
        /\ Goto(w, "settle")
        /\ UNCHANGED <<inFlight, fileLock, proc, reading>>
     \/ /\ pc[w] \in {"recordEpisode", "recordCheckpoint"}
        /\ Unlock(w)
        /\ Goto(w, "settle")
        /\ UNCHANGED <<proc, reading>>
     \/ /\ pc[w] \in {"edges", "writeNode", "checkpoint"}
        /\ Goto(w, "fail")
        /\ UNCHANGED <<locks, proc, reading>>
     \/ /\ w \in Turns /\ pc[w] \in {"finish", "fail"}
        /\ EndConsolidation(w)
  /\ UNCHANGED <<stores, consolidated>>

Busy(w) == pc[w] \notin {"start", "done", "dead"}

Crash(p) ==
  /\ mishaps < MaxMishaps
  /\ mishaps' = mishaps + 1
  /\ \E w \in Workers : proc[w] = p /\ Busy(w)
  /\ pc' = [w \in Workers |-> IF proc[w] = p /\ Busy(w) THEN "dead" ELSE pc[w]]
  /\ active' = {k \in active : k[1] # p}
  /\ inFlight' = {k \in inFlight : k[1] # p}
  /\ fileLock' = [c \in Conversations |->
                    IF fileLock[c] # Nobody /\ proc[fileLock[c]] = p THEN Nobody ELSE fileLock[c]]
  /\ UNCHANGED <<stores, proc, reading, consolidated>>

\* The queue gives the turn of a dead process to another one, or to the same
\* when it has been started again.
TakeOver(w) ==
  /\ w \in Turns
  /\ pc[w] = "dead"
  /\ \E p \in Processes : proc' = [proc EXCEPT ![w] = p]
  /\ Goto(w, "start")
  /\ Forget(w)
  /\ UNCHANGED <<stores, locks, history>>

CoolDown(c) ==
  /\ progress[c].cooling
  /\ progress' = [progress EXCEPT ![c].cooling = FALSE]
  /\ UNCHANGED <<nodes, episodes, checkpoint, locks, proc, pc, reading, history>>

MemoryNext ==
  \/ \E w \in Workers :
       \/ BeginRecord(w) \/ LockConversation(w) \/ RecordEpisode(w) \/ RecordCheckpoint(w)
       \/ Trigger(w) \/ BeginConsolidation(w) \/ Ask(w) \/ ReadNode(w) \/ WriteNode(w)
       \/ WriteFact(w) \/ WriteEpisode(w) \/ WriteCheckpoint(w) \/ Finish(w)
       \/ NoteFailure(w) \/ Settle(w) \/ WriteError(w) \/ TakeOver(w)
  \/ \E p \in Mortal : Crash(p)
  \/ \E c \in Conversations : CoolDown(c)

MemorySpec == MemoryInit /\ [][MemoryNext]_memoryVars

-----------------------------------------------------------------------------
Places == {"start", "lock", "recordEpisode", "recordCheckpoint", "recorded", "enter", "ask",
           "edges", "writeNode", "checkpoint", "finish", "fail", "settle", "done", "dead"}

Held(k, places) == \E w \in Workers : Key(w) = k /\ pc[w] \in places

\* The last three: what is locked, recording or in flight has a worker that is
\* still at work.
MemoryTypeOK ==
  /\ pc \in [Workers -> Places]
  /\ DOMAIN episodes \subseteq Workers
  /\ checkpoint \in [Conversations -> Turns \cup {Nobody}]
  /\ \A c \in Conversations : progress[c].last \in Turns \cup {Nobody}
  /\ active \cup inFlight \subseteq Processes \X Conversations
  /\ \A c \in Conversations : fileLock[c] # Nobody =>
       pc[fileLock[c]] \in {"recordEpisode", "recordCheckpoint"}
  /\ \A k \in active : Held(k, {"lock", "recordEpisode", "recordCheckpoint"})
  /\ \A k \in inFlight : Held(k, {"ask", "edges", "writeNode", "checkpoint", "finish", "fail"})

(***************************************************************************)
(* Checkpoints are written last: whatever dies or fails, a turn that a     *)
(* checkpoint names has its episode, and one the consolidation checkpoint  *)
(* names was consolidated to the end: all that was found in it then is     *)
(* there (consolidation.go:151).  It is no longer all when the turn is run *)
(* again after a death (runtime.go:719, 334): the record of the second run *)
(* overwrites the episode, and what a second answer finds may be missing.  *)
(***************************************************************************)
CheckpointCovers ==
  \A c \in Conversations :
    /\ checkpoint[c] # Nobody => checkpoint[c] \in DOMAIN episodes
    /\ LET w == progress[c].last
       IN w # Nobody => /\ w \in DOMAIN episodes
                        /\ w \in DOMAIN consolidated
                        /\ consolidated[w] \subseteq DOMAIN nodes

(***************************************************************************)
(* An episode never points at a fact whose node was not written, neither   *)
(* while its consolidation goes on nor after it failed, died or ran twice. *)
(* IDs that the answer gave to no fact stay in it and may name no node     *)
(* (engine.go:146, 201).                                                   *)
(***************************************************************************)
RelatedExist == \A w \in DOMAIN episodes : episodes[w] \cap (Workers \X Local) \subseteq DOMAIN nodes
=============================================================================
