------------------------------ MODULE TurnQueue ------------------------------
(***************************************************************************)
(* The durable lease queue of internal/conversation/conversation.go.       *)
(*                                                                         *)
(* Several processes (Telegram, dashboard, RPC) open the same append-only  *)
(* event file, each through a Queue handle with an owner id of its own.    *)
(* Every operation takes the handle's mutex and an flock on the file,      *)
(* replays the file and decides on what it read.  The state of the file is *)
(* modelled by its replay: "file" and "rank" are the maps q.turns and      *)
(* q.order that reload() builds from the events written so far, and a      *)
(* write applies its event to them (apply).                                *)
(*                                                                         *)
(* ClaimFor writes several events in one critical section, and Enqueue     *)
(* writes its event outside of the critical section, so both are split     *)
(* into steps.  While ClaimFor runs, "view" is the holder's own replay:    *)
(* what it read at the start and changed itself, and not what others have  *)
(* written since.  The operations that write one event are one step: the   *)
(* flock is free, the file is read, checked and written.                   *)
(*                                                                         *)
(* Time is the remaining life of a lease: ttl counts down to 0, where the  *)
(* lease is expired (leaseExpired: not until.After(now)).                  *)
(***************************************************************************)
EXTENDS Naturals

CONSTANTS
  Turn,            \* turn ids; newID never yields one twice
  Conversation,    \* conversation ids
  ConversationOf,  \* the conversation every turn id is enqueued for
  Handle,          \* Queue handles: one per opening process, its owner id
  Mortal,          \* the handles whose process may crash
  Lease,           \* the ttl of a fresh claim or renewal
  None             \* the empty owner, and the holder of a free flock

ASSUME QueueAssumption ==
  /\ ConversationOf \in [Turn -> Conversation]
  /\ Mortal \subseteq Handle
  /\ Lease \in Nat \ {0}
  /\ None \notin Handle

VARIABLES
  file,    \* replayed state of every turn (q.turns)
  rank,    \* position of every turn in q.order, 0 when it is not there
  size,    \* len(q.order)
  lock,    \* holder of the flock across steps
  view,    \* the lock holder's in-memory q.turns
  target,  \* the conversation the lock holder claims for
  scan,    \* how far the first loop of ClaimFor has come in q.order
  busy,    \* ClaimFor's local variable
  pc       \* what each handle is doing; its mutex is free when "idle"

claimVars == <<lock, view, target, scan, busy>>
vars == <<file, rank, size, lock, view, target, scan, busy, pc>>

Status == {"none", "pending", "active", "complete", "canceled"}
TurnState == [status : Status, owner : Handle \cup {None}, ttl : 0 .. Lease]

Missing      == [status |-> "none", owner |-> None, ttl |-> 0]
Pending      == [status |-> "pending", owner |-> None, ttl |-> 0]
ClaimedPast(h) == [status |-> "active", owner |-> h, ttl |-> Lease + 1] \* mutant
Claimed(h)   == [status |-> "active", owner |-> h, ttl |-> Lease]
Finished(s)  == [status |-> s, owner |-> None, ttl |-> 0]
Settled(r)   == r.status \in {"complete", "canceled"}
Expired(r)   == r.ttl = 0

NoView == [t \in Turn |-> Missing]

Init ==
  /\ file = [t \in Turn |-> Missing]
  /\ rank = [t \in Turn |-> 0]
  /\ size = 0
  /\ lock = None
  /\ view = NoView
  /\ target = None
  /\ scan = 0
  /\ busy = FALSE
  /\ pc = [h \in Handle |-> "idle"]

-----------------------------------------------------------------------------
(***************************************************************************)
(* Enqueue: reload under the flock, release it, then append the event.     *)
(***************************************************************************)
EnqueueBegin(h) ==
  /\ pc[h] = "idle"
  /\ lock = None
  /\ pc' = [pc EXCEPT ![h] = "enqueue"]
  /\ UNCHANGED <<file, rank, size, claimVars>>

EnqueueWrite(h, t) ==
  /\ pc[h] = "enqueue"
  /\ rank[t] = 0
  /\ file' = [file EXCEPT ![t] = Pending]
  /\ rank' = [rank EXCEPT ![t] = size + 1]
  /\ size' = size + 1
  /\ pc' = [pc EXCEPT ![h] = "idle"]
  /\ UNCHANGED claimVars

-----------------------------------------------------------------------------
(***************************************************************************)
(* ClaimFor.  The first loop visits the active turns of the conversation   *)
(* in order and requeues those with an expired lease, one write each; the  *)
(* second loop claims the first pending turn.                              *)
(***************************************************************************)
Release ==
  /\ lock' = None
  /\ view' = NoView
  /\ target' = None
  /\ scan' = 0
  /\ busy' = FALSE

ClaimBegin(h, c) ==
  /\ pc[h] = "idle"
  /\ lock = None
  /\ lock' = h
  /\ view' = file
  /\ target' = c
  /\ scan' = 0
  /\ busy' = FALSE
  /\ pc' = [pc EXCEPT ![h] = "claim"]
  /\ UNCHANGED <<file, rank, size>>

Unvisited(t) ==
  /\ view[t].status = "active"
  /\ ConversationOf[t] = target
  /\ scan < rank[t]

NextToVisit(t) ==
  /\ Unvisited(t)
  /\ \A u \in Turn : Unvisited(u) => rank[t] <= rank[u]

\* Mutant: the lease is not looked at.
RequeueAny(h, t) ==
  /\ pc[h] = "claim"
  /\ NextToVisit(t)
  /\ file' = [file EXCEPT ![t] = Pending]
  /\ view' = [view EXCEPT ![t] = Pending]
  /\ scan' = rank[t]
  /\ UNCHANGED <<rank, size, lock, target, busy, pc>>

Requeue(h, t) ==
  /\ pc[h] = "claim"
  /\ NextToVisit(t)
  /\ Expired(view[t])
  /\ file' = [file EXCEPT ![t] = Pending]
  /\ view' = [view EXCEPT ![t] = Pending]
  /\ scan' = rank[t]
  /\ UNCHANGED <<rank, size, lock, target, busy, pc>>

\* Mutant: a running turn of the conversation is passed over.
FindRunning(h, t) ==
  /\ pc[h] = "claim"
  /\ NextToVisit(t)
  /\ ~Expired(view[t])
  /\ scan' = rank[t]
  /\ UNCHANGED <<file, rank, size, lock, view, target, busy, pc>>

FindBusy(h, t) ==
  /\ pc[h] = "claim"
  /\ NextToVisit(t)
  /\ ~Expired(view[t])
  /\ busy' = TRUE
  /\ scan' = rank[t]
  /\ UNCHANGED <<file, rank, size, lock, view, target, pc>>

\* Mutant: any pending turn of the conversation will do.
ClaimableAny(t) ==
  /\ view[t].status = "pending"
  /\ ConversationOf[t] = target

Claimable(t) ==
  /\ view[t].status = "pending"
  /\ ConversationOf[t] = target
  /\ \A u \in Turn :
       /\ view[u].status = "pending"
       /\ ConversationOf[u] = target
       => rank[t] <= rank[u]

ClaimFirst(h, t) ==
  /\ pc[h] = "claim"
  /\ \A u \in Turn : ~Unvisited(u)
  /\ ~busy
  /\ Claimable(t)
  /\ file' = [file EXCEPT ![t] = Claimed(h)]
  /\ pc' = [pc EXCEPT ![h] = "idle"]
  /\ Release
  /\ UNCHANGED <<rank, size>>

ClaimNothing(h) ==
  /\ pc[h] = "claim"
  /\ \A u \in Turn : ~Unvisited(u)
  /\ busy \/ \A u \in Turn : ~Claimable(u)
  /\ pc' = [pc EXCEPT ![h] = "idle"]
  /\ Release
  /\ UNCHANGED <<file, rank, size>>

\* A write of Enqueue or ClaimFor fails: the error is returned, the flock is
\* released and nothing is appended.
WriteFails(h) ==
  /\ pc[h] \in {"enqueue", "claim"}
  /\ pc' = [pc EXCEPT ![h] = "idle"]
  /\ IF lock = h THEN Release ELSE UNCHANGED claimVars
  /\ UNCHANGED <<file, rank, size>>

-----------------------------------------------------------------------------
(***************************************************************************)
(* The operations that append one event in their critical section.         *)
(***************************************************************************)
Owns(h, t) == file[t].status = "active" /\ file[t].owner = h

\* Mutant: the call does not wait for the flock.
MayCallUnlocked(h) == pc[h] = "idle"

\* The flock is free and the handle's mutex too, so the whole call can run.
MayCall(h) == pc[h] = "idle" /\ lock = None

Renew(h, t) ==
  /\ MayCall(h)
  /\ Owns(h, t)
  /\ file' = [file EXCEPT ![t] = Claimed(h)]
  /\ UNCHANGED <<rank, size, claimVars, pc>>

\* Complete and Cancel.
Finish(h, t, s) ==
  /\ MayCall(h)
  /\ Owns(h, t)
  /\ file' = [file EXCEPT ![t] = Finished(s)]
  /\ UNCHANGED <<rank, size, claimVars, pc>>

\* Mutant: a turn that still waits is canceled too.
CancelUnsettled(h, t) ==
  /\ MayCall(h)
  /\ file[t].status \in {"pending", "active"}
  /\ file' = [file EXCEPT ![t] = Finished("canceled")]
  /\ UNCHANGED <<rank, size, claimVars, pc>>

CancelActive(h, t) ==
  /\ MayCall(h)
  /\ file[t].status = "active"
  /\ file' = [file EXCEPT ![t] = Finished("canceled")]
  /\ UNCHANGED <<rank, size, claimVars, pc>>

-----------------------------------------------------------------------------
Aged(r) == [r EXCEPT !.ttl = IF @ = 0 THEN 0 ELSE @ - 1]

\* Time passes for every lease, in the file and in what a holder has read.
Tick ==
  /\ \E t \in Turn : file[t].ttl > 0
  /\ file' = [t \in Turn |-> Aged(file[t])]
  /\ view' = [t \in Turn |-> Aged(view[t])]
  /\ UNCHANGED <<rank, size, lock, target, scan, busy, pc>>

\* A process dies: the kernel drops its flock, its leases stay in the file.
Crash(h) ==
  /\ h \in Mortal
  /\ pc[h] # "dead"
  /\ pc' = [pc EXCEPT ![h] = "dead"]
  /\ IF lock = h THEN Release ELSE UNCHANGED claimVars
  /\ UNCHANGED <<file, rank, size>>

Claim(h) ==
  \/ \E c \in Conversation : ClaimBegin(h, c)
  \/ \E t \in Turn : Requeue(h, t) \/ FindBusy(h, t) \/ ClaimFirst(h, t)
  \/ ClaimNothing(h)

Call(h, t) ==
  \/ EnqueueWrite(h, t)
  \/ Renew(h, t)
  \/ \E s \in {"complete", "canceled"} : Finish(h, t, s)
  \/ CancelActive(h, t)

Next ==
  \/ \E h \in Handle : EnqueueBegin(h) \/ Claim(h) \/ WriteFails(h) \/ Crash(h)
  \/ \E h \in Handle, t \in Turn : Call(h, t)
  \/ Tick

Spec == Init /\ [][Next]_vars

-----------------------------------------------------------------------------
(***************************************************************************)
(* Type invariant.                                                         *)
(***************************************************************************)
TypeOK ==
  /\ file \in [Turn -> TurnState]
  /\ rank \in [Turn -> Nat]
  /\ size \in Nat
  /\ lock \in Handle \cup {None}
  /\ view \in [Turn -> TurnState]
  /\ target \in Conversation \cup {None}
  /\ scan \in Nat
  /\ busy \in BOOLEAN
  /\ pc \in [Handle -> {"idle", "enqueue", "claim", "dead"}]

-----------------------------------------------------------------------------
(***************************************************************************)
(* Safety.                                                                 *)
(***************************************************************************)
Earlier(t, u) ==
  /\ ConversationOf[t] = ConversationOf[u]
  /\ 0 < rank[t]
  /\ rank[t] < rank[u]

\* At most one turn of a conversation is active, whatever processes claim,
\* lose their leases, crash between two writes or cancel each other's turns.
OneActive ==
  \A t, u \in Turn :
    /\ file[t].status = "active"
    /\ file[u].status = "active"
    /\ ConversationOf[t] = ConversationOf[u]
    => t = u

\* Turns leave the line in submission order: a turn that is active or settled
\* has only settled turns of its conversation before it, also after a requeue.
InOrder ==
  \A t, u \in Turn :
    Earlier(t, u) /\ file[u].status \notin {"none", "pending"}
      => Settled(file[t])

\* Enqueue appends without the flock, so the holder of the flock may decide on
\* a stale replay.  It is stale only in that turns are missing at its end, and
\* those are still pending: every turn it knows is as the file has it.
ViewCurrent ==
  lock # None =>
    \A t \in Turn :
      \/ view[t] = file[t]
      \/ /\ view[t] = Missing
         /\ file[t] = Pending
         /\ \A u \in Turn : view[u] # Missing => rank[u] < rank[t]

\* Nobody takes a turn from a worker whose lease still runs: the turn stays
\* with its owner until it is settled or the lease is expired.
LeaseRespected ==
  [][\A t \in Turn :
       file[t].status = "active" /\ ~Expired(file[t]) =>
         \/ file'[t].status = "active" /\ file'[t].owner = file[t].owner
         \/ Settled(file'[t])]_vars

(***************************************************************************)
(* The queue implements the FIFO line of ConversationFifo.                 *)
(***************************************************************************)
StageOf(r) ==
  CASE r.status = "none"    -> "absent"
    [] r.status = "pending" -> "waiting"
    [] r.status = "active"  -> "running"
    [] OTHER                -> "settled"

Fifo == INSTANCE ConversationFifo WITH
          stage <- [t \in Turn |-> StageOf(file[t])],
          place <- rank,
          last  <- size

\* Every step of the processes and their crashes is a step of the line, or
\* changes nothing of it.  In particular cancellation never drops a turn that
\* still waits, and a settled turn is never started again.
ImplementsFifo == Fifo!FifoSpec
=============================================================================
