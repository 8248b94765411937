-------------------------- MODULE TurnRunnerProofs --------------------------
(***************************************************************************)
(* Proofs about TurnQueue and TurnRunner, for every set of turns,          *)
(* conversations, handles or processes, faults and every lease.            *)
(*                                                                         *)
(* The queue.  InOrder is not inductive: that a claim respects the order   *)
(* follows from what the claiming process read (ViewCurrent), from where   *)
(* its first loop has come (ScanOK), from the flock (LockHeld) and from    *)
(* the uniqueness of positions (RanksAgree).  QueueInv is their            *)
(* conjunction.                                                            *)
(*                                                                         *)
(* The runners.  Every step of theirs is a step of the queue or leaves it  *)
(* alone, so RunSpec implies Spec and QueueInv is an invariant of the      *)
(* runners too.  What they add is where a submitter may be while its       *)
(* process uses the queue (SubmitAlone, CallerHolds), that a live worker   *)
(* keeps its turn until it settles it (Holding), and that nothing before a *)
(* saved turn is open (SavedBehind).                                       *)
(***************************************************************************)
EXTENDS TurnRunner, TLAPS

-----------------------------------------------------------------------------
(* The queue.                                                               *)

\* A turn has a place in the order exactly when the file knows it, and no two
\* turns share one.
RanksAgree ==
  /\ \A t \in Turn : rank[t] <= size
  /\ \A t \in Turn : rank[t] = 0 <=> file[t].status = "none"
  /\ \A t \in Turn : file[t].status = "none" => file[t] = Missing
  /\ \A t, u \in Turn : rank[t] > 0 /\ rank[t] = rank[u] => t = u

\* The flock is held across steps exactly by the handle inside ClaimFor.
LockHeld == \A h \in Handle : pc[h] = "claim" <=> lock = h

\* Before it finds a running turn, the first loop has left no active turn of
\* the conversation behind.
ScanOK ==
  lock # None /\ ~busy =>
    \A t \in Turn :
      /\ view[t].status = "active"
      /\ ConversationOf[t] = target
      => scan < rank[t]

QueueInv ==
  /\ TypeOK
  /\ RanksAgree
  /\ LockHeld
  /\ ViewCurrent
  /\ ScanOK
  /\ InOrder

-----------------------------------------------------------------------------
\* The values written to the file are turn states.
LEMMA StatesTyped ==
  /\ Missing \in TurnState
  /\ Pending \in TurnState
  /\ \A h \in Handle : Claimed(h) \in TurnState
  /\ \A s \in {"complete", "canceled"} : Finished(s) \in TurnState
  /\ NoView \in [Turn -> TurnState]
<1>1. Lease \in Nat /\ 0 \in 0 .. Lease /\ Lease \in 0 .. Lease
  BY QueueAssumption
<1> QED
  BY <1>1 DEF Missing, Pending, Claimed, Finished, NoView, TurnState, Status

\* Time changes nothing of a turn but the life of its lease.
LEMMA AgedKeeps ==
  ASSUME NEW r \in TurnState
  PROVE  /\ Aged(r) \in TurnState
         /\ Aged(r).status = r.status
         /\ Aged(r).owner = r.owner
<1>1. Lease \in Nat
  BY QueueAssumption
<1>2. r.ttl \in 0 .. Lease
  BY DEF TurnState
<1>3. (IF r.ttl = 0 THEN 0 ELSE r.ttl - 1) \in 0 .. Lease
  BY <1>1, <1>2
<1> QED
  BY <1>3 DEF Aged, TurnState

\* A state that no lease is running for does not age.
LEMMA AgedFixed == Aged(Missing) = Missing /\ Aged(Pending) = Pending
BY DEF Aged, Missing, Pending

-----------------------------------------------------------------------------
\* The type invariant holds initially.
LEMMA InitTyped == Init => TypeOK
<1> SUFFICES ASSUME Init PROVE TypeOK
  OBVIOUS
<1>1. file \in [Turn -> TurnState] /\ view \in [Turn -> TurnState]
  BY StatesTyped DEF Init
<1>2. busy \in BOOLEAN
  BY DEF Init
<1> QED
  BY <1>1, <1>2 DEF Init, TypeOK

\* The type invariant is inductive: every step of every call, of time and of a
\* crash leaves the variables in their types.
LEMMA NextTyped == TypeOK /\ [Next]_vars => TypeOK'
<1> SUFFICES ASSUME TypeOK, [Next]_vars PROVE TypeOK'
  OBVIOUS
<1> USE StatesTyped, QueueAssumption DEF TypeOK
<1>1. ASSUME NEW h \in Handle, EnqueueBegin(h) PROVE TypeOK'
  BY <1>1 DEF EnqueueBegin, claimVars
<1>2. ASSUME NEW h \in Handle, NEW t \in Turn, EnqueueWrite(h, t) PROVE TypeOK'
  BY <1>2 DEF EnqueueWrite, claimVars
<1>3. ASSUME NEW h \in Handle, NEW c \in Conversation, ClaimBegin(h, c)
      PROVE  TypeOK'
  BY <1>3 DEF ClaimBegin
<1>4. ASSUME NEW h \in Handle, NEW t \in Turn, Requeue(h, t) PROVE TypeOK'
  BY <1>4 DEF Requeue
<1>5. ASSUME NEW h \in Handle, NEW t \in Turn, FindBusy(h, t) PROVE TypeOK'
  BY <1>5 DEF FindBusy
<1>6. ASSUME NEW h \in Handle, NEW t \in Turn, ClaimFirst(h, t) PROVE TypeOK'
  BY <1>6 DEF ClaimFirst, Release
<1>7. ASSUME NEW h \in Handle, ClaimNothing(h) PROVE TypeOK'
  BY <1>7 DEF ClaimNothing, Release
<1>8. ASSUME NEW h \in Handle, WriteFails(h) PROVE TypeOK'
  <2>1. CASE lock = h
    <3>1. Release
      BY <1>8, <2>1 DEF WriteFails
    <3> QED
      BY <1>8, <3>1 DEF WriteFails, Release
  <2>2. CASE lock # h
    <3>1. UNCHANGED claimVars
      BY <1>8, <2>2 DEF WriteFails
    <3> QED
      BY <1>8, <3>1 DEF WriteFails, claimVars
  <2> QED
    BY <2>1, <2>2
<1>9. ASSUME NEW h \in Handle, Crash(h) PROVE TypeOK'
  <2>1. CASE lock = h
    <3>1. Release
      BY <1>9, <2>1 DEF Crash
    <3> QED
      BY <1>9, <3>1 DEF Crash, Release
  <2>2. CASE lock # h
    <3>1. UNCHANGED claimVars
      BY <1>9, <2>2 DEF Crash
    <3> QED
      BY <1>9, <3>1 DEF Crash, claimVars
  <2> QED
    BY <2>1, <2>2
<1>10. ASSUME NEW h \in Handle, NEW t \in Turn, Renew(h, t) PROVE TypeOK'
  BY <1>10 DEF Renew, claimVars
<1>11. ASSUME NEW h \in Handle, NEW t \in Turn,
              NEW s \in {"complete", "canceled"}, Finish(h, t, s)
       PROVE  TypeOK'
  BY <1>11 DEF Finish, claimVars
<1>12. ASSUME NEW h \in Handle, NEW t \in Turn, CancelActive(h, t) PROVE TypeOK'
  BY <1>12 DEF CancelActive, claimVars
<1>13. CASE Tick
  BY <1>13, AgedKeeps DEF Tick
<1>14. CASE UNCHANGED vars
  BY <1>14 DEF vars
<1> QED
  BY <1>1, <1>2, <1>3, <1>4, <1>5, <1>6, <1>7, <1>8, <1>9, <1>10, <1>11,
     <1>12, <1>13, <1>14 DEF Next, Claim, Call

\* Type correctness of the queue.
THEOREM QueueTyped == Spec => []TypeOK
BY InitTyped, NextTyped, PTL DEF Spec

-----------------------------------------------------------------------------
\* What the claiming process requeues is an active turn of the file whose lease
\* is expired.
LEMMA RequeuesExpired ==
  ASSUME QueueInv, NEW h \in Handle, NEW t \in Turn, Requeue(h, t)
  PROVE  /\ view[t] = file[t]
         /\ file[t].status = "active"
         /\ Expired(file[t])
<1>1. lock # None
  BY QueueAssumption DEF Requeue, QueueInv, LockHeld
<1>2. view[t].status = "active" /\ Expired(view[t])
  BY DEF Requeue, NextToVisit, Unvisited
<1>3. view[t] = file[t]
  BY <1>1, <1>2 DEF QueueInv, ViewCurrent, Missing
<1> QED
  BY <1>2, <1>3

\* What ClaimFor claims waits in the file, and all before it is settled there:
\* also a turn that was appended after the claiming process read the file.
LEMMA ClaimsOldest ==
  ASSUME QueueInv, NEW h \in Handle, NEW t \in Turn, ClaimFirst(h, t)
  PROVE  /\ file[t].status = "pending"
         /\ \A u \in Turn : Earlier(u, t) => Settled(file[u])
<1>1. lock # None
  BY QueueAssumption DEF ClaimFirst, QueueInv, LockHeld
<1>2. view[t].status = "pending" /\ ConversationOf[t] = target
  BY DEF ClaimFirst, Claimable
<1>3. view[t] # Missing
  BY <1>2 DEF Missing
<1>4. file[t].status = "pending"
  BY <1>1, <1>2, <1>3 DEF QueueInv, ViewCurrent
<1>5. ASSUME NEW u \in Turn, Earlier(u, t) PROVE Settled(file[u])
  <2>1. rank[u] \in Nat /\ rank[t] \in Nat /\ rank[u] > 0 /\ rank[u] < rank[t]
    BY <1>5 DEF Earlier, QueueInv, TypeOK
  <2>2. ConversationOf[u] = target
    BY <1>2, <1>5 DEF Earlier
  <2>3. view[u] = file[u]
    BY <1>1, <1>3, <2>1 DEF QueueInv, ViewCurrent
  <2>4. file[u].status # "none"
    BY <2>1 DEF QueueInv, RanksAgree
  <2>5. file[u].status # "active"
    <3>1. view[u].status = "active" => scan < rank[u]
      BY <1>1, <2>2 DEF QueueInv, ScanOK, ClaimFirst
    <3>2. ~Unvisited(u)
      BY DEF ClaimFirst
    <3> QED
      BY <2>2, <2>3, <3>1, <3>2 DEF Unvisited
  <2>6. file[u].status # "pending"
    <3>1. view[u].status = "pending" => rank[t] <= rank[u]
      BY <2>2 DEF ClaimFirst, Claimable
    <3> QED
      BY <2>1, <2>3, <3>1
  <2>7. file[u].status \in Status
    BY DEF QueueInv, TypeOK, TurnState
  <2> QED
    BY <2>4, <2>5, <2>6, <2>7 DEF Settled, Status
<1> QED
  BY <1>4, <1>5

\* An event about a turn that the file knows moves nobody in the order.
LEMMA EventKeepsRanks ==
  ASSUME QueueInv, NEW t \in Turn, NEW r \in TurnState,
         file[t].status # "none", r.status # "none",
         file' = [file EXCEPT ![t] = r], UNCHANGED <<rank, size>>
  PROVE  RanksAgree'
<1> USE DEF QueueInv, RanksAgree, TypeOK
<1>1. \A u \in Turn : u # t => file'[u] = file[u]
  OBVIOUS
<1>2. file'[t] = r
  OBVIOUS
<1>3. rank' = rank /\ size' = size
  OBVIOUS
<1> QED
  BY <1>1, <1>2, <1>3

\* An event about an active turn keeps the order: all before it is settled, and
\* nothing behind it has started.
LEMMA ActiveEventKeepsOrder ==
  ASSUME QueueInv, NEW t \in Turn, NEW r \in TurnState,
         file[t].status = "active",
         file' = [file EXCEPT ![t] = r], UNCHANGED rank
  PROVE  InOrder'
<1> SUFFICES ASSUME NEW u \in Turn, NEW v \in Turn, Earlier(u, v)',
                    file'[v].status \notin {"none", "pending"}
             PROVE  Settled(file'[u])
  BY DEF InOrder, Settled
<1>1. Earlier(u, v)
  BY DEF Earlier
<1>2. \A x \in Turn : x # t => file'[x] = file[x]
  BY DEF QueueInv, TypeOK
<1>3. u # v
  BY <1>1 DEF Earlier, QueueInv, TypeOK
<1>4. CASE v = t
  <2>1. Settled(file[u])
    BY <1>1, <1>4 DEF QueueInv, InOrder
  <2> QED
    BY <1>2, <1>3, <1>4, <2>1
<1>5. CASE v # t
  <2>1. Settled(file[u])
    BY <1>1, <1>2, <1>5 DEF QueueInv, InOrder
  <2>2. u # t
    BY <2>1 DEF Settled
  <2> QED
    BY <1>2, <2>1, <2>2
<1> QED
  BY <1>4, <1>5

-----------------------------------------------------------------------------
\* The strengthened invariant holds initially.
LEMMA InitInv == Init => QueueInv
<1> SUFFICES ASSUME Init PROVE QueueInv
  OBVIOUS
<1>1. TypeOK
  BY InitTyped
<1>2. RanksAgree
  BY DEF Init, RanksAgree, Missing
<1>3. LockHeld
  BY QueueAssumption DEF Init, LockHeld
<1>4. ViewCurrent /\ ScanOK
  BY DEF Init, ViewCurrent, ScanOK
<1>5. InOrder
  BY DEF Init, InOrder, Missing
<1> QED
  BY <1>1, <1>2, <1>3, <1>4, <1>5 DEF QueueInv

\* Outside of ClaimFor, one event about an active turn keeps the invariant.
LEMMA CallKeepsInv ==
  ASSUME QueueInv, TypeOK', NEW t \in Turn, NEW r \in TurnState,
         lock = None, file[t].status = "active", r.status # "none",
         file' = [file EXCEPT ![t] = r],
         UNCHANGED <<rank, size, claimVars, pc>>
  PROVE  QueueInv'
<1>1. RanksAgree'
  BY EventKeepsRanks
<1>2. InOrder'
  BY ActiveEventKeepsOrder
<1>3. lock' = None /\ pc' = pc
  BY DEF claimVars
<1>4. LockHeld'
  BY <1>3 DEF QueueInv, LockHeld
<1>5. ViewCurrent' /\ ScanOK'
  BY <1>3 DEF ViewCurrent, ScanOK
<1> QED
  BY <1>1, <1>2, <1>4, <1>5 DEF QueueInv

\* A process that leaves ClaimFor or Enqueue without a write keeps the invariant.
LEMMA LeavingKeepsInv ==
  ASSUME QueueInv, TypeOK', NEW h \in Handle, NEW at \in {"idle", "dead"},
         pc' = [pc EXCEPT ![h] = at],
         IF lock = h THEN Release ELSE UNCHANGED claimVars,
         UNCHANGED <<file, rank, size>>
  PROVE  QueueInv'
<1>1. RanksAgree' /\ InOrder'
  BY DEF QueueInv, RanksAgree, InOrder, Earlier
<1>2. CASE lock = h
  <2>1. lock' = None
    BY <1>2 DEF Release
  <2>2. LockHeld'
    BY <1>2, <2>1, QueueAssumption DEF QueueInv, LockHeld, TypeOK
  <2>3. ViewCurrent' /\ ScanOK'
    BY <2>1 DEF ViewCurrent, ScanOK
  <2> QED
    BY <1>1, <2>2, <2>3 DEF QueueInv
<1>3. CASE lock # h
  <2>1. UNCHANGED claimVars
    BY <1>3
  <2>2. UNCHANGED <<lock, view, target, scan, busy>>
    BY <2>1 DEF claimVars
  <2>3. LockHeld'
    BY <1>3, <2>2 DEF QueueInv, LockHeld, TypeOK
  <2>4. ViewCurrent'
    BY <2>2 DEF QueueInv, ViewCurrent
  <2>5. ScanOK'
    BY <2>2 DEF QueueInv, ScanOK
  <2> QED
    BY <1>1, <2>3, <2>4, <2>5 DEF QueueInv
<1> QED
  BY <1>2, <1>3

\* Appending a turn keeps the invariant, also while another process is inside
\* ClaimFor: the turn comes after everything that process has read.
LEMMA EnqueueKeepsInv ==
  ASSUME QueueInv, TypeOK', NEW h \in Handle, NEW t \in Turn, EnqueueWrite(h, t)
  PROVE  QueueInv'
<1> USE DEF QueueInv, TypeOK
<1>1. /\ file'[t] = Pending
      /\ rank'[t] = size + 1
      /\ size' = size + 1
      /\ UNCHANGED <<lock, view, target, scan, busy>>
  BY DEF EnqueueWrite, claimVars
<1>2. \A u \in Turn : u # t => file'[u] = file[u] /\ rank'[u] = rank[u]
  BY DEF EnqueueWrite
<1>3. rank[t] = 0 /\ file[t] = Missing
  BY DEF EnqueueWrite, RanksAgree
<1>4. \A u \in Turn : rank[u] <= size
  BY DEF RanksAgree
<1>5. RanksAgree'
  BY <1>1, <1>2, <1>4 DEF RanksAgree, Pending
<1>6. LockHeld'
  BY <1>1, QueueAssumption DEF EnqueueWrite, LockHeld
<1>7. ViewCurrent'
  <2> SUFFICES ASSUME lock # None, NEW u \in Turn
               PROVE  \/ view[u] = file'[u]
                      \/ /\ view[u] = Missing
                         /\ file'[u] = Pending
                         /\ \A v \in Turn :
                              view[v] # Missing => rank'[v] < rank'[u]
    BY <1>1 DEF ViewCurrent
  <2>1. view[t] = Missing
    BY <1>3 DEF ViewCurrent, Missing, Pending
  <2>2. CASE u = t
    BY <1>1, <1>2, <1>4, <2>1, <2>2
  <2>3. CASE u # t
    BY <1>2, <2>1, <2>3 DEF ViewCurrent
  <2> QED
    BY <2>2, <2>3
<1>8. ScanOK'
  <2>1. lock # None => view[t].status # "active"
    BY <1>3 DEF ViewCurrent, Missing, Pending
  <2> QED
    BY <1>1, <1>2, <2>1 DEF ScanOK
<1>9. InOrder'
  <2> SUFFICES ASSUME NEW u \in Turn, NEW v \in Turn, Earlier(u, v)',
                      file'[v].status \notin {"none", "pending"}
               PROVE  Settled(file'[u])
    BY DEF InOrder, Settled
  <2>1. v # t
    BY <1>1 DEF Pending
  <2>2. u # t
    BY <1>1, <1>2, <1>4, <2>1 DEF Earlier
  <2> QED
    BY <1>2, <2>1, <2>2 DEF Earlier, InOrder
<1> QED
  BY <1>5, <1>6, <1>7, <1>8, <1>9

\* A claiming process starts with what the file holds.
LEMMA ClaimBeginKeepsInv ==
  ASSUME QueueInv, TypeOK', NEW h \in Handle, NEW c \in Conversation,
         ClaimBegin(h, c)
  PROVE  QueueInv'
<1>1. lock' = h /\ lock = None /\ view' = file /\ scan' = 0
  BY DEF ClaimBegin
<1>2. UNCHANGED <<file, rank, size>>
  BY DEF ClaimBegin
<1>3. RanksAgree' /\ InOrder'
  BY <1>2 DEF QueueInv, RanksAgree, InOrder, Earlier
<1>4. LockHeld'
  BY <1>1, QueueAssumption DEF QueueInv, LockHeld, TypeOK, ClaimBegin
<1>5. ViewCurrent'
  BY <1>1, <1>2 DEF ViewCurrent
<1>6. ScanOK'
  BY <1>1, <1>2 DEF ScanOK, QueueInv, RanksAgree, TypeOK
<1> QED
  BY <1>3, <1>4, <1>5, <1>6 DEF QueueInv

\* Putting an expired turn back keeps the invariant: in particular the first
\* loop has then passed it, and it is pending in the file and in the view.
LEMMA RequeueKeepsInv ==
  ASSUME QueueInv, TypeOK', NEW h \in Handle, NEW t \in Turn, Requeue(h, t)
  PROVE  QueueInv'
<1>1. view[t] = file[t] /\ file[t].status = "active"
  BY RequeuesExpired
<1>2. /\ file' = [file EXCEPT ![t] = Pending]
      /\ view' = [view EXCEPT ![t] = Pending]
      /\ scan' = rank[t]
      /\ UNCHANGED <<rank, size, lock, target, busy, pc>>
  BY DEF Requeue
<1>3. Pending \in TurnState /\ Pending.status # "none"
  BY StatesTyped DEF Pending
<1>4. RanksAgree'
  BY <1>1, <1>2, <1>3, EventKeepsRanks
<1>5. InOrder'
  BY <1>1, <1>2, <1>3, ActiveEventKeepsOrder
<1>6. LockHeld'
  BY <1>2 DEF QueueInv, LockHeld
<1>7. /\ file'[t] = Pending
      /\ view'[t] = Pending
      /\ \A u \in Turn : u # t => file'[u] = file[u] /\ view'[u] = view[u]
  BY <1>2 DEF QueueInv, TypeOK
<1>8. ViewCurrent'
  <2>1. view[t] # Missing
    BY <1>1 DEF Missing
  <2> QED
    BY <1>2, <1>7, <2>1 DEF QueueInv, ViewCurrent
<1>9. ScanOK'
  <2> SUFFICES ASSUME lock # None, ~busy, NEW u \in Turn,
                      view'[u].status = "active", ConversationOf[u] = target
               PROVE  rank[t] < rank[u]
    BY <1>2 DEF ScanOK
  <2>1. u # t
    BY <1>7 DEF Pending
  <2>2. view[u].status = "active" /\ view[u] # Missing
    BY <1>7, <2>1 DEF Missing
  <2>3. Unvisited(u)
    BY <2>2 DEF QueueInv, ScanOK, Unvisited
  <2>4. rank[t] <= rank[u]
    BY <2>3 DEF Requeue, NextToVisit
  <2>5. rank[t] # 0
    BY <1>1 DEF QueueInv, RanksAgree
  <2>6. rank[t] # rank[u]
    BY <2>1, <2>5 DEF QueueInv, RanksAgree, TypeOK
  <2> QED
    BY <2>4, <2>6 DEF QueueInv, TypeOK
<1> QED
  BY <1>4, <1>5, <1>6, <1>8, <1>9 DEF QueueInv

\* Claiming the oldest pending turn keeps the invariant.
LEMMA ClaimFirstKeepsInv ==
  ASSUME QueueInv, TypeOK', NEW h \in Handle, NEW t \in Turn, ClaimFirst(h, t)
  PROVE  QueueInv'
<1>1. /\ file[t].status = "pending"
      /\ \A u \in Turn : Earlier(u, t) => Settled(file[u])
  BY ClaimsOldest
<1>2. /\ file' = [file EXCEPT ![t] = Claimed(h)]
      /\ lock' = None
      /\ pc' = [pc EXCEPT ![h] = "idle"]
      /\ UNCHANGED <<rank, size>>
  BY DEF ClaimFirst, Release
<1>3. Claimed(h) \in TurnState /\ Claimed(h).status = "active"
  BY StatesTyped DEF Claimed
<1>4. RanksAgree'
  BY <1>1, <1>2, <1>3, EventKeepsRanks
<1>5. LockHeld'
  BY <1>2, QueueAssumption DEF QueueInv, LockHeld, TypeOK, ClaimFirst
<1>6. ViewCurrent' /\ ScanOK'
  BY <1>2 DEF ViewCurrent, ScanOK
<1>7. InOrder'
  <2> SUFFICES ASSUME NEW u \in Turn, NEW v \in Turn, Earlier(u, v)',
                      file'[v].status \notin {"none", "pending"}
               PROVE  Settled(file'[u])
    BY DEF InOrder, Settled
  <2>1. Earlier(u, v)
    BY <1>2 DEF Earlier
  <2>2. \A x \in Turn : x # t => file'[x] = file[x]
    BY <1>2 DEF QueueInv, TypeOK
  <2>3. Settled(file[u])
    BY <1>1, <2>1, <2>2 DEF QueueInv, InOrder
  <2>4. u # t
    BY <1>1, <2>3 DEF Settled
  <2> QED
    BY <2>2, <2>3, <2>4
<1> QED
  BY <1>4, <1>5, <1>6, <1>7 DEF QueueInv

\* The passing of time keeps the invariant: it changes no status and no owner.
LEMMA TickKeepsInv ==
  ASSUME QueueInv, TypeOK', Tick
  PROVE  QueueInv'
<1> USE DEF QueueInv
<1>1. \A t \in Turn :
        /\ file'[t] = Aged(file[t])
        /\ view'[t] = Aged(view[t])
        /\ file'[t].status = file[t].status
        /\ view'[t].status = view[t].status
  BY AgedKeeps DEF Tick, TypeOK
<1>2. UNCHANGED <<rank, size, lock, target, scan, busy, pc>>
  BY DEF Tick
<1>3. RanksAgree'
  BY <1>1, <1>2, AgedFixed DEF RanksAgree
<1>4. LockHeld'
  BY <1>2 DEF LockHeld
<1>5. ViewCurrent'
  <2> SUFFICES ASSUME lock # None, NEW t \in Turn
               PROVE  \/ view'[t] = file'[t]
                      \/ /\ view'[t] = Missing
                         /\ file'[t] = Pending
                         /\ \A u \in Turn : view'[u] # Missing => rank[u] < rank[t]
    BY <1>2 DEF ViewCurrent
  <2>1. \A u \in Turn : view'[u] # Missing => view[u] # Missing
    BY <1>1, AgedFixed
  <2> QED
    BY <1>1, <2>1, AgedFixed DEF ViewCurrent
<1>6. ScanOK'
  BY <1>1, <1>2 DEF ScanOK
<1>7. InOrder'
  BY <1>1, <1>2 DEF InOrder, Earlier, Settled
<1> QED
  BY <1>3, <1>4, <1>5, <1>6, <1>7

\* The strengthened invariant is inductive.
LEMMA NextInv == QueueInv /\ [Next]_vars => QueueInv'
<1> SUFFICES ASSUME QueueInv, [Next]_vars PROVE QueueInv'
  OBVIOUS
<1>0. TypeOK'
  BY NextTyped DEF QueueInv
<1>1. ASSUME NEW h \in Handle, EnqueueBegin(h) PROVE QueueInv'
  <2>1. UNCHANGED <<file, rank, size, lock, view, target, scan, busy>>
    BY <1>1 DEF EnqueueBegin, claimVars
  <2>2. LockHeld'
    BY <1>1, <2>1 DEF QueueInv, LockHeld, TypeOK, EnqueueBegin
  <2>3. RanksAgree' /\ InOrder'
    BY <2>1 DEF QueueInv, RanksAgree, InOrder, Earlier
  <2>4. ViewCurrent'
    BY <2>1 DEF QueueInv, ViewCurrent
  <2>5. ScanOK'
    BY <2>1 DEF QueueInv, ScanOK
  <2> QED
    BY <1>0, <2>2, <2>3, <2>4, <2>5 DEF QueueInv
<1>2. ASSUME NEW h \in Handle, NEW t \in Turn, EnqueueWrite(h, t) PROVE QueueInv'
  BY <1>0, <1>2, EnqueueKeepsInv
<1>3. ASSUME NEW h \in Handle, NEW c \in Conversation, ClaimBegin(h, c)
      PROVE  QueueInv'
  BY <1>0, <1>3, ClaimBeginKeepsInv
<1>4. ASSUME NEW h \in Handle, NEW t \in Turn, Requeue(h, t) PROVE QueueInv'
  BY <1>0, <1>4, RequeueKeepsInv
<1>5. ASSUME NEW h \in Handle, NEW t \in Turn, FindBusy(h, t) PROVE QueueInv'
  <2>1. busy' /\ UNCHANGED <<file, rank, size, lock, view, pc>>
    BY <1>5 DEF FindBusy
  <2>2. RanksAgree' /\ InOrder'
    BY <2>1 DEF QueueInv, RanksAgree, InOrder, Earlier
  <2>3. LockHeld' /\ ScanOK'
    BY <2>1 DEF QueueInv, LockHeld, ScanOK
  <2>4. ViewCurrent'
    BY <2>1 DEF QueueInv, ViewCurrent
  <2> QED
    BY <1>0, <2>2, <2>3, <2>4 DEF QueueInv
<1>6. ASSUME NEW h \in Handle, NEW t \in Turn, ClaimFirst(h, t) PROVE QueueInv'
  BY <1>0, <1>6, ClaimFirstKeepsInv
<1>7. ASSUME NEW h \in Handle, ClaimNothing(h) PROVE QueueInv'
  <2>1. lock = h
    BY <1>7 DEF ClaimNothing, QueueInv, LockHeld
  <2>2. IF lock = h THEN Release ELSE UNCHANGED claimVars
    BY <1>7, <2>1 DEF ClaimNothing
  <2> QED
    BY <1>0, <1>7, <2>2, LeavingKeepsInv DEF ClaimNothing
<1>8. ASSUME NEW h \in Handle, WriteFails(h) PROVE QueueInv'
  BY <1>0, <1>8, LeavingKeepsInv DEF WriteFails
<1>9. ASSUME NEW h \in Handle, Crash(h) PROVE QueueInv'
  BY <1>0, <1>9, LeavingKeepsInv DEF Crash
<1>10. ASSUME NEW h \in Handle, NEW t \in Turn, Renew(h, t) PROVE QueueInv'
  <2>1. Claimed(h) \in TurnState /\ Claimed(h).status # "none"
    BY StatesTyped DEF Claimed
  <2> QED
    BY <1>0, <1>10, <2>1, CallKeepsInv DEF Renew, MayCall, Owns
<1>11. ASSUME NEW h \in Handle, NEW t \in Turn,
              NEW s \in {"complete", "canceled"}, Finish(h, t, s)
       PROVE  QueueInv'
  <2>1. Finished(s) \in TurnState /\ Finished(s).status # "none"
    BY StatesTyped DEF Finished
  <2> QED
    BY <1>0, <1>11, <2>1, CallKeepsInv DEF Finish, MayCall, Owns
<1>12. ASSUME NEW h \in Handle, NEW t \in Turn, CancelActive(h, t) PROVE QueueInv'
  <2>1. Finished("canceled") \in TurnState /\ Finished("canceled").status # "none"
    BY StatesTyped DEF Finished
  <2> QED
    BY <1>0, <1>12, <2>1, CallKeepsInv DEF CancelActive, MayCall
<1>13. CASE Tick
  BY <1>0, <1>13, TickKeepsInv
<1>14. CASE UNCHANGED vars
  <2>1. RanksAgree' /\ InOrder'
    BY <1>14 DEF vars, QueueInv, RanksAgree, InOrder, Earlier
  <2>2. LockHeld' /\ ScanOK'
    BY <1>14 DEF vars, QueueInv, LockHeld, ScanOK
  <2>3. ViewCurrent'
    BY <1>14 DEF vars, QueueInv, ViewCurrent
  <2> QED
    BY <1>0, <2>1, <2>2, <2>3 DEF QueueInv
<1> QED
  BY <1>1, <1>2, <1>3, <1>4, <1>5, <1>6, <1>7, <1>8, <1>9, <1>10, <1>11,
     <1>12, <1>13, <1>14 DEF Next, Claim, Call

\* Every reachable state satisfies the strengthened invariant.
THEOREM QueueInvariant == Spec => []QueueInv
BY InitInv, NextInv, PTL DEF Spec

\* Turns are started and settled in submission order, for any number of
\* processes that claim, enqueue without the flock, crash and lose leases.
THEOREM QueueInOrder == Spec => []InOrder
<1>1. QueueInv => InOrder
  BY DEF QueueInv
<1> QED
  BY <1>1, QueueInvariant, PTL

\* What a claiming process has read is current but for turns appended since,
\* although Enqueue appends without the flock.
THEOREM QueueViewCurrent == Spec => []ViewCurrent
<1>1. QueueInv => ViewCurrent
  BY DEF QueueInv
<1> QED
  BY <1>1, QueueInvariant, PTL

\* No conversation ever has two active turns.
THEOREM QueueOneActive == Spec => []OneActive
<1>1. QueueInv => OneActive
  <2> SUFFICES ASSUME QueueInv, NEW t \in Turn, NEW u \in Turn,
                      file[t].status = "active", file[u].status = "active",
                      ConversationOf[t] = ConversationOf[u], t # u
               PROVE  FALSE
    BY DEF OneActive
  <2>1. rank[t] \in Nat /\ rank[u] \in Nat /\ rank[t] # 0 /\ rank[u] # 0
    BY DEF QueueInv, RanksAgree, TypeOK
  <2>2. rank[t] # rank[u]
    BY <2>1 DEF QueueInv, RanksAgree
  <2>3. Earlier(t, u) \/ Earlier(u, t)
    BY <2>1, <2>2 DEF Earlier
  <2> QED
    BY <2>3 DEF QueueInv, InOrder, Settled
<1> QED
  BY <1>1, QueueInvariant, PTL

-----------------------------------------------------------------------------
\* A step takes an active turn with a running lease from its worker only by
\* settling it.
LEMMA StepRespectsLease ==
  ASSUME QueueInv, [Next]_vars, NEW t \in Turn,
         file[t].status = "active", ~Expired(file[t])
  PROVE  \/ file'[t].status = "active" /\ file'[t].owner = file[t].owner
         \/ Settled(file'[t])
<1> DEFINE Kept == \/ file'[t].status = "active" /\ file'[t].owner = file[t].owner
                   \/ Settled(file'[t])
<1> SUFFICES Kept
  OBVIOUS
<1>0. file \in [Turn -> TurnState]
  BY DEF QueueInv, TypeOK
<1>1. CASE file' = file
  BY <1>1
<1>2. ASSUME NEW h \in Handle, NEW u \in Turn, EnqueueWrite(h, u) PROVE Kept
  <2>1. u # t
    BY <1>2 DEF EnqueueWrite, QueueInv, RanksAgree
  <2> QED
    BY <1>0, <1>2, <2>1 DEF EnqueueWrite
<1>3. ASSUME NEW h \in Handle, NEW u \in Turn, Requeue(h, u) PROVE Kept
  <2>1. u # t
    BY <1>3, RequeuesExpired
  <2> QED
    BY <1>0, <1>3, <2>1 DEF Requeue
<1>4. ASSUME NEW h \in Handle, NEW u \in Turn, ClaimFirst(h, u) PROVE Kept
  <2>1. u # t
    BY <1>4, ClaimsOldest
  <2> QED
    BY <1>0, <1>4, <2>1 DEF ClaimFirst
<1>5. ASSUME NEW h \in Handle, NEW u \in Turn, Renew(h, u) PROVE Kept
  BY <1>0, <1>5 DEF Renew, Owns, Claimed
<1>6. ASSUME NEW h \in Handle, NEW u \in Turn,
             NEW s \in {"complete", "canceled"}, Finish(h, u, s)
      PROVE  Kept
  BY <1>0, <1>6 DEF Finish, Finished, Settled
<1>7. ASSUME NEW h \in Handle, NEW u \in Turn, CancelActive(h, u) PROVE Kept
  BY <1>0, <1>7 DEF CancelActive, Finished, Settled
<1>8. CASE Tick
  <2>1. file'[t] = Aged(file[t])
    BY <1>8 DEF Tick
  <2> QED
    BY <1>0, <2>1, AgedKeeps
<1>9. CASE UNCHANGED vars
  BY <1>1, <1>9 DEF vars
<1>10. ASSUME NEW h \in Handle,
              \/ EnqueueBegin(h) \/ WriteFails(h) \/ Crash(h) \/ ClaimNothing(h)
              \/ \E c \in Conversation : ClaimBegin(h, c)
              \/ \E u \in Turn : FindBusy(h, u)
       PROVE  Kept
  BY <1>1, <1>10 DEF EnqueueBegin, WriteFails, Crash, ClaimNothing, ClaimBegin,
                     FindBusy
<1> QED
  BY <1>2, <1>3, <1>4, <1>5, <1>6, <1>7, <1>8, <1>9, <1>10 DEF Next, Claim, Call

\* No turn is taken from a worker whose lease still runs.
THEOREM QueueLeaseRespected == Spec => LeaseRespected
<1>1. QueueInv /\ [Next]_vars =>
        [\A t \in Turn :
           file[t].status = "active" /\ ~Expired(file[t]) =>
             \/ file'[t].status = "active" /\ file'[t].owner = file[t].owner
             \/ Settled(file'[t])]_vars
  BY StepRespectsLease
<1> QED
  BY <1>1, QueueInvariant, PTL DEF Spec, LeaseRespected

-----------------------------------------------------------------------------
\* No event reopens a turn that is settled.
LEMMA SettledStays ==
  ASSUME QueueInv, [Next]_vars, NEW t \in Turn, Settled(file[t])
  PROVE  file'[t].status = file[t].status
<1>0. file \in [Turn -> TurnState]
  BY DEF QueueInv, TypeOK
<1>1. file[t].status \notin {"none", "pending", "active"}
  BY DEF Settled
<1>2. ASSUME NEW u \in Turn, NEW r \in TurnState,
             file[u].status \in {"none", "pending", "active"},
             file' = [file EXCEPT ![u] = r]
      PROVE  file'[t] = file[t]
  BY <1>0, <1>1, <1>2
<1>3. ASSUME NEW h \in Handle, NEW u \in Turn,
             EnqueueWrite(h, u) \/ ClaimFirst(h, u) \/ Requeue(h, u)
      PROVE  file'[t] = file[t]
  <2>1. EnqueueWrite(h, u) => file[u].status = "none"
    BY DEF EnqueueWrite, QueueInv, RanksAgree
  <2>2. ClaimFirst(h, u) => file[u].status = "pending"
    BY ClaimsOldest
  <2>3. Requeue(h, u) => file[u].status = "active"
    BY RequeuesExpired
  <2> QED
    BY <1>2, <1>3, <2>1, <2>2, <2>3, StatesTyped
       DEF EnqueueWrite, ClaimFirst, Requeue
<1>4. ASSUME NEW h \in Handle, NEW u \in Turn,
             \/ Renew(h, u) \/ CancelActive(h, u)
             \/ \E s \in {"complete", "canceled"} : Finish(h, u, s)
      PROVE  file'[t] = file[t]
  BY <1>2, <1>4, StatesTyped DEF Renew, CancelActive, Finish, Owns
<1>5. CASE Tick
  BY <1>0, <1>5, AgedKeeps DEF Tick
<1>6. ASSUME NEW h \in Handle,
             \/ EnqueueBegin(h) \/ WriteFails(h) \/ Crash(h) \/ ClaimNothing(h)
             \/ \E c \in Conversation : ClaimBegin(h, c)
             \/ \E u \in Turn : FindBusy(h, u)
      PROVE  file'[t] = file[t]
  BY <1>6 DEF EnqueueBegin, WriteFails, Crash, ClaimNothing, ClaimBegin, FindBusy
<1>7. CASE UNCHANGED vars
  BY <1>7 DEF vars
<1> QED
  BY <1>3, <1>4, <1>5, <1>6, <1>7 DEF Next, Claim, Call

\* A turn keeps its position, and nothing is ever submitted before it.
LEMMA NothingComesBefore ==
  ASSUME QueueInv, [Next]_vars, NEW t \in Turn, rank[t] > 0
  PROVE  /\ rank'[t] = rank[t]
         /\ \A u \in Turn : Earlier(u, t)' => Earlier(u, t)
<1>0. rank \in [Turn -> Nat] /\ size \in Nat
  BY DEF QueueInv, TypeOK
<1>1. ASSUME NEW h \in Handle, NEW v \in Turn, EnqueueWrite(h, v)
      PROVE  /\ rank'[t] = rank[t]
             /\ \A u \in Turn : Earlier(u, t)' => Earlier(u, t)
  <2>1. rank' = [rank EXCEPT ![v] = size + 1] /\ v # t
    BY <1>1 DEF EnqueueWrite
  <2>2. rank[t] <= size
    BY DEF QueueInv, RanksAgree
  <2> QED
    BY <1>0, <2>1, <2>2 DEF Earlier
<1>2. ASSUME rank' = rank
      PROVE  /\ rank'[t] = rank[t]
             /\ \A u \in Turn : Earlier(u, t)' => Earlier(u, t)
  BY <1>2 DEF Earlier
<1>3. rank' = rank \/ \E h \in Handle, v \in Turn : EnqueueWrite(h, v)
  BY DEF Next, Claim, Call, EnqueueBegin, WriteFails, Crash, ClaimNothing,
         ClaimBegin, FindBusy, Requeue, ClaimFirst, Renew, CancelActive, Finish,
         Tick, vars
<1> QED
  BY <1>1, <1>2, <1>3

-----------------------------------------------------------------------------
\* Every step of the queue is a step of the abstract line, or none of its own.
LEMMA StepsLikeFifo == QueueInv /\ [Next]_vars => [Fifo!FifoNext]_Fifo!fifoVars
<1> SUFFICES ASSUME QueueInv, [Next]_vars
             PROVE  Fifo!FifoNext \/ UNCHANGED Fifo!fifoVars
  OBVIOUS
<1> DEFINE stages == [t \in Turn |-> StageOf(file[t])]
<1>0. file \in [Turn -> TurnState]
  BY DEF QueueInv, TypeOK
<1>1. ASSUME NEW t \in Turn, NEW r \in TurnState, file' = [file EXCEPT ![t] = r]
      PROVE  stages' = [stages EXCEPT ![t] = StageOf(r)]
  BY <1>0, <1>1
<1>2. ASSUME UNCHANGED <<file, rank, size>> PROVE UNCHANGED Fifo!fifoVars
  BY <1>2 DEF Fifo!fifoVars
<1>3. ASSUME NEW h \in Handle, NEW t \in Turn, EnqueueWrite(h, t)
      PROVE  Fifo!Submit(t)
  <2>1. stages[t] = "absent"
    BY <1>3 DEF EnqueueWrite, QueueInv, RanksAgree, StageOf
  <2>2. stages' = [stages EXCEPT ![t] = "waiting"]
    BY <1>1, <1>3, StatesTyped DEF EnqueueWrite, Pending, StageOf
  <2> QED
    BY <1>3, <2>1, <2>2 DEF Fifo!Submit, EnqueueWrite
<1>4. ASSUME NEW h \in Handle, NEW t \in Turn, ClaimFirst(h, t)
      PROVE  Fifo!Start(t)
  <2>1. /\ file[t].status = "pending"
        /\ \A u \in Turn : Earlier(u, t) => Settled(file[u])
    BY <1>4, ClaimsOldest
  <2>2. stages[t] = "waiting"
    BY <2>1 DEF StageOf
  <2>3. \A u \in Turn : Fifo!Earlier(u, t) => stages[u] = "settled"
    BY <2>1 DEF Fifo!Earlier, Earlier, Settled, StageOf
  <2>4. stages' = [stages EXCEPT ![t] = "running"]
    BY <1>1, <1>4, StatesTyped DEF ClaimFirst, Claimed, StageOf
  <2> QED
    BY <1>4, <2>2, <2>3, <2>4 DEF Fifo!Start, ClaimFirst
<1>5. ASSUME NEW h \in Handle, NEW t \in Turn, Requeue(h, t)
      PROVE  Fifo!PutBack(t)
  <2>1. stages[t] = "running"
    BY <1>5, RequeuesExpired DEF StageOf
  <2>2. stages' = [stages EXCEPT ![t] = "waiting"]
    BY <1>1, <1>5, StatesTyped DEF Requeue, Pending, StageOf
  <2> QED
    BY <1>5, <2>1, <2>2 DEF Fifo!PutBack, Requeue
<1>6. ASSUME NEW h \in Handle, NEW t \in Turn,
             NEW s \in {"complete", "canceled"},
             file[t].status = "active",
             file' = [file EXCEPT ![t] = Finished(s)], UNCHANGED <<rank, size>>
      PROVE  Fifo!Settle(t)
  <2>1. stages[t] = "running"
    BY <1>6 DEF StageOf
  <2>2. stages' = [stages EXCEPT ![t] = "settled"]
    BY <1>1, <1>6, StatesTyped, ZenonT(40) DEF Finished, StageOf
  <2> QED
    BY <1>6, <2>1, <2>2 DEF Fifo!Settle
<1>7. ASSUME NEW h \in Handle, NEW t \in Turn, Renew(h, t)
      PROVE  UNCHANGED Fifo!fifoVars
  <2>1. stages[t] = "running"
    BY <1>7 DEF Renew, Owns, StageOf
  <2>2. stages' = [stages EXCEPT ![t] = "running"]
    BY <1>1, <1>7, StatesTyped, ZenonT(40) DEF Renew, Claimed, StageOf
  <2>3. stages' = stages
    BY <2>1, <2>2
  <2> QED
    BY <1>7, <2>3 DEF Renew, Fifo!fifoVars
<1>8. ASSUME Tick PROVE UNCHANGED Fifo!fifoVars
  <2>1. \A t \in Turn : file'[t].status = file[t].status
    BY <1>0, <1>8, AgedKeeps DEF Tick
  <2>2. stages' = stages
    BY <2>1 DEF StageOf
  <2> QED
    BY <1>8, <2>2 DEF Tick, Fifo!fifoVars
<1>9. ASSUME NEW h \in Handle, NEW t \in Turn,
             CancelActive(h, t) \/ \E s \in {"complete", "canceled"} : Finish(h, t, s)
      PROVE  Fifo!Settle(t)
  BY <1>6, <1>9 DEF Finish, CancelActive, Owns
<1>10. ASSUME NEW h \in Handle,
              \/ EnqueueBegin(h) \/ WriteFails(h) \/ Crash(h) \/ ClaimNothing(h)
              \/ \E c \in Conversation : ClaimBegin(h, c)
              \/ \E u \in Turn : FindBusy(h, u)
       PROVE  UNCHANGED Fifo!fifoVars
  BY <1>2, <1>10 DEF EnqueueBegin, WriteFails, Crash, ClaimNothing, ClaimBegin,
                     FindBusy
<1>11. CASE UNCHANGED vars
  BY <1>2, <1>11 DEF vars
<1> QED
  BY <1>3, <1>4, <1>5, <1>7, <1>8, <1>9, <1>10, <1>11
     DEF Next, Claim, Call, Fifo!FifoNext

\* The queue implements the FIFO line: what its file says of the turns is a
\* behaviour of ConversationFifo.
THEOREM QueueImplementsFifo == Spec => ImplementsFifo
<1>1. Init => Fifo!FifoInit
  BY DEF Init, Fifo!FifoInit, Missing, StageOf
<1> QED
  BY <1>1, StepsLikeFifo, QueueInvariant, PTL DEF Spec, ImplementsFifo, Fifo!FifoSpec

-----------------------------------------------------------------------------
(* The runners.                                                             *)

\* A turn that was submitted has a process.
AtHome == \A s \in Turn : loop[s] # "new" => home[s] \in Handle

\* A submitter inside Enqueue is the only one of its process that is.
SubmitAlone ==
  /\ \A s \in Turn : loop[s] = "submit" => pc[home[s]] = "enqueue"
  /\ \A r, s \in Turn :
       loop[r] = "submit" /\ loop[s] = "submit" /\ home[r] = home[s] => r = s

\* The flock is held across steps on behalf of one submitter that polls.
CallerHolds ==
  /\ caller = None => lock = None
  /\ caller # None =>
       lock # None /\ home[caller] = lock /\ loop[caller] = "poll"

RunnerInv ==
  /\ QueueInv
  /\ RunTypeOK
  /\ AtHome
  /\ SubmitAlone
  /\ CallerHolds

\* What a run is about to settle is in the session file.
SavedFirst ==
  \A s \in Turn :
    loop[s] \in {"completing", "canceling"} =>
      \E i \in DOMAIN transcript : transcript[i] = running[s]

\* A worker that does not stall owns its turn in the queue, with a running
\* lease, until it settles it, and no two workers have the same turn.
Holding ==
  /\ \A s \in Turn :
       Working(s) => Owns(home[s], running[s]) /\ file[running[s]].ttl > 0
  /\ \A r, s \in Turn :
       Working(r) /\ Working(s) /\ running[r] = running[s] => r = s

\* All that was submitted before a turn of the session file is settled, also
\* when that turn itself is not.
SavedBehind ==
  \A t \in Turn :
    (\E i \in DOMAIN transcript : transcript[i] = t) =>
      /\ rank[t] > 0
      /\ \A u \in Turn : Earlier(u, t) => Settled(file[u])

-----------------------------------------------------------------------------
\* The initial state of the runners has nothing running.
LEMMA InitRunner == RunInit => RunnerInv /\ SavedFirst /\ Holding /\ SavedBehind
<1> SUFFICES ASSUME RunInit
             PROVE  RunnerInv /\ SavedFirst /\ Holding /\ SavedBehind
  OBVIOUS
<1>1. QueueInv
  BY InitInv DEF RunInit
<1>2. RunTypeOK
  BY <1>1 DEF RunInit, RunTypeOK, QueueInv, InRun, Working
<1>3. AtHome /\ SubmitAlone /\ CallerHolds
  BY DEF RunInit, Init, AtHome, SubmitAlone, CallerHolds
<1>4. SavedFirst /\ Holding /\ SavedBehind
  BY DEF RunInit, SavedFirst, Holding, Working, SavedBehind
<1> QED
  BY <1>1, <1>2, <1>3, <1>4 DEF RunnerInv

\* A submitter that the flock is held for is inside ClaimFor.
LEMMA CallerClaims ==
  ASSUME RunnerInv, NEW s \in Turn, caller = s
  PROVE  /\ home[s] \in Handle
         /\ lock = home[s]
         /\ loop[s] = "poll"
         /\ running[s] = None
<1>1. caller # None
  BY RunnerAssumption
<1>2. lock = home[s] /\ loop[s] = "poll"
  BY <1>1 DEF RunnerInv, CallerHolds
<1> QED
  BY <1>2 DEF RunnerInv, AtHome, RunTypeOK, InRun, Working

\* A run has a process and a turn.
LEMMA RunsAtHome ==
  ASSUME RunnerInv, NEW s \in Turn, InRun(s)
  PROVE  home[s] \in Handle /\ running[s] \in Turn
<1>1. loop[s] # "new"
  BY DEF InRun, Working
<1>2. running[s] # None
  BY DEF RunnerInv, RunTypeOK
<1> QED
  BY <1>1, <1>2 DEF RunnerInv, AtHome, RunTypeOK

\* Every step of the processes is a step of the queue, or none of its own.
LEMMA StepsAreQueueSteps == RunnerInv /\ [RunNext]_allVars => [Next]_vars
<1> SUFFICES ASSUME RunnerInv, [RunNext]_allVars PROVE Next \/ UNCHANGED vars
  OBVIOUS
<1>1. ASSUME NEW h \in Handle, Die(h) PROVE Next
  BY <1>1 DEF Die, Next
<1>2. ASSUME NEW h \in Handle, NEW t \in Turn, SubmitBegin(h, t) PROVE Next
  BY <1>2 DEF SubmitBegin, Next
<1>3. ASSUME NEW h \in Handle, NEW t \in Turn, CancelLocal(h, t)
      PROVE  UNCHANGED vars
  BY <1>3 DEF CancelLocal
<1>4. ASSUME NEW h \in Handle, NEW t \in Turn, CancelDurable(h, t) PROVE Next
  BY <1>4 DEF CancelDurable, Next, Call
<1>5. CASE Elapse
  BY <1>5 DEF Elapse, Next
<1>6. ASSUME NEW s \in Turn, Submitted(s) \/ SubmitFails(s) \/ Poll(s) PROVE Next
  <2>1. home[s] \in Handle
    BY <1>6 DEF RunnerInv, AtHome, Submitted, SubmitFails, Poll
  <2>2. ConversationOf[s] \in Conversation
    BY QueueAssumption
  <2> QED
    BY <1>6, <2>1, <2>2 DEF Submitted, SubmitFails, Poll, Next, Call, Claim
<1>7. ASSUME NEW s \in Turn,
             \/ Sweep(s) \/ PollAgain(s) \/ PollFails(s)
             \/ \E t \in Turn : StartRun(s, t)
      PROVE  Next
  <2>1. home[s] \in Handle
    BY <1>7, CallerClaims DEF Sweep, PollAgain, PollFails, StartRun
  <2> QED
    BY <1>7, <2>1 DEF Sweep, PollAgain, PollFails, StartRun, Next, Claim
<1>8. ASSUME NEW s \in Turn, SettleRun(s) \/ RenewRun(s) PROVE Next
  <2>1. home[s] \in Handle /\ running[s] \in Turn
    BY <1>8, RunsAtHome DEF SettleRun, Settle, RenewRun, InRun, Working
  <2> QED
    BY <1>8, <2>1 DEF SettleRun, Settle, RenewRun, Next, Call
<1>9. ASSUME NEW s \in Turn,
             \/ GiveUp(s) \/ \E failed \in BOOLEAN : AgentEnds(s, failed)
             \/ Persist(s) \/ SaveFails(s) \/ SettleRefused(s) \/ EndRun(s)
             \/ WatchLoss(s) \/ LoseCaller(s)
      PROVE  UNCHANGED vars
  BY <1>9 DEF GiveUp, AgentEnds, Persist, SaveFails, SettleRefused, EndRun, Leave,
              WatchLoss, LoseCaller
<1>10. CASE UNCHANGED allVars
  BY <1>10 DEF allVars
<1> QED
  BY <1>1, <1>2, <1>3, <1>4, <1>5, <1>6, <1>7, <1>8, <1>9, <1>10
     DEF RunNext, Submitter

\* Every step leaves the runners' variables in their types, and a submitter has
\* a turn exactly while its run is registered.
LEMMA RunNextTyped ==
  ASSUME RunnerInv, [RunNext]_allVars, QueueInv'
  PROVE  RunTypeOK'
<1>0. TypeOK'
  BY DEF QueueInv
<1> USE DEF RunTypeOK, InRun, Working
<1>t. RunTypeOK
  BY DEF RunnerInv
<1>1. ASSUME NEW h \in Handle, Die(h) PROVE RunTypeOK'
  BY <1>0, <1>t, <1>1 DEF Die
<1>2. ASSUME NEW h \in Handle, NEW t \in Turn, SubmitBegin(h, t)
      PROVE  RunTypeOK'
  BY <1>0, <1>t, <1>2 DEF SubmitBegin
<1>3. ASSUME NEW h \in Handle, NEW t \in Turn, CancelLocal(h, t)
      PROVE  RunTypeOK'
  BY <1>0, <1>t, <1>3 DEF CancelLocal
<1>4. ASSUME UNCHANGED runVars PROVE RunTypeOK'
  BY <1>0, <1>t, <1>4 DEF runVars
<1>5. ASSUME NEW s \in Turn,
             Submitted(s) \/ SubmitFails(s) \/ Poll(s) \/ GiveUp(s)
      PROVE  RunTypeOK'
  BY <1>0, <1>t, <1>5 DEF Submitted, SubmitFails, Poll, GiveUp
<1>6. ASSUME NEW s \in Turn, PollAgain(s) \/ PollFails(s) PROVE RunTypeOK'
  <2>1. loop[s] = "poll"
    BY <1>6, CallerClaims DEF PollAgain, PollFails
  <2> QED
    BY <1>0, <1>t, <1>6, <2>1 DEF PollAgain, PollFails
<1>7. ASSUME NEW s \in Turn, NEW t \in Turn, StartRun(s, t) PROVE RunTypeOK'
  <2>1. home[s] \in Handle /\ t # None
    BY <1>7, CallerClaims, RunnerAssumption DEF StartRun
  <2> QED
    BY <1>0, <1>t, <1>7, <2>1 DEF StartRun
<1>8. ASSUME NEW s \in Turn, NEW failed \in BOOLEAN, AgentEnds(s, failed)
      PROVE  RunTypeOK'
  BY <1>0, <1>t, <1>8 DEF AgentEnds
<1>9. ASSUME NEW s \in Turn, Persist(s) PROVE RunTypeOK'
  <2>1. running[s] \in Turn
    BY <1>9, RunsAtHome DEF Persist
  <2>2. transcript' \in Seq(Turn)
    BY <1>t, <1>9, <2>1 DEF Persist
  <2>3. PICK o \in {"completing", "canceling"} : loop' = [loop EXCEPT ![s] = o]
    BY <1>9 DEF Persist, Outcomes
  <2> QED
    BY <1>0, <1>t, <1>9, <2>2, <2>3 DEF Persist
<1>10. ASSUME NEW s \in Turn, SaveFails(s) PROVE RunTypeOK'
  <2>1. PICK o \in {"completing", "canceling"} : loop' = [loop EXCEPT ![s] = o]
    BY <1>10 DEF SaveFails, Outcomes
  <2> QED
    BY <1>0, <1>t, <1>10, <2>1 DEF SaveFails
<1>11. ASSUME NEW s \in Turn, SettleRun(s) \/ SettleRefused(s) PROVE RunTypeOK'
  BY <1>0, <1>t, <1>11 DEF SettleRun, Settle, SettleRefused
<1>12. ASSUME NEW s \in Turn, EndRun(s) PROVE RunTypeOK'
  BY <1>0, <1>t, <1>12 DEF EndRun, Leave
<1>13. ASSUME NEW s \in Turn, WatchLoss(s) \/ LoseCaller(s) PROVE RunTypeOK'
  BY <1>0, <1>t, <1>13 DEF WatchLoss, LoseCaller
<1>14. CASE UNCHANGED allVars
  BY <1>4, <1>14 DEF allVars
<1>15. ASSUME NEW h \in Handle, NEW t \in Turn, CancelDurable(h, t)
       PROVE  RunTypeOK'
  BY <1>4, <1>15 DEF CancelDurable
<1>16. ASSUME NEW s \in Turn, Sweep(s) \/ RenewRun(s) PROVE RunTypeOK'
  BY <1>4, <1>16 DEF Sweep, RenewRun
<1>17. CASE Elapse
  BY <1>4, <1>17 DEF Elapse
<1> QED
  BY <1>1, <1>2, <1>3, <1>5, <1>6, <1>7, <1>8, <1>9, <1>10, <1>11, <1>12,
     <1>13, <1>14, <1>15, <1>16, <1>17 DEF RunNext, Submitter

\* A step that leaves the flock, the handles and the submitters' places alone
\* disturbs none of what relates them.
LEMMA NobodyMoves ==
  ASSUME RunnerInv, UNCHANGED <<pc, lock, home, caller, loop>>
  PROVE  AtHome' /\ SubmitAlone' /\ CallerHolds'
<1>1. AtHome'
  BY DEF RunnerInv, AtHome
<1>2. SubmitAlone'
  BY DEF RunnerInv, SubmitAlone
<1>3. CallerHolds'
  BY DEF RunnerInv, CallerHolds
<1> QED
  BY <1>1, <1>2, <1>3

\* Nor does a step of a submitter that does not use the queue across steps.
LEMMA OneMoves ==
  ASSUME RunnerInv, NEW s \in Turn, NEW x,
         loop' = [loop EXCEPT ![s] = x], x # "submit",
         loop[s] # "new", caller # s,
         UNCHANGED <<pc, lock, home, caller>>
  PROVE  AtHome' /\ SubmitAlone' /\ CallerHolds'
<1>1. \A r \in Turn : r # s => loop'[r] = loop[r]
  BY DEF RunnerInv, RunTypeOK
<1>2. loop'[s] = x
  BY DEF RunnerInv, RunTypeOK
<1>3. AtHome'
  BY <1>1 DEF RunnerInv, AtHome
<1>4. SubmitAlone'
  BY <1>1, <1>2 DEF RunnerInv, SubmitAlone
<1>5. CallerHolds'
  BY <1>1 DEF RunnerInv, CallerHolds, RunTypeOK
<1> QED
  BY <1>3, <1>4, <1>5

\* A submitter that is neither in Enqueue nor in ClaimFor is not the caller.
LEMMA RunsDoNotClaim ==
  ASSUME RunnerInv, NEW s \in Turn, loop[s] # "poll"
  PROVE  caller # s
BY CallerClaims

\* A submitter in Enqueue does not hold the flock, and neither does another of
\* its process.
LEMMA SubmitterHasNoFlock ==
  ASSUME RunnerInv, NEW s \in Turn, loop[s] = "submit"
  PROVE  home[s] \in Handle /\ pc[home[s]] = "enqueue" /\ lock # home[s]
<1>1. home[s] \in Handle /\ pc[home[s]] = "enqueue"
  BY DEF RunnerInv, AtHome, SubmitAlone
<1> QED
  BY <1>1 DEF RunnerInv, QueueInv, LockHeld

\* A submitter begins Enqueue when nobody of its process uses the queue.
LEMMA SubmitBeginKeeps ==
  ASSUME RunnerInv, NEW h \in Handle, NEW s \in Turn, SubmitBegin(h, s)
  PROVE  AtHome' /\ SubmitAlone' /\ CallerHolds'
<1> USE DEF SubmitBegin, EnqueueBegin, claimVars
<1>1. /\ loop'[s] = "submit" /\ home'[s] = h /\ pc'[h] = "enqueue"
      /\ \A r \in Turn : r # s => loop'[r] = loop[r] /\ home'[r] = home[r]
      /\ \A g \in Handle : g # h => pc'[g] = pc[g]
  BY DEF RunnerInv, RunTypeOK, TypeOK
<1>2. AtHome'
  BY <1>1 DEF RunnerInv, AtHome
<1>3. \A r \in Turn : loop[r] = "submit" => home[r] # h
  BY SubmitterHasNoFlock DEF RunnerInv, SubmitAlone
<1>4. SubmitAlone'
  BY <1>1, <1>3, SubmitterHasNoFlock DEF RunnerInv, SubmitAlone
<1>5. caller # s
  BY RunsDoNotClaim
<1>6. CallerHolds'
  BY <1>1, <1>5 DEF RunnerInv, CallerHolds, RunTypeOK
<1> QED
  BY <1>2, <1>4, <1>6

\* A submitter leaves Enqueue, with its turn written or not.
LEMMA SubmitEndsKeeps ==
  ASSUME RunnerInv, NEW s \in Turn, Submitted(s) \/ SubmitFails(s)
  PROVE  AtHome' /\ SubmitAlone' /\ CallerHolds'
<1>1. loop[s] = "submit" /\ UNCHANGED <<home, caller>>
  BY DEF Submitted, SubmitFails
<1>2. home[s] \in Handle /\ pc[home[s]] = "enqueue" /\ lock # home[s]
  BY <1>1, SubmitterHasNoFlock
<1>3. lock' = lock
  BY <1>2 DEF Submitted, EnqueueWrite, SubmitFails, WriteFails, claimVars
<1>4. /\ loop'[s] \in {"poll", "returned"}
      /\ \A r \in Turn : r # s => loop'[r] = loop[r]
      /\ \A g \in Handle : g # home[s] => pc'[g] = pc[g]
  BY <1>2 DEF RunnerInv, RunTypeOK, TypeOK, Submitted, EnqueueWrite, SubmitFails,
              WriteFails
<1>5. AtHome'
  BY <1>1, <1>2, <1>4 DEF RunnerInv, AtHome
<1>6. \A r \in Turn : loop'[r] = "submit" =>
        r # s /\ loop[r] = "submit" /\ home[r] \in Handle /\ home[r] # home[s]
  BY <1>1, <1>4, SubmitterHasNoFlock DEF RunnerInv, SubmitAlone
<1>7. SubmitAlone'
  BY <1>1, <1>4, <1>6 DEF RunnerInv, SubmitAlone
<1>8. caller # s
  BY <1>1, RunsDoNotClaim
<1>9. CallerHolds'
  BY <1>1, <1>3, <1>4, <1>8 DEF RunnerInv, CallerHolds, RunTypeOK
<1> QED
  BY <1>5, <1>7, <1>9

\* A submitter takes the flock for ClaimFor.
LEMMA PollKeeps ==
  ASSUME RunnerInv, NEW s \in Turn, Poll(s)
  PROVE  AtHome' /\ SubmitAlone' /\ CallerHolds'
<1>1. /\ loop[s] = "poll" /\ pc[home[s]] = "idle"
      /\ caller' = s /\ lock' = home[s]
      /\ UNCHANGED <<loop, home>>
  BY DEF Poll, ClaimBegin
<1>2. home[s] \in Handle
  BY <1>1 DEF RunnerInv, AtHome
<1>3. \A g \in Handle : g # home[s] => pc'[g] = pc[g]
  BY DEF RunnerInv, RunTypeOK, TypeOK, Poll, ClaimBegin
<1>4. AtHome'
  BY <1>1 DEF RunnerInv, AtHome
<1>5. \A r \in Turn : loop[r] = "submit" => home[r] \in Handle /\ home[r] # home[s]
  BY <1>1, SubmitterHasNoFlock
<1>6. SubmitAlone'
  BY <1>1, <1>3, <1>5 DEF RunnerInv, SubmitAlone
<1>7. CallerHolds'
  BY <1>1, <1>2, QueueAssumption, RunnerAssumption DEF CallerHolds
<1> QED
  BY <1>4, <1>6, <1>7

\* ClaimFor is over: the flock is free and no submitter is in the queue.
LEMMA ClaimEndsKeeps ==
  ASSUME RunnerInv, NEW s \in Turn,
         PollAgain(s) \/ PollFails(s) \/ \E t \in Turn : StartRun(s, t)
  PROVE  AtHome' /\ SubmitAlone' /\ CallerHolds'
<1>1. caller = s
  BY DEF PollAgain, PollFails, StartRun
<1>2. home[s] \in Handle /\ lock = home[s] /\ loop[s] = "poll"
  BY <1>1, CallerClaims
<1>3. pc[home[s]] = "claim"
  BY <1>2 DEF RunnerInv, QueueInv, LockHeld
<1>4. /\ caller' = None /\ lock' = None /\ home' = home
      /\ loop'[s] \in {"poll", "returned", "run"}
      /\ \A r \in Turn : r # s => loop'[r] = loop[r]
      /\ \A g \in Handle : g # home[s] => pc'[g] = pc[g]
  BY <1>2 DEF RunnerInv, RunTypeOK, TypeOK, PollAgain, PollFails, StartRun,
              ClaimNothing, WriteFails, ClaimFirst, Release
<1>5. AtHome'
  BY <1>2, <1>4 DEF RunnerInv, AtHome
<1>6. \A r \in Turn : loop'[r] = "submit" =>
        r # s /\ loop[r] = "submit" /\ home[r] \in Handle /\ home[r] # home[s]
  BY <1>3, <1>4, SubmitterHasNoFlock
<1>7. SubmitAlone'
  BY <1>4, <1>6 DEF RunnerInv, SubmitAlone
<1>8. CallerHolds'
  BY <1>4 DEF CallerHolds
<1> QED
  BY <1>5, <1>7, <1>8

\* A process dies with its submitters: none of them is in the queue any more.
LEMMA DieKeeps ==
  ASSUME RunnerInv, NEW h \in Handle, Die(h)
  PROVE  AtHome' /\ SubmitAlone' /\ CallerHolds'
<1>0. /\ home' = home
      /\ \A r \in Turn :
           loop'[r] = IF home[r] = h /\ loop[r] # "returned" THEN "gone" ELSE loop[r]
  BY DEF Die
<1>1. /\ home' = home
      /\ \A r \in Turn : loop'[r] = loop[r] \/ (loop'[r] = "gone" /\ home[r] = h)
      /\ \A r \in Turn : home[r] = h => loop'[r] \in {"gone", "returned"}
  BY <1>0
<1>p. \A g \in Handle : g # h => pc'[g] = pc[g]
  BY DEF RunnerInv, RunTypeOK, TypeOK, Die, Crash
<1>2. AtHome'
  BY <1>1, QueueAssumption DEF RunnerInv, AtHome
<1>3. \A r \in Turn : loop'[r] = "submit" =>
        loop[r] = "submit" /\ home[r] \in Handle /\ home[r] # h
  BY <1>1, SubmitterHasNoFlock
<1>4. SubmitAlone'
  BY <1>1, <1>3, <1>p DEF RunnerInv, SubmitAlone
<1>5. CallerHolds'
  <2>1. CASE lock = h
    BY <2>1 DEF Die, Crash, Release, CallerHolds
  <2>2. CASE lock # h
    <3>1. lock' = lock /\ caller' = caller
      BY <2>2 DEF Die, Crash, claimVars
    <3> QED
      BY <1>1, <2>2, <3>1 DEF RunnerInv, CallerHolds, RunTypeOK
  <2> QED
    BY <2>1, <2>2
<1> QED
  BY <1>2, <1>4, <1>5

\* The invariant of the runners is inductive.
LEMMA RunNextInv == RunnerInv /\ [RunNext]_allVars => RunnerInv'
<1> SUFFICES ASSUME RunnerInv, [RunNext]_allVars PROVE RunnerInv'
  OBVIOUS
<1>0. QueueInv' /\ RunTypeOK'
  BY StepsAreQueueSteps, NextInv, RunNextTyped DEF RunnerInv
<1> DEFINE Kept == AtHome' /\ SubmitAlone' /\ CallerHolds'
<1> SUFFICES Kept
  BY <1>0 DEF RunnerInv
<1>1. ASSUME NEW h \in Handle, Die(h) PROVE Kept
  BY <1>1, DieKeeps
<1>2. ASSUME NEW h \in Handle, NEW t \in Turn, SubmitBegin(h, t) PROVE Kept
  BY <1>2, SubmitBeginKeeps
<1>3. ASSUME NEW h \in Handle, NEW t \in Turn,
             CancelLocal(h, t) \/ CancelDurable(h, t)
      PROVE  Kept
  BY <1>3, NobodyMoves
     DEF CancelLocal, CancelDurable, CancelActive, vars, claimVars, runVars
<1>4. CASE Elapse
  BY <1>4, NobodyMoves DEF Elapse, Tick, runVars
<1>5. ASSUME NEW s \in Turn, Submitted(s) \/ SubmitFails(s) PROVE Kept
  BY <1>5, SubmitEndsKeeps
<1>6. ASSUME NEW s \in Turn, Poll(s) PROVE Kept
  BY <1>6, PollKeeps
<1>7. ASSUME NEW s \in Turn,
             PollAgain(s) \/ PollFails(s) \/ \E t \in Turn : StartRun(s, t)
      PROVE  Kept
  BY <1>7, ClaimEndsKeeps
<1>8. ASSUME NEW s \in Turn,
             Sweep(s) \/ RenewRun(s) \/ WatchLoss(s) \/ LoseCaller(s)
      PROVE  Kept
  BY <1>8, NobodyMoves DEF Sweep, Requeue, FindBusy, RenewRun, Renew, WatchLoss,
                           LoseCaller, vars, claimVars, runVars
<1>9. ASSUME NEW s \in Turn, GiveUp(s) PROVE Kept
  BY <1>9, OneMoves DEF GiveUp, vars
<1>10. ASSUME NEW s \in Turn, NEW failed \in BOOLEAN, AgentEnds(s, failed)
       PROVE  Kept
  BY <1>10, RunsDoNotClaim, OneMoves DEF AgentEnds, vars
<1>11. ASSUME NEW s \in Turn, Persist(s) \/ SaveFails(s) PROVE Kept
  <2>1. loop[s] \in {"run", "persist"} /\ caller # s
    BY <1>11, RunsDoNotClaim DEF Persist, SaveFails
  <2>2. PICK o \in {"completing", "canceling"} : loop' = [loop EXCEPT ![s] = o]
    BY <1>11 DEF Persist, SaveFails, Outcomes
  <2> QED
    BY <1>11, <2>1, <2>2, OneMoves DEF Persist, SaveFails, vars
<1>12. ASSUME NEW s \in Turn, SettleRun(s) \/ SettleRefused(s) PROVE Kept
  BY <1>12, RunsDoNotClaim, OneMoves
     DEF SettleRun, Settle, Finish, SettleRefused, vars, claimVars
<1>13. ASSUME NEW s \in Turn, EndRun(s) PROVE Kept
  <2>1. PICK x \in {"poll", "returned"} : loop' = [loop EXCEPT ![s] = x]
    BY <1>13 DEF EndRun, Leave
  <2> QED
    BY <1>13, <2>1, RunsDoNotClaim, OneMoves DEF EndRun, Leave, vars
<1>14. CASE UNCHANGED allVars
  BY <1>14, NobodyMoves DEF allVars, vars, runVars
<1> QED
  BY <1>1, <1>2, <1>3, <1>4, <1>5, <1>6, <1>7, <1>8, <1>9, <1>10, <1>11,
     <1>12, <1>13, <1>14 DEF RunNext, Submitter

\* Every state the runners reach satisfies their invariant.
THEOREM RunnerInvariant == RunSpec => []RunnerInv
<1>1. RunInit => RunnerInv
  BY InitRunner
<1> QED
  BY <1>1, RunNextInv, PTL DEF RunSpec

\* The processes with their runners implement the queue, so all that
\* TurnQueueProofs proves of it holds of them.
THEOREM RunnersUseTheQueue == RunSpec => Spec
<1>1. RunInit => Init
  BY DEF RunInit
<1> QED
  BY <1>1, StepsAreQueueSteps, RunnerInvariant, PTL DEF RunSpec, Spec

-----------------------------------------------------------------------------
\* An entry for local cancellation names the run of its turn in its process:
\* it is made when the run starts and removed, or dies, with it.
LEMMA CancelNext ==
  ASSUME RunnerInv, CancelHitsItsTurn, [RunNext]_allVars
  PROVE  CancelHitsItsTurn'
<1>t. RunTypeOK
  BY DEF RunnerInv
<1> USE DEF RunTypeOK, CancelHitsItsTurn
<1>1. ASSUME NEW h \in Handle, Die(h) PROVE CancelHitsItsTurn'
  <2>1. /\ home' = home
        /\ active' = [active EXCEPT ![h] = [t \in Turn |-> None]]
        /\ \A s \in Turn : home[s] # h => running'[s] = running[s]
    BY <1>1 DEF Die
  <2>2. \A t \in Turn : active'[h][t] = None
    BY <1>t, <2>1
  <2>3. \A g \in Handle : g # h => active'[g] = active[g]
    BY <1>t, <2>1
  <2> QED
    BY <1>t, <2>1, <2>2, <2>3
<1>2. ASSUME NEW h \in Handle, NEW t \in Turn, SubmitBegin(h, t)
      PROVE  CancelHitsItsTurn'
  <2>1. running[t] = None
    BY <1>t, <1>2 DEF SubmitBegin, InRun, Working
  <2> QED
    BY <1>t, <1>2, <2>1, RunnerAssumption DEF SubmitBegin
<1>3. ASSUME NEW s \in Turn, NEW t \in Turn, StartRun(s, t)
      PROVE  CancelHitsItsTurn'
  <2>1. home[s] \in Handle /\ running[s] = None
    BY <1>3, CallerClaims DEF StartRun
  <2>2. \A g \in Handle, u \in Turn : active[g][u] # s
    BY <1>t, <2>1, RunnerAssumption
  <2>3. /\ home' = home
        /\ running' = [running EXCEPT ![s] = t]
        /\ active' = [active EXCEPT ![home[s]][t] = s]
    BY <1>3 DEF StartRun
  <2> QED
    BY <1>t, <2>1, <2>2, <2>3
<1>4. ASSUME NEW s \in Turn, EndRun(s) PROVE CancelHitsItsTurn'
  <2>1. home[s] \in Handle /\ running[s] \in Turn
    BY <1>4, RunsAtHome DEF EndRun, InRun
  <2>2. /\ home' = home
        /\ running' = [running EXCEPT ![s] = None]
        /\ active' = [active EXCEPT ![home[s]][running[s]] = None]
    BY <1>4 DEF EndRun, Leave
  <2>3. \A g \in Handle, u \in Turn : active'[g][u] # s
    BY <1>t, <2>1, <2>2, RunnerAssumption
  <2> QED
    BY <1>t, <2>1, <2>2, <2>3
<1>5. ASSUME UNCHANGED <<home, running, active>> PROVE CancelHitsItsTurn'
  BY <1>5
<1>6. ASSUME NEW s \in Turn,
             \/ Submitted(s) \/ SubmitFails(s) \/ Poll(s) \/ Sweep(s)
             \/ PollAgain(s) \/ PollFails(s) \/ GiveUp(s)
             \/ \E failed \in BOOLEAN : AgentEnds(s, failed)
             \/ Persist(s) \/ SaveFails(s) \/ SettleRun(s) \/ SettleRefused(s)
             \/ RenewRun(s) \/ WatchLoss(s) \/ LoseCaller(s)
      PROVE  CancelHitsItsTurn'
  BY <1>5, <1>6 DEF Submitted, SubmitFails, Poll, Sweep, PollAgain, PollFails,
       GiveUp, AgentEnds, Persist, SaveFails, SettleRun, SettleRefused, RenewRun,
       WatchLoss, LoseCaller, runVars
<1>7. ASSUME NEW h \in Handle, NEW t \in Turn,
             CancelLocal(h, t) \/ CancelDurable(h, t)
      PROVE  CancelHitsItsTurn'
  BY <1>5, <1>7 DEF CancelLocal, CancelDurable, runVars
<1>8. CASE Elapse \/ UNCHANGED allVars
  BY <1>5, <1>8 DEF Elapse, allVars, runVars
<1> QED
  BY <1>1, <1>2, <1>3, <1>4, <1>6, <1>7, <1>8 DEF RunNext, Submitter

\* A local cancel reaches a run of exactly the turn it names, in any process,
\* whatever turns are taken over, run again or canceled through the queue.
THEOREM CancelReachesItsTurn == RunSpec => []CancelHitsItsTurn
<1>1. RunInit => CancelHitsItsTurn
  BY DEF RunInit, CancelHitsItsTurn
<1> QED
  BY <1>1, CancelNext, RunnerInvariant, PTL DEF RunSpec

-----------------------------------------------------------------------------
\* A step makes a turn complete only by settling the run that has it.
LEMMA CompletedByItsRun ==
  ASSUME RunnerInv, [RunNext]_allVars, NEW t \in Turn,
         file'[t].status = "complete", file[t].status # "complete"
  PROVE  \E s \in Turn :
           SettleRun(s) /\ loop[s] = "completing" /\ running[s] = t
<1>0. file \in [Turn -> TurnState]
  BY DEF RunnerInv, QueueInv, TypeOK
<1>1. ASSUME NEW s \in Turn, SettleRun(s)
      PROVE  loop[s] = "completing" /\ running[s] = t
  <2>1. running[s] \in Turn
    BY <1>1, RunsAtHome DEF SettleRun, Settle, InRun, Working
  <2>2. PICK o \in {"complete", "canceled"} :
          /\ o = "complete" => loop[s] = "completing"
          /\ file' = [file EXCEPT ![running[s]] = Finished(o)]
    BY <1>1 DEF SettleRun, Settle, Finish
  <2> QED
    BY <1>0, <2>1, <2>2 DEF Finished
<1>2. \A h \in Handle, u \in Turn : ~EnqueueWrite(h, u)
  BY <1>0 DEF EnqueueWrite, Pending
<1>3. \A h \in Handle, u \in Turn : ~Requeue(h, u)
  BY <1>0 DEF Requeue, Pending
<1>4. \A h \in Handle, u \in Turn : ~ClaimFirst(h, u)
  BY <1>0 DEF ClaimFirst, Claimed
<1>5. \A h \in Handle, u \in Turn : ~Renew(h, u)
  BY <1>0 DEF Renew, Claimed
<1>6. \A h \in Handle, u \in Turn : ~CancelActive(h, u)
  BY <1>0 DEF CancelActive, Finished
<1>7. ~Tick
  BY <1>0, AgedKeeps DEF Tick
<1>8. file' # file
  OBVIOUS
<1>9. ASSUME NEW s \in Turn, Submitter(s) PROVE SettleRun(s)
  <2>1. ~Submitted(s) /\ ~Sweep(s) /\ ~(\E u \in Turn : StartRun(s, u))
    <3>1. loop[s] = "submit" => home[s] \in Handle
      BY SubmitterHasNoFlock
    <3>2. caller = s => home[s] \in Handle
      BY CallerClaims
    <3> QED
      BY <1>2, <1>3, <1>4, <1>8, <3>1, <3>2 DEF Submitted, Sweep, FindBusy, StartRun
  <2>2. ~RenewRun(s)
    <3>1. Working(s) => home[s] \in Handle /\ running[s] \in Turn
      BY RunsAtHome DEF InRun
    <3> QED
      BY <1>5, <3>1 DEF RenewRun
  <2>3. file' = file \/ SettleRun(s)
    BY <1>9, <2>1, <2>2 DEF Submitter, SubmitFails, Poll, PollAgain, PollFails,
         GiveUp, AgentEnds, Persist, SaveFails, SettleRefused, EndRun, Leave,
         WatchLoss, LoseCaller, WriteFails, ClaimBegin, ClaimNothing, vars
  <2> QED
    BY <1>8, <2>3
<1>10. \A h \in Handle : ~Die(h) /\ \A u \in Turn : ~SubmitBegin(h, u)
  BY <1>8 DEF Die, Crash, SubmitBegin, EnqueueBegin
<1>11. \A h \in Handle, u \in Turn : ~CancelLocal(h, u) /\ ~CancelDurable(h, u)
  BY <1>6, <1>8 DEF CancelLocal, CancelDurable, vars
<1>12. ~Elapse /\ ~UNCHANGED allVars
  BY <1>7, <1>8 DEF Elapse, allVars, vars
<1> QED
  BY <1>1, <1>9, <1>10, <1>11, <1>12 DEF RunNext

\* A run comes to be settled only through the append to the session file.
LEMMA SavedFirstNext ==
  ASSUME ~SaveMayFail, RunnerInv, SavedFirst, [RunNext]_allVars
  PROVE  /\ SavedFirst'
         /\ \A i \in DOMAIN transcript :
              i \in DOMAIN transcript' /\ transcript'[i] = transcript[i]
<1> DEFINE Kept ==
      /\ SavedFirst'
      /\ \A i \in DOMAIN transcript :
           i \in DOMAIN transcript' /\ transcript'[i] = transcript[i]
<1> SUFFICES Kept
  OBVIOUS
<1>t. RunTypeOK
  BY DEF RunnerInv
<1> USE DEF RunTypeOK
<1>1. ASSUME transcript' = transcript,
             \A s \in Turn :
               loop'[s] \in {"completing", "canceling"} =>
                 loop'[s] = loop[s] /\ running'[s] = running[s]
      PROVE  Kept
  BY <1>1 DEF SavedFirst
<1>2. ASSUME NEW s \in Turn, Persist(s) PROVE Kept
  <2>1. running[s] \in Turn
    BY <1>2, RunsAtHome DEF Persist, InRun, Working
  <2>2. transcript' = Append(transcript, running[s]) /\ running' = running
    BY <1>2 DEF Persist
  <2>3. /\ \A i \in DOMAIN transcript :
             i \in DOMAIN transcript' /\ transcript'[i] = transcript[i]
        /\ Len(transcript) + 1 \in DOMAIN transcript'
        /\ transcript'[Len(transcript) + 1] = running[s]
    BY <1>t, <2>1, <2>2
  <2>4. \A r \in Turn : r # s => loop'[r] = loop[r]
    BY <1>t, <1>2 DEF Persist
  <2> QED
    BY <2>2, <2>3, <2>4 DEF SavedFirst
<1>3. ASSUME NEW s \in Turn, SaveFails(s) PROVE Kept
  BY <1>3 DEF SaveFails
<1>4. ASSUME NEW h \in Handle, Die(h) PROVE Kept
  <2>1. /\ transcript' = transcript
        /\ \A r \in Turn :
             loop'[r] = IF home[r] = h /\ loop[r] # "returned" THEN "gone" ELSE loop[r]
        /\ \A r \in Turn :
             running'[r] = IF home[r] = h /\ loop[r] # "returned" THEN None ELSE running[r]
    BY <1>4 DEF Die
  <2> QED
    BY <1>1, <2>1
<1>5. ASSUME NEW h \in Handle, NEW t \in Turn,
             SubmitBegin(h, t) \/ CancelLocal(h, t) \/ CancelDurable(h, t)
      PROVE  Kept
  BY <1>t, <1>1, <1>5 DEF SubmitBegin, CancelLocal, CancelDurable, runVars
<1>6. ASSUME NEW s \in Turn,
             \/ Submitted(s) \/ SubmitFails(s) \/ Poll(s) \/ Sweep(s)
             \/ PollAgain(s) \/ PollFails(s) \/ GiveUp(s)
             \/ RenewRun(s) \/ WatchLoss(s) \/ LoseCaller(s)
      PROVE  Kept
  BY <1>t, <1>1, <1>6 DEF Submitted, SubmitFails, Poll, Sweep, PollAgain, PollFails,
       GiveUp, RenewRun, WatchLoss, LoseCaller, runVars
<1>7. ASSUME NEW s \in Turn,
             \/ \E t \in Turn : StartRun(s, t)
             \/ \E failed \in BOOLEAN : AgentEnds(s, failed)
             \/ SettleRun(s) \/ SettleRefused(s) \/ EndRun(s)
      PROVE  Kept
  BY <1>t, <1>1, <1>7 DEF StartRun, AgentEnds, SettleRun, SettleRefused, EndRun, Leave
<1>8. CASE Elapse \/ UNCHANGED allVars
  BY <1>t, <1>1, <1>8 DEF Elapse, allVars, runVars
<1> QED
  BY <1>2, <1>3, <1>4, <1>5, <1>6, <1>7, <1>8 DEF RunNext, Submitter

\* When the session file can be written, a turn that the queue calls complete
\* has its messages there, whoever has run it and however often.
THEOREM CompletedTurnsAreRecorded ==
  ASSUME ~SaveMayFail
  PROVE  RunSpec => []CompleteIsRecorded
<1>1. RunInit => SavedFirst /\ CompleteIsRecorded
  <2>1. RunInit => CompleteIsRecorded
    BY DEF RunInit, Init, CompleteIsRecorded, Missing
  <2> QED
    BY <2>1, InitRunner
<1>2. ASSUME RunnerInv, SavedFirst /\ CompleteIsRecorded, [RunNext]_allVars
      PROVE  (SavedFirst /\ CompleteIsRecorded)'
  <2>1. /\ SavedFirst'
        /\ \A i \in DOMAIN transcript :
             i \in DOMAIN transcript' /\ transcript'[i] = transcript[i]
    BY <1>2, SavedFirstNext
  <2>2. ASSUME NEW t \in Turn, file'[t].status = "complete"
        PROVE  \E i \in DOMAIN transcript : transcript[i] = t
    <3>1. CASE file[t].status = "complete"
      BY <1>2, <3>1 DEF CompleteIsRecorded
    <3>2. CASE file[t].status # "complete"
      BY <1>2, <2>2, <3>2, CompletedByItsRun DEF SavedFirst
    <3> QED
      BY <3>1, <3>2
  <2>3. CompleteIsRecorded'
    BY <2>1, <2>2 DEF CompleteIsRecorded
  <2> QED
    BY <2>1, <2>3
<1> QED
  BY <1>1, <1>2, RunnerInvariant, PTL DEF RunSpec

-----------------------------------------------------------------------------
\* No worker stalls and nobody cancels through the queue: the conditions under
\* which docs/M1-CONTRACTS.md can promise one runner.  Workers may still fail,
\* die, or be unable to use the queue file.
Undisturbed == StallFree /\ Cancellable = {}

\* A worker keeps its turn over every step of the queue but its own settlement:
\* a turn with a running lease is not requeued, claimed or settled by others.
LEMMA QueueKeepsHolding ==
  ASSUME RunnerInv, Holding, Undisturbed, [RunNext]_allVars,
         NEW s \in Turn, Working(s), ~SettleRun(s)
  PROVE  /\ file'[running[s]].status = "active"
         /\ file'[running[s]].owner = home[s]
         /\ file'[running[s]].ttl > 0
<1> DEFINE t == running[s]
           h == home[s]
           Kept == /\ file'[t].status = "active"
                   /\ file'[t].owner = h
                   /\ file'[t].ttl > 0
<1>0. file \in [Turn -> TurnState] /\ Lease \in Nat \ {0}
  BY QueueAssumption DEF RunnerInv, QueueInv, TypeOK
<1>1. t \in Turn /\ h \in Handle
  BY RunsAtHome DEF InRun
<1>2. file[t].status = "active" /\ file[t].owner = h /\ file[t].ttl > 0
  BY DEF Holding, Owns
<1> SUFFICES Kept
  OBVIOUS
<1> HIDE DEF t, h
<1>3. ASSUME file'[t] = file[t] PROVE Kept
  BY <1>2, <1>3
<1>4. \A g \in Handle, u \in Turn : EnqueueWrite(g, u) => Kept
  <2> SUFFICES ASSUME NEW g \in Handle, NEW u \in Turn, EnqueueWrite(g, u)
               PROVE  Kept
    OBVIOUS
  <2>1. u # t
    BY <1>2 DEF EnqueueWrite, RunnerInv, QueueInv, RanksAgree
  <2> QED
    BY <1>0, <1>1, <1>3, <2>1 DEF EnqueueWrite
<1>5. \A g \in Handle, u \in Turn : Requeue(g, u) => Kept
  <2> SUFFICES ASSUME NEW g \in Handle, NEW u \in Turn, Requeue(g, u)
               PROVE  Kept
    OBVIOUS
  <2>1. u # t
    BY <1>2, RequeuesExpired DEF RunnerInv, Expired
  <2> QED
    BY <1>0, <1>1, <1>3, <2>1 DEF Requeue
<1>6. \A g \in Handle, u \in Turn : ClaimFirst(g, u) => Kept
  <2> SUFFICES ASSUME NEW g \in Handle, NEW u \in Turn, ClaimFirst(g, u)
               PROVE  Kept
    OBVIOUS
  <2>1. u # t
    BY <1>2, ClaimsOldest DEF RunnerInv
  <2> QED
    BY <1>0, <1>1, <1>3, <2>1 DEF ClaimFirst
<1>7. \A g \in Handle, u \in Turn : Renew(g, u) => Kept
  <2> SUFFICES ASSUME NEW g \in Handle, NEW u \in Turn, Renew(g, u)
               PROVE  Kept
    OBVIOUS
  <2>1. CASE u = t
    BY <1>0, <1>1, <1>2, <2>1 DEF Renew, Owns, Claimed
  <2>2. CASE u # t
    BY <1>0, <1>1, <1>3, <2>2 DEF Renew
  <2> QED
    BY <2>1, <2>2
<1>8. ASSUME NEW r \in Turn, SettleRun(r) PROVE Kept
  <2>1. Working(r) /\ running[r] \in Turn
    BY <1>8, RunsAtHome DEF SettleRun, Settle, InRun, Working
  <2>2. r # s
    BY <1>8
  <2>3. running[r] # t
    BY <2>1, <2>2 DEF Holding, t
  <2> QED
    BY <1>0, <1>1, <1>3, <1>8, <2>1, <2>3 DEF SettleRun, Settle, Finish
<1>9. CASE Elapse
  <2>1. file[t].ttl # 1
    BY <1>2, <1>9 DEF Elapse, Undisturbed, LastTick, Owns, t, h
  <2>2. file'[t] = Aged(file[t])
    BY <1>1, <1>9 DEF Elapse, Tick
  <2>3. file[t].ttl \in 0 .. Lease
    BY <1>0, <1>1 DEF TurnState
  <2>4. file'[t].ttl > 0
    <3>1. file'[t].ttl = file[t].ttl - 1
      BY <1>0, <1>1, <1>2, <2>2, <2>3 DEF Aged, TurnState
    <3> QED
      BY <1>0, <1>2, <2>1, <2>3, <3>1
  <2>5. file'[t].status = file[t].status /\ file'[t].owner = file[t].owner
    BY <1>0, <1>1, <2>2, AgedKeeps
  <2> QED
    BY <1>2, <2>4, <2>5
<1>10. ASSUME NEW r \in Turn, Submitted(r) PROVE Kept
  BY <1>4, <1>10, SubmitterHasNoFlock DEF Submitted
<1>11. ASSUME NEW r \in Turn, Sweep(r) \/ \E u \in Turn : StartRun(r, u)
       PROVE  Kept
  <2>1. home[r] \in Handle
    BY <1>11, CallerClaims DEF Sweep, StartRun
  <2> QED
    BY <1>3, <1>5, <1>6, <1>11, <2>1 DEF Sweep, StartRun, FindBusy
<1>12. ASSUME NEW r \in Turn, RenewRun(r) PROVE Kept
  <2>1. home[r] \in Handle /\ running[r] \in Turn
    BY <1>12, RunsAtHome DEF RenewRun, InRun
  <2> QED
    BY <1>7, <1>12, <2>1 DEF RenewRun
<1>13. ASSUME NEW r \in Turn,
              \/ SubmitFails(r) \/ Poll(r) \/ PollAgain(r) \/ PollFails(r)
              \/ GiveUp(r) \/ \E failed \in BOOLEAN : AgentEnds(r, failed)
              \/ Persist(r) \/ SaveFails(r) \/ SettleRefused(r) \/ EndRun(r)
              \/ WatchLoss(r) \/ LoseCaller(r)
       PROVE  Kept
  BY <1>3, <1>13 DEF SubmitFails, Poll, PollAgain, PollFails, GiveUp, AgentEnds,
       Persist, SaveFails, SettleRefused, EndRun, Leave, WatchLoss, LoseCaller,
       WriteFails, ClaimBegin, ClaimNothing, vars
<1>14. ASSUME NEW g \in Handle, NEW u \in Turn,
              SubmitBegin(g, u) \/ CancelLocal(g, u) \/ CancelDurable(g, u)
       PROVE  Kept
  BY <1>3, <1>14 DEF SubmitBegin, EnqueueBegin, CancelLocal,
       CancelDurable, Undisturbed, vars
<1>15. CASE UNCHANGED allVars
  BY <1>3, <1>15 DEF allVars, vars
<1>16. ASSUME NEW g \in Handle, Die(g) PROVE Kept
  BY <1>3, <1>16 DEF Die, Crash
<1> QED
  BY <1>8, <1>9, <1>10, <1>11, <1>12, <1>13, <1>14, <1>15, <1>16
     DEF RunNext, Submitter

\* Who works after a step worked on the same turn before it, or has just
\* claimed it.
LEMMA WhoWorks ==
  ASSUME RunnerInv, [RunNext]_allVars, NEW s \in Turn, Working(s)'
  PROVE  \/ /\ Working(s) /\ ~SettleRun(s)
            /\ home'[s] = home[s] /\ running'[s] = running[s]
         \/ \E t \in Turn : StartRun(s, t)
<1> DEFINE Stays == /\ Working(s) /\ ~SettleRun(s)
                    /\ home'[s] = home[s] /\ running'[s] = running[s]
<1> SUFFICES ASSUME \A t \in Turn : ~StartRun(s, t) PROVE Stays
  OBVIOUS
<1>t. RunTypeOK
  BY DEF RunnerInv
<1> USE DEF RunTypeOK, Working
<1>0. ~SettleRun(s)
  BY <1>t DEF SettleRun
<1>1. ASSUME loop'[s] = loop[s], home'[s] = home[s], running'[s] = running[s]
      PROVE  Stays
  BY <1>0, <1>1
<1>2. ASSUME NEW h \in Handle, Die(h) PROVE Stays
  <2>1. /\ home' = home
        /\ loop'[s] = IF home[s] = h /\ loop[s] # "returned" THEN "gone" ELSE loop[s]
        /\ running'[s] = IF home[s] = h /\ loop[s] # "returned" THEN None ELSE running[s]
    BY <1>2 DEF Die
  <2> QED
    BY <1>1, <2>1
<1>3. ASSUME NEW h \in Handle, NEW t \in Turn,
             SubmitBegin(h, t) \/ CancelLocal(h, t) \/ CancelDurable(h, t)
      PROVE  Stays
  BY <1>t, <1>1, <1>3 DEF SubmitBegin, CancelLocal, CancelDurable, runVars
<1>4. ASSUME NEW r \in Turn,
             \/ Submitted(r) \/ SubmitFails(r) \/ Poll(r) \/ Sweep(r)
             \/ PollAgain(r) \/ PollFails(r) \/ GiveUp(r)
             \/ RenewRun(r) \/ WatchLoss(r) \/ LoseCaller(r)
      PROVE  Stays
  BY <1>t, <1>1, <1>4 DEF Submitted, SubmitFails, Poll, Sweep, PollAgain, PollFails,
       GiveUp, RenewRun, WatchLoss, LoseCaller, runVars
<1>5. ASSUME NEW r \in Turn, NEW t \in Turn, StartRun(r, t) PROVE Stays
  BY <1>t, <1>1, <1>5 DEF StartRun
<1>6. ASSUME NEW r \in Turn,
             \/ \E failed \in BOOLEAN : AgentEnds(r, failed)
             \/ Persist(r) \/ SaveFails(r)
      PROVE  Stays
  <2>1. loop[r] \in {"run", "persist"} /\ home' = home /\ running' = running
    BY <1>6 DEF AgentEnds, Persist, SaveFails
  <2>2. \A q \in Turn : q # r => loop'[q] = loop[q]
    BY <1>t, <1>6 DEF AgentEnds, Persist, SaveFails
  <2> QED
    BY <1>0, <1>1, <2>1, <2>2
<1>7. ASSUME NEW r \in Turn, SettleRun(r) \/ SettleRefused(r) \/ EndRun(r)
      PROVE  Stays
  BY <1>t, <1>1, <1>7 DEF SettleRun, SettleRefused, EndRun, Leave
<1>8. CASE Elapse \/ UNCHANGED allVars
  BY <1>t, <1>1, <1>8 DEF Elapse, allVars, runVars
<1> QED
  BY <1>2, <1>3, <1>4, <1>5, <1>6, <1>7, <1>8 DEF RunNext, Submitter

\* A worker takes a turn that nobody works on, with a full lease.
LEMMA StartsAlone ==
  ASSUME RunnerInv, Holding, NEW s \in Turn, NEW t \in Turn, StartRun(s, t)
  PROVE  /\ Owns(home[s], t)' /\ file'[t].ttl > 0
         /\ home'[s] = home[s] /\ running'[s] = t
         /\ \A r \in Turn : Working(r) => running[r] # t
         /\ \A r \in Turn : r # s => loop'[r] = loop[r] /\ running'[r] = running[r]
<1>1. home[s] \in Handle /\ file[t].status = "pending"
  BY CallerClaims, ClaimsOldest DEF StartRun, RunnerInv
<1>2. file'[t] = Claimed(home[s])
  BY <1>1 DEF StartRun, ClaimFirst, RunnerInv, QueueInv, TypeOK
<1>3. Owns(home[s], t)' /\ file'[t].ttl > 0
  BY <1>2, QueueAssumption DEF Owns, Claimed, StartRun
<1>4. \A r \in Turn : Working(r) => running[r] # t
  BY <1>1 DEF Holding, Owns
<1>5. /\ home'[s] = home[s] /\ running'[s] = t
      /\ \A r \in Turn : r # s => loop'[r] = loop[r] /\ running'[r] = running[r]
  BY DEF StartRun, RunnerInv, RunTypeOK
<1> QED
  BY <1>3, <1>4, <1>5

\* Holding is inductive.
LEMMA HoldingNext ==
  ASSUME RunnerInv, Holding, Undisturbed, [RunNext]_allVars
  PROVE  Holding'
<1>1. ASSUME NEW s \in Turn, Working(s)'
      PROVE  Owns(home[s], running[s])' /\ file'[running'[s]].ttl > 0
  <2>1. CASE Working(s) /\ ~SettleRun(s) /\ home'[s] = home[s]
             /\ running'[s] = running[s]
    BY <2>1, QueueKeepsHolding DEF Owns
  <2>2. ASSUME NEW t \in Turn, StartRun(s, t)
        PROVE  Owns(home[s], running[s])' /\ file'[running'[s]].ttl > 0
    BY <2>2, StartsAlone DEF Owns
  <2> QED
    BY <1>1, <2>1, <2>2, WhoWorks
<1>2. ASSUME NEW r \in Turn, NEW s \in Turn, Working(r)', Working(s)',
             running'[r] = running'[s], r # s
      PROVE  FALSE
  <2>1. ASSUME NEW q \in Turn, NEW p \in Turn, NEW t \in Turn, StartRun(q, t),
               Working(p)', p # q, running'[p] = running'[q]
        PROVE  FALSE
    <3>1. Working(p) /\ running'[p] = running[p]
      BY <2>1, StartsAlone DEF Working
    <3>2. running'[q] = t
      BY <2>1, StartsAlone
    <3>3. Working(p) => running[p] # t
      BY <2>1, StartsAlone
    <3> QED
      BY <2>1, <3>1, <3>2, <3>3
  <2>2. CASE (\E t \in Turn : StartRun(r, t)) \/ \E t \in Turn : StartRun(s, t)
    BY <1>2, <2>1, <2>2
  <2>3. CASE ~(\E t \in Turn : StartRun(r, t)) /\ ~\E t \in Turn : StartRun(s, t)
    <3>1. Working(r) /\ Working(s) /\ running[r] = running[s]
      BY <1>2, <2>3, WhoWorks
    <3> QED
      BY <1>2, <3>1 DEF Holding
  <2> QED
    BY <2>2, <2>3
<1> QED
  BY <1>1, <1>2 DEF Holding

\* Nobody works on two turns of a conversation at once, in however many
\* processes: as long as no worker stalls beyond its lease, and nobody cancels
\* through the queue.
THEOREM OneRunnerWorks ==
  ASSUME Undisturbed
  PROVE  RunSpec => []OneRunner
<1>1. RunInit => Holding
  BY InitRunner
<1>2. ASSUME RunnerInv, Holding, [RunNext]_allVars PROVE Holding'
  BY <1>2, HoldingNext
<1>3. ASSUME RunnerInv, Holding, OneActive PROVE OneRunner
  <2> SUFFICES ASSUME NEW r \in Turn, NEW s \in Turn, Working(r), Working(s),
                      ConversationOf[running[r]] = ConversationOf[running[s]]
               PROVE  r = s
    BY DEF OneRunner
  <2>1. running[r] \in Turn /\ running[s] \in Turn
    BY <1>3, RunsAtHome DEF InRun
  <2>2. running[r] = running[s]
    BY <1>3, <2>1 DEF Holding, Owns, OneActive
  <2> QED
    BY <1>3, <2>2 DEF Holding
<1> QED
  BY <1>1, <1>2, <1>3, RunnerInvariant, RunnersUseTheQueue, QueueOneActive, PTL
     DEF RunSpec

-----------------------------------------------------------------------------
\* What a step does to the session file: nothing, or an append of the turn a
\* worker has.
LEMMA TranscriptGrows ==
  ASSUME RunnerInv, [RunNext]_allVars
  PROVE  \/ transcript' = transcript
         \/ \E s \in Turn :
              /\ Working(s)
              /\ transcript' = Append(transcript, running[s])
<1>1. ASSUME NEW s \in Turn, Submitter(s)
      PROVE  transcript' = transcript \/ Persist(s)
  BY <1>1 DEF Submitter, Submitted, SubmitFails, Poll, Sweep, PollAgain, PollFails,
       GiveUp, StartRun, AgentEnds, SaveFails, SettleRun, SettleRefused, EndRun,
       Leave, RenewRun, WatchLoss, LoseCaller, runVars
<1>2. ASSUME NEW h \in Handle, NEW t \in Turn,
             SubmitBegin(h, t) \/ CancelLocal(h, t) \/ CancelDurable(h, t)
      PROVE  transcript' = transcript
  BY <1>2 DEF SubmitBegin, CancelLocal, CancelDurable, runVars
<1>3. ASSUME NEW h \in Handle, Die(h) PROVE transcript' = transcript
  BY <1>3 DEF Die
<1>4. CASE Elapse \/ UNCHANGED allVars
  BY <1>4 DEF Elapse, allVars, runVars
<1>5. ASSUME NEW s \in Turn, Persist(s)
      PROVE  Working(s) /\ transcript' = Append(transcript, running[s])
  BY <1>5 DEF Persist, Working
<1> QED
  BY <1>1, <1>2, <1>3, <1>4, <1>5 DEF RunNext

\* SavedBehind is inductive: a settled turn stays settled, and a worker that
\* saves still owns its turn, so that all before it is settled.
LEMMA SavedBehindNext ==
  ASSUME RunnerInv, Holding, SavedBehind, [RunNext]_allVars
  PROVE  SavedBehind'
<1>0. QueueInv /\ [Next]_vars /\ transcript \in Seq(Turn)
  BY StepsAreQueueSteps DEF RunnerInv, RunTypeOK
<1>1. ASSUME NEW t \in Turn, rank[t] > 0,
             \A u \in Turn : Earlier(u, t) => Settled(file[u])
      PROVE  /\ rank'[t] > 0
             /\ \A u \in Turn : Earlier(u, t)' => Settled(file'[u])
  <2>1. rank'[t] > 0
    BY <1>0, <1>1, NothingComesBefore
  <2>2. ASSUME NEW u \in Turn, Earlier(u, t)' PROVE Settled(file'[u])
    <3>1. Settled(file[u])
      BY <1>0, <1>1, <2>2, NothingComesBefore
    <3> QED
      BY <1>0, <3>1, SettledStays DEF Settled
  <2> QED
    BY <2>1, <2>2
<1>2. CASE transcript' = transcript
  BY <1>1, <1>2 DEF SavedBehind
<1>3. ASSUME NEW s \in Turn, Working(s), transcript' = Append(transcript, running[s])
      PROVE  SavedBehind'
  <2>1. running[s] \in Turn
    BY <1>3, RunsAtHome DEF InRun
  <2>2. file[running[s]].status = "active"
    BY <1>3 DEF Holding, Owns
  <2>3. rank[running[s]] > 0
    BY <1>0, <2>1, <2>2 DEF QueueInv, RanksAgree, TypeOK
  <2>4. \A u \in Turn : Earlier(u, running[s]) => Settled(file[u])
    BY <1>0, <2>1, <2>2 DEF QueueInv, InOrder
  <2>5. \A i \in DOMAIN transcript' :
          \/ i \in DOMAIN transcript /\ transcript'[i] = transcript[i]
          \/ transcript'[i] = running[s]
    BY <1>0, <1>3, <2>1
  <2>6. ASSUME NEW t \in Turn, NEW i \in DOMAIN transcript', transcript'[i] = t
        PROVE  rank[t] > 0 /\ \A u \in Turn : Earlier(u, t) => Settled(file[u])
    BY <2>3, <2>4, <2>5, <2>6 DEF SavedBehind
  <2> QED
    BY <1>1, <2>6 DEF SavedBehind
<1> QED
  BY <1>2, <1>3, TranscriptGrows

\* An append keeps the session file in submission order.
LEMMA TranscriptNext ==
  ASSUME RunnerInv, Holding, SavedBehind, TranscriptInOrder, [RunNext]_allVars
  PROVE  TranscriptInOrder'
<1>0. QueueInv /\ [Next]_vars /\ transcript \in Seq(Turn)
  BY StepsAreQueueSteps DEF RunnerInv, RunTypeOK
<1>1. ASSUME NEW t \in Turn, NEW u \in Turn, Earlier(u, t)',
             NEW i \in DOMAIN transcript, transcript[i] = t
      PROVE  Earlier(u, t)
  BY <1>0, <1>1, NothingComesBefore DEF SavedBehind
<1> SUFFICES ASSUME NEW i \in DOMAIN transcript', NEW j \in DOMAIN transcript',
                    i < j, NEW t \in Turn, NEW u \in Turn,
                    transcript'[i] = t, transcript'[j] = u, Earlier(u, t)'
             PROVE  FALSE
  <2>1. transcript' \in Seq(Turn)
    BY RunNextInv DEF RunnerInv, RunTypeOK
  <2> QED
    BY <2>1 DEF TranscriptInOrder
<1>2. CASE transcript' = transcript
  BY <1>1, <1>2 DEF TranscriptInOrder
<1>3. ASSUME NEW s \in Turn, Working(s), transcript' = Append(transcript, running[s])
      PROVE  FALSE
  <2>1. running[s] \in Turn
    BY <1>3, RunsAtHome DEF InRun
  <2>2. i \in DOMAIN transcript /\ transcript[i] = t
    BY <1>0, <1>3, <2>1
  <2>3. Earlier(u, t)
    BY <1>1, <2>2
  <2>4. CASE j \in DOMAIN transcript
    <3>1. transcript[j] = u
      BY <1>0, <1>3, <2>1, <2>4
    <3> QED
      BY <2>2, <2>3, <2>4, <3>1 DEF TranscriptInOrder
  <2>5. CASE j \notin DOMAIN transcript
    <3>1. u = running[s]
      BY <1>0, <1>3, <2>1, <2>5
    <3>2. Settled(file[u])
      BY <2>2, <2>3 DEF SavedBehind
    <3> QED
      BY <1>3, <3>1, <3>2 DEF Holding, Owns, Settled
  <2> QED
    BY <2>4, <2>5
<1> QED
  BY <1>2, <1>3, TranscriptGrows

\* The session file has the turns of a conversation in the order in which they
\* were submitted, under the same conditions as OneRunnerWorks: also when a turn
\* is run again because its first worker died or could not settle it.
THEOREM TranscriptKeepsOrder ==
  ASSUME Undisturbed
  PROVE  RunSpec => []TranscriptInOrder
<1>1. RunInit => Holding /\ SavedBehind /\ TranscriptInOrder
  <2>1. RunInit => TranscriptInOrder
    BY DEF RunInit, TranscriptInOrder
  <2> QED
    BY <2>1, InitRunner
<1>2. ASSUME RunnerInv, Holding /\ SavedBehind /\ TranscriptInOrder,
             [RunNext]_allVars
      PROVE  (Holding /\ SavedBehind /\ TranscriptInOrder)'
  BY <1>2, HoldingNext, SavedBehindNext, TranscriptNext
<1> QED
  BY <1>1, <1>2, RunnerInvariant, PTL DEF RunSpec
=============================================================================
