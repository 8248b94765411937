-------------------------- MODULE ConversationFifo --------------------------
(***************************************************************************)
(* What the durable turn queue promises to the rest of the system.  Every  *)
(* conversation has a line of turns in submission order.  At any moment at *)
(* most one turn of a conversation runs, and it is the oldest one that has *)
(* not been settled.  A running turn is either settled for good, or put    *)
(* back into its place in the line (its worker was lost); a turn that      *)
(* still waits can only be started, never dropped.                         *)
(*                                                                         *)
(* Nothing is said here of processes, locks, files or leases: TurnQueue    *)
(* has those, and implements this specification.                           *)
(***************************************************************************)
EXTENDS Naturals

CONSTANTS
  Turn,            \* the turns that may be submitted
  Conversation,    \* the conversations
  ConversationOf   \* the conversation each turn is submitted to

VARIABLES
  stage,   \* how far each turn has come
  place,   \* its place in the order of submission, 0 before it is submitted
  last     \* the last place given away

fifoVars == <<stage, place, last>>

Stage == {"absent", "waiting", "running", "settled"}

Earlier(t, u) ==
  /\ ConversationOf[t] = ConversationOf[u]
  /\ 0 < place[t]
  /\ place[t] < place[u]

FifoInit ==
  /\ stage = [t \in Turn |-> "absent"]
  /\ place = [t \in Turn |-> 0]
  /\ last = 0

Submit(t) ==
  /\ stage[t] = "absent"
  /\ stage' = [stage EXCEPT ![t] = "waiting"]
  /\ place' = [place EXCEPT ![t] = last + 1]
  /\ last' = last + 1

Start(t) ==
  /\ stage[t] = "waiting"
  /\ \A u \in Turn : Earlier(u, t) => stage[u] = "settled"
  /\ stage' = [stage EXCEPT ![t] = "running"]
  /\ UNCHANGED <<place, last>>

PutBack(t) ==
  /\ stage[t] = "running"
  /\ stage' = [stage EXCEPT ![t] = "waiting"]
  /\ UNCHANGED <<place, last>>

Settle(t) ==
  /\ stage[t] = "running"
  /\ stage' = [stage EXCEPT ![t] = "settled"]
  /\ UNCHANGED <<place, last>>

FifoNext ==
  \E t \in Turn : Submit(t) \/ Start(t) \/ PutBack(t) \/ Settle(t)

FifoSpec == FifoInit /\ [][FifoNext]_fifoVars
=============================================================================
