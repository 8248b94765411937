-------------------------------- MODULE Registry --------------------------------
(***************************************************************************)
(* The links from an adapter's own keys (a chat, a browser tab) to durable *)
(* conversations: conversation.Registry of internal/conversation, used by  *)
(* several processes over one append-only file.  Every operation takes the *)
(* file lock, replays the file and may append one line; the last line of a *)
(* key wins.  An append that fails may leave part of a line, and the next  *)
(* line is then glued to it, which makes both unreadable.                  *)
(***************************************************************************)
EXTENDS Naturals, Sequences, SequencesExt, FiniteSets

CONSTANTS
  Client,          \* processes with a registry of their own
  LinkKey,         \* <<adapter, adapter key>>
  Workspace,
  Canonical,       \* CanonicalConversationID of the service
  NoClient,
  MaxLines,        \* bound on the length of the file and on the IDs made up
  MaxTornLines     \* bound on appends that fail half way

ASSUME RegistryAssumption ==
  /\ NoClient \notin Client /\ MaxLines \in Nat /\ MaxTornLines \in Nat

VARIABLES
  lines,       \* the file: links, and torn lines
  tornTail,    \* does the file end in part of a line?
  linkLock,    \* flock of <path>.lock
  call,        \* per client: the operation under way, with its decision
  created,     \* how many conversation IDs were made up
  told,        \* per key: the conversations that Resolve has returned
  relinked,    \* keys that were given another conversation on purpose
  hidden         \* keys of links that are unreadable

registryVars == <<lines, tornTail, linkLock, call, created, told, relinked, hidden>>

Torn == [torn |-> TRUE]
LinkLine(key, conversation, workspace) ==
  [torn |-> FALSE, key |-> key, conversation |-> conversation, workspace |-> workspace]
NoLink == [torn |-> TRUE]
NoCall == [op |-> "none"]

\* reload: lines that do not parse are skipped, the last of a key wins.
LinesOf(key) == {i \in DOMAIN lines : ~lines[i].torn /\ lines[i].key = key}
Linked(key) == IF LinesOf(key) = {} THEN NoLink ELSE lines[Max(LinesOf(key))]

RegistryInit ==
  /\ lines = <<>> /\ tornTail = FALSE
  /\ linkLock = NoClient
  /\ call = [k \in Client |-> NoCall]
  /\ created = 0
  /\ told = [key \in LinkKey |-> {}]
  /\ relinked = {} /\ hidden = {}

\* What an operation is about to append, or NoLink if the file already says it.
Decision(op, key, workspace) ==
  LET link == Linked(key)
      same == ~link.torn /\ (op = "Resolve" \/ (op = "ResolveShared" /\ link.conversation = Canonical))
      target == IF op = "Resolve" THEN created + 1 ELSE Canonical
  IN IF op = "Link" \/ ~same THEN LinkLine(key, target, workspace)
     ELSE IF link.workspace = workspace THEN NoLink
     ELSE LinkLine(key, link.conversation, workspace)

\* mutant: an operation does not wait for the file lock
BeginCallUnlocked(k) ==
  /\ call[k] = NoCall
  /\ \E op \in {"Resolve", "ResolveShared", "Link"}, key \in LinkKey, ws \in Workspace :
       LET d == Decision(op, key, ws)
       IN /\ created <= MaxLines
          /\ call' = [call EXCEPT ![k] = [op |-> op, key |-> key, line |-> d]]
          /\ created' = created + (IF op = "Resolve" /\ Linked(key).torn THEN 1 ELSE 0)
  /\ UNCHANGED <<lines, tornTail, linkLock, told, relinked, hidden>>

\* Lock, replay, decide.
BeginCall(k) ==
  /\ call[k] = NoCall
  /\ linkLock = NoClient
  /\ linkLock' = k
  /\ \E op \in {"Resolve", "ResolveShared", "Link"}, key \in LinkKey, ws \in Workspace :
       LET d == Decision(op, key, ws)
       IN /\ created <= MaxLines
          /\ call' = [call EXCEPT ![k] = [op |-> op, key |-> key, line |-> d]]
          /\ created' = created + (IF op = "Resolve" /\ Linked(key).torn THEN 1 ELSE 0)
  /\ UNCHANGED <<lines, tornTail, told, relinked, hidden>>

Return(k, answered) ==
  LET key == call[k].key
  IN /\ told' = IF call[k].op = "Resolve" /\ answered # NoLink
                THEN [told EXCEPT ![key] = @ \cup {answered.conversation}] ELSE told
     /\ call' = [call EXCEPT ![k] = NoCall]
     /\ linkLock' = NoClient

\* The file already has the link.
ReturnKnown(k) ==
  /\ call[k] # NoCall /\ call[k].line = NoLink
  /\ Return(k, Linked(call[k].key))
  /\ UNCHANGED <<lines, tornTail, created, relinked, hidden>>

AppendLink(k) ==
  LET line == call[k].line
  IN /\ call[k] # NoCall /\ line # NoLink
     /\ Len(lines) < MaxLines
     /\ lines' = Append(lines, IF tornTail THEN Torn ELSE line)
     /\ hidden' = hidden \cup (IF tornTail THEN {line.key} ELSE {})
     /\ tornTail' = FALSE
     /\ relinked' = relinked \cup (IF call[k].op = "Resolve" THEN {} ELSE {line.key})
     /\ Return(k, line)
     /\ UNCHANGED created

\* The write fails, and may have put part of the line into the file; Resolve
\* hands its link out along with the error, and callers look at the error.
AppendFails(k) ==
  /\ call[k] # NoCall /\ call[k].line # NoLink
  /\ Cardinality({i \in DOMAIN lines : lines[i].torn}) + (IF tornTail THEN 1 ELSE 0) < MaxTornLines
  /\ tornTail' \in {tornTail, TRUE}
  /\ Return(k, NoLink)
  /\ UNCHANGED <<lines, created, relinked, hidden>>

\* The process dies before the line, or after it and before the answer.
ClientDies(k) ==
  /\ call[k] # NoCall
  /\ \/ UNCHANGED lines
     \/ ~tornTail /\ call[k].line # NoLink /\ Len(lines) < MaxLines
          /\ lines' = Append(lines, call[k].line)
  /\ relinked' = relinked \cup (IF call[k].op = "Resolve" THEN {} ELSE {call[k].key})
  /\ call' = [call EXCEPT ![k] = NoCall]
  /\ linkLock' = NoClient
  /\ UNCHANGED <<tornTail, created, told, hidden>>

RegistryNext == \E k \in Client :
  BeginCall(k) \/ ReturnKnown(k) \/ AppendLink(k) \/ AppendFails(k) \/ ClientDies(k)

RegistrySpec == RegistryInit /\ [][RegistryNext]_registryVars

-----------------------------------------------------------------------------
RegistryTypeOK ==
  /\ \A i \in DOMAIN lines : lines[i].torn \/ lines[i].key \in LinkKey
  /\ linkLock \in Client \cup {NoClient}
  /\ relinked \cup hidden \subseteq LinkKey

(***************************************************************************)
(* A chat keeps its conversation: whatever processes resolve it, at once   *)
(* or after a crash, they are told the same one, and it is the one the     *)
(* file has.  Exceptions: a key that was bound to another conversation on  *)
(* purpose, and a link written behind a torn line, which is hidden.          *)
(***************************************************************************)
OneConversation ==
  \A key \in LinkKey \ (relinked \cup hidden) :
    told[key] # {} => ~Linked(key).torn /\ told[key] = {Linked(key).conversation}
=============================================================================
