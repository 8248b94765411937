----------------------------- MODULE StoresProofs -----------------------------
(***************************************************************************)
(* Proofs about the stores that MCStores puts in one run and that have no  *)
(* state in common: Registry, MemoryEngine, AuthStore and Tools, each for  *)
(* all values of its constants.  The arguments are before each part.  At   *)
(* the end the sum, with the session log and the compacted one, whose      *)
(* proofs are in modules of their own.                                     *)
(***************************************************************************)
EXTENDS MCStores, SessionLogProofs, SessionTreeProofs, SequenceTheorems

-----------------------------------------------------------------------------
(***************************************************************************)
(* Proofs about Registry, for every number of processes, keys, workspaces  *)
(* and lines, torn ones among them.                                        *)
(*                                                                         *)
(* A key keeps its conversation because what a process is about to write   *)
(* still fits the file when it writes: nobody else is in the registry      *)
(* (OneCaller), so the link that its decision was made on is still the     *)
(* last one (CallFits).                                                    *)
(***************************************************************************)
Ops == {"Resolve", "ResolveShared", "Link"}
ConversationIds == Nat \cup {Canonical}
Links == [torn : {FALSE}, key : LinkKey, conversation : ConversationIds, workspace : Workspace]

FileOK ==
  /\ lines \in Seq({Torn} \cup Links)
  /\ tornTail \in BOOLEAN
  /\ created \in Nat
  /\ linkLock \in Client \cup {NoClient}
  /\ told \in [LinkKey -> SUBSET ConversationIds]
  /\ relinked \subseteq LinkKey
  /\ hidden \subseteq LinkKey
  /\ call \in [Client -> {NoCall} \cup
                 [op : Ops, key : LinkKey, line : {NoLink} \cup Links]]

\* The line that counts for a key: no later one is of the key.
IsLast(i, key) == i \in LinesOf(key) /\ \A j \in LinesOf(key) : j <= i

\* A key that has a line has a last one.
LastExists == \A key \in LinkKey : LinesOf(key) # {} => \E i \in Nat : IsLast(i, key)

\* The process with an operation under way holds the file lock.
OneCaller == \A k \in Client : call[k] # NoCall => linkLock = k

\* What an operation has decided fits the file as it is.
CallFits ==
  \A k \in Client :
    call[k] # NoCall =>
      LET key == call[k].key  line == call[k].line
      IN /\ line = NoLink => ~Linked(key).torn
         /\ line # NoLink => line.key = key
         /\ line # NoLink /\ call[k].op = "Resolve" /\ ~Linked(key).torn
              => line.conversation = Linked(key).conversation

RegistryInv ==
  /\ FileOK
  /\ LastExists
  /\ OneCaller
  /\ CallFits
  /\ OneConversation

-----------------------------------------------------------------------------
\* The largest number of a set, where there is one.
LEMMA GreatestIs ==
  ASSUME NEW S \in SUBSET Nat, NEW i \in S, \A j \in S : j <= i
  PROVE  Max(S) = i
<1>1. \E x \in S : \A y \in S : x >= y
  OBVIOUS
<1>2. Max(S) \in S /\ \A y \in S : Max(S) >= y
  BY <1>1, Zenon DEF Max
<1> DEFINE m == Max(S)
<1> HIDE DEF m
<1>3. m \in S /\ m >= i /\ m <= i
  BY <1>2 DEF m
<1>4. m = i
  BY <1>3
<1> QED
  BY <1>4 DEF m

\* The link of a key is the last line of it.
LEMMA LinkedIsLast ==
  ASSUME FileOK, NEW key \in LinkKey, NEW i \in Nat, IsLast(i, key)
  PROVE  /\ Linked(key) = lines[i]
         /\ Linked(key) \in Links
         /\ Linked(key).key = key
<1>1. i \in LinesOf(key) /\ LinesOf(key) \subseteq Nat
  BY DEF IsLast, LinesOf, FileOK
<1>2. Max(LinesOf(key)) = i
  BY <1>1, GreatestIs DEF IsLast
<1>3. Linked(key) = lines[i]
  BY <1>1, <1>2 DEF Linked
<1>4. lines[i] \in {Torn} \cup Links /\ ~lines[i].torn /\ lines[i].key = key
  BY <1>1 DEF LinesOf, FileOK
<1>5. lines[i] \in Links
  BY <1>4 DEF Torn
<1> QED
  BY <1>3, <1>4, <1>5

\* What is read for a key is a link of it, or none.
LEMMA LinkedTyped ==
  ASSUME FileOK, LastExists, NEW key \in LinkKey
  PROVE  \/ Linked(key) = NoLink /\ LinesOf(key) = {}
         \/ Linked(key) \in Links /\ Linked(key).key = key /\ LinesOf(key) # {}
<1>1. CASE LinesOf(key) = {}
  BY <1>1 DEF Linked
<1>2. CASE LinesOf(key) # {}
  <2>1. PICK i \in Nat : IsLast(i, key)
    BY <1>2 DEF LastExists
  <2> QED
    BY <1>2, <2>1, LinkedIsLast
<1> QED
  BY <1>1, <1>2

\* A line at the end of the file is the link of its key, and of no other.
LEMMA AppendedCounts ==
  ASSUME FileOK, LastExists, NEW l \in {Torn} \cup Links, lines' = Append(lines, l)
  PROVE  /\ lines' \in Seq({Torn} \cup Links)
         /\ LastExists'
         /\ \A key \in LinkKey :
              IF ~l.torn /\ l.key = key THEN Linked(key)' = l ELSE Linked(key)' = Linked(key)
<1>1. PICK n \in Nat :
        /\ lines' \in Seq({Torn} \cup Links)
        /\ n >= 1 /\ DOMAIN lines = 1 .. n - 1 /\ DOMAIN lines' = 1 .. n
        /\ lines'[n] = l /\ \A i \in 1 .. n - 1 : lines'[i] = lines[i]
  <2>1. Len(lines) + 1 \in Nat /\ Len(lines) + 1 >= 1
    BY DEF FileOK
  <2> QED
    BY <2>1 DEF FileOK
<1>2. ASSUME NEW key \in LinkKey, ~l.torn, l.key = key
      PROVE  /\ \E i \in Nat : IsLast(i, key)'
             /\ Linked(key)' = l
  <2>1. n \in LinesOf(key)' /\ LinesOf(key)' \subseteq Nat /\ \A j \in LinesOf(key)' : j <= n
    BY <1>1, <1>2 DEF LinesOf
  <2>2. IsLast(n, key)'
    BY <2>1 DEF IsLast
  <2>3. Max(LinesOf(key)') = n
    BY <2>1, GreatestIs
  <2> QED
    BY <2>1, <2>2, <2>3, <1>1 DEF Linked
<1>3. ASSUME NEW key \in LinkKey, ~(~l.torn /\ l.key = key)
      PROVE  /\ LinesOf(key)' # {} => \E i \in Nat : IsLast(i, key)'
             /\ Linked(key)' = Linked(key)
  <2>1. LinesOf(key)' = LinesOf(key)
    BY <1>1, <1>3 DEF LinesOf
  <2>2. CASE LinesOf(key) = {}
    BY <2>1, <2>2 DEF Linked
  <2>3. CASE LinesOf(key) # {}
    <3>1. PICK i \in Nat : IsLast(i, key)
      BY <2>3 DEF LastExists
    <3>2. IsLast(i, key)' /\ i \in 1 .. n - 1
      BY <1>1, <2>1, <3>1 DEF IsLast, LinesOf
    <3>3. LinesOf(key) \subseteq Nat
      BY <1>1 DEF LinesOf
    <3>4. Max(LinesOf(key)) = i
      BY <3>1, <3>3, GreatestIs DEF IsLast
    <3> QED
      BY <1>1, <2>1, <2>3, <3>2, <3>4 DEF Linked
  <2> QED
    BY <2>2, <2>3
<1>4. LastExists'
  BY <1>2, <1>3 DEF LastExists
<1> QED
  BY <1>1, <1>2, <1>3, <1>4

\* An operation decides on the link it needs, keeping the conversation that
\* Resolve finds, or on nothing if the file already says it.
LEMMA DecisionFits ==
  ASSUME FileOK, LastExists, NEW op \in Ops, NEW key \in LinkKey, NEW ws \in Workspace
  PROVE  LET d == Decision(op, key, ws)
         IN  /\ d \in {NoLink} \cup Links
             /\ d = NoLink => ~Linked(key).torn
             /\ d # NoLink => d.key = key
             /\ d # NoLink /\ op = "Resolve" /\ ~Linked(key).torn
                  => d.conversation = Linked(key).conversation
<1> DEFINE link == Linked(key)
           found == IF op = "Resolve" THEN created + 1 ELSE Canonical
<1>1. link = NoLink \/ (link \in Links /\ link.key = key)
  BY LinkedTyped
<1>2. link.torn => link = NoLink
  BY <1>1 DEF Links
<1>3. NoLink.torn /\ \A l \in Links : ~l.torn /\ l # NoLink
  <2>1. NoLink.torn
    BY DEF NoLink
  <2>2. \A l \in Links : ~l.torn
    BY DEF Links
  <2> QED
    BY <2>1, <2>2
<1>4. found \in ConversationIds
  BY DEF FileOK, ConversationIds
<1>5. \A c \in ConversationIds : LinkLine(key, c, ws) \in Links /\ LinkLine(key, c, ws).key = key
                       /\ LinkLine(key, c, ws).conversation = c
  BY DEF LinkLine, Links
<1>6. ~link.torn => link.conversation \in ConversationIds
  BY <1>1, <1>3 DEF Links
<1> HIDE DEF link, found
<1>7. \/ Decision(op, key, ws) = LinkLine(key, found, ws) /\ (op = "Resolve" => link.torn)
      \/ Decision(op, key, ws) = NoLink /\ ~link.torn
      \/ Decision(op, key, ws) = LinkLine(key, link.conversation, ws) /\ ~link.torn
  BY DEF Decision, link, found, Ops
<1> QED
  BY <1>3, <1>4, <1>5, <1>6, <1>7 DEF link

\* The empty file links nothing, and nobody was told anything.
LEMMA RegistryStarts == RegistryInit => RegistryInv
<1> SUFFICES ASSUME RegistryInit PROVE RegistryInv
  OBVIOUS
<1> USE DEF RegistryInit
<1>1. FileOK
  <2>1. lines \in Seq({Torn} \cup Links)
    OBVIOUS
  <2>2. created \in Nat /\ told \in [LinkKey -> SUBSET ConversationIds]
    OBVIOUS
  <2>3. call \in [Client -> {NoCall} \cup [op : Ops, key : LinkKey, line : {NoLink} \cup Links]]
    OBVIOUS
  <2> QED
    BY <2>1, <2>2, <2>3 DEF FileOK
<1>2. LastExists
  BY DEF LastExists, LinesOf
<1>3. OneCaller /\ CallFits
  BY DEF OneCaller, CallFits
<1>4. OneConversation
  BY DEF OneConversation
<1> QED
  BY <1>1, <1>2, <1>3, <1>4 DEF RegistryInv

\* Who reads an unchanged file reads the same links.
LEMMA SameFileSameLinks ==
  ASSUME UNCHANGED lines
  PROVE  /\ LastExists => LastExists'
         /\ \A key \in LinkKey : Linked(key)' = Linked(key)
BY DEF LastExists, IsLast, Linked, LinesOf

\* When the operation ends that had the lock, none is under way.
LEMMA CallEnds ==
  ASSUME FileOK, OneCaller, NEW k \in Client, call[k] # NoCall,
         call' = [call EXCEPT ![k] = NoCall], linkLock' = NoClient
  PROVE  /\ call' \in [Client -> {NoCall}]
         /\ OneCaller' /\ CallFits'
<1>1. \A j \in Client : j # k => call[j] = NoCall
  BY DEF OneCaller
<1>2. call' \in [Client -> {NoCall}]
  BY <1>1 DEF FileOK
<1> QED
  BY <1>2 DEF OneCaller, CallFits

\* What an operation under way is known by.
LEMMA CallTyped ==
  ASSUME FileOK, NEW k \in Client, call[k] # NoCall
  PROVE  call[k].op \in Ops /\ call[k].key \in LinkKey /\ call[k].line \in {NoLink} \cup Links
BY DEF FileOK

\* An operation that has the lock and has read the file decides by it.
LEMMA BeginCallStep ==
  ASSUME RegistryInv, NEW k \in Client, BeginCall(k)
  PROVE  RegistryInv'
<1>1. FileOK /\ LastExists /\ OneCaller /\ OneConversation
  BY DEF RegistryInv
<1>2. PICK op \in Ops, key \in LinkKey, ws \in Workspace :
        /\ call' = [call EXCEPT ![k] = [op |-> op, key |-> key, line |-> Decision(op, key, ws)]]
        /\ created' = created + (IF op = "Resolve" /\ Linked(key).torn THEN 1 ELSE 0)
  BY DEF BeginCall, Ops
<1> DEFINE d == Decision(op, key, ws)
           new == [op |-> op, key |-> key, line |-> d]
<1>3. /\ linkLock' = k
      /\ UNCHANGED <<lines, tornTail, told, relinked, hidden>>
  BY DEF BeginCall
<1>4. /\ d \in {NoLink} \cup Links
      /\ d = NoLink => ~Linked(key).torn
      /\ d # NoLink => d.key = key
      /\ d # NoLink /\ op = "Resolve" /\ ~Linked(key).torn
           => d.conversation = Linked(key).conversation
  BY <1>1, DecisionFits
<1> HIDE DEF d
<1>5. LastExists' /\ \A q \in LinkKey : Linked(q)' = Linked(q)
  BY <1>1, <1>3, SameFileSameLinks
<1>6. /\ call' \in [Client -> {NoCall} \cup [op : Ops, key : LinkKey, line : {NoLink} \cup Links]]
      /\ call'[k] = new
      /\ \A j \in Client : j # k => call'[j] = NoCall
  <2>1. \A j \in Client : call[j] = NoCall
    BY <1>1, RegistryAssumption DEF OneCaller, BeginCall
  <2>2. new \in [op : Ops, key : LinkKey, line : {NoLink} \cup Links]
    BY <1>4
  <2> HIDE DEF new
  <2>3. call' = [call EXCEPT ![k] = new]
    BY <1>2 DEF new, d
  <2> QED
    BY <1>1, <2>1, <2>2, <2>3 DEF FileOK
<1>7. created' \in Nat
  BY <1>1, <1>2 DEF FileOK
<1>8. FileOK'
  BY <1>1, <1>3, <1>6, <1>7 DEF FileOK
<1>9. OneCaller'
  BY <1>3, <1>6 DEF OneCaller
<1>10. CallFits'
  BY <1>4, <1>5, <1>6 DEF CallFits
<1>11. OneConversation'
  BY <1>1, <1>3, <1>5 DEF OneConversation
<1> QED
  BY <1>5, <1>8, <1>9, <1>10, <1>11 DEF RegistryInv

\* The answer that the file already has is the conversation that it has.
LEMMA ReturnKnownStep ==
  ASSUME RegistryInv, NEW k \in Client, ReturnKnown(k)
  PROVE  RegistryInv'
<1>1. FileOK /\ LastExists /\ OneCaller /\ CallFits /\ OneConversation
  BY DEF RegistryInv
<1> DEFINE key == call[k].key
<1>2. /\ call[k] # NoCall /\ call[k].line = NoLink
      /\ call' = [call EXCEPT ![k] = NoCall] /\ linkLock' = NoClient
      /\ UNCHANGED <<lines, tornTail, created, relinked, hidden>>
  BY DEF ReturnKnown, Return
<1>3. key \in LinkKey
  BY <1>1, <1>2, CallTyped
<1>4. ~Linked(key).torn /\ Linked(key) \in Links
  <2>1. ~Linked(key).torn
    BY <1>1, <1>2 DEF CallFits
  <2> QED
    BY <1>1, <1>3, <2>1, LinkedTyped DEF NoLink
<1>5. \/ told' = told
      \/ told' = [told EXCEPT ![key] = @ \cup {Linked(key).conversation}]
  BY DEF ReturnKnown, Return
<1>6. LastExists' /\ \A q \in LinkKey : Linked(q)' = Linked(q)
  BY <1>1, <1>2, SameFileSameLinks
<1>7. call' \in [Client -> {NoCall}] /\ OneCaller' /\ CallFits'
  BY <1>1, <1>2, CallEnds
<1> DEFINE c == Linked(key).conversation
<1>8. c \in ConversationIds
  BY <1>4 DEF Links
<1>9. told' \in [LinkKey -> SUBSET ConversationIds]
  <2> HIDE DEF c, key
  <2>1. told \in [LinkKey -> SUBSET ConversationIds]
    BY <1>1 DEF FileOK
  <2>2. told' = told \/ told' = [told EXCEPT ![key] = @ \cup {c}]
    BY <1>5 DEF c, key
  <2> QED
    BY <1>3, <1>8, <2>1, <2>2
<1>10. FileOK'
  BY <1>1, <1>2, <1>7, <1>9 DEF FileOK
<1>11. OneConversation'
  <2> SUFFICES ASSUME NEW q \in LinkKey \ (relinked \cup hidden), told'[q] # {}
               PROVE  ~Linked(q).torn /\ told'[q] = {Linked(q).conversation}
    BY <1>2, <1>6 DEF OneConversation
  <2>1. told \in [LinkKey -> SUBSET ConversationIds]
    BY <1>1 DEF FileOK
  <2>2. told[q] # {} => ~Linked(q).torn /\ told[q] = {Linked(q).conversation}
    BY <1>1 DEF OneConversation
  <2>3. CASE told'[q] = told[q]
    BY <2>2, <2>3
  <2>4. CASE q = key /\ told'[q] = told[q] \cup {c}
    BY <1>4, <2>2, <2>4
  <2> QED
    BY <1>3, <1>5, <2>1, <2>3, <2>4
<1> QED
  BY <1>1, <1>6, <1>7, <1>10, <1>11 DEF RegistryInv

\* A line that Resolve writes keeps the conversation that was told; a line that
\* is hidden behind a torn one, or binds the key anew, is an exception.
LEMMA AppendLinkStep ==
  ASSUME RegistryInv, NEW k \in Client, AppendLink(k)
  PROVE  RegistryInv'
<1>1. FileOK /\ LastExists /\ OneCaller /\ CallFits /\ OneConversation
  BY DEF RegistryInv
<1> DEFINE key == call[k].key
           line == call[k].line
           op == call[k].op
           put == IF tornTail THEN Torn ELSE line
<1>2. /\ call[k] # NoCall /\ line # NoLink
      /\ lines' = Append(lines, put)
      /\ hidden' = hidden \cup (IF tornTail THEN {line.key} ELSE {})
      /\ relinked' = relinked \cup (IF op = "Resolve" THEN {} ELSE {line.key})
      /\ tornTail' = FALSE /\ created' = created
      /\ told' = IF op = "Resolve" THEN [told EXCEPT ![key] = @ \cup {line.conversation}] ELSE told
      /\ call' = [call EXCEPT ![k] = NoCall] /\ linkLock' = NoClient
  BY DEF AppendLink, Return
<1>3. key \in LinkKey /\ line \in Links /\ line.key = key
  <2>1. line.key = key
    BY <1>1, <1>2 DEF CallFits
  <2> QED
    BY <1>1, <1>2, <2>1, CallTyped
<1>4. line.conversation \in ConversationIds /\ ~line.torn
  BY <1>3 DEF Links
<1>5. call' \in [Client -> {NoCall}] /\ OneCaller' /\ CallFits'
  BY <1>1, <1>2, CallEnds
<1>6. op = "Resolve" /\ ~Linked(key).torn => line.conversation = Linked(key).conversation
  BY <1>1, <1>2 DEF CallFits
<1>7. put \in {Torn} \cup Links
  BY <1>3
<1>8. /\ lines' \in Seq({Torn} \cup Links) /\ LastExists'
      /\ \A q \in LinkKey :
           IF ~put.torn /\ put.key = q THEN Linked(q)' = put ELSE Linked(q)' = Linked(q)
  BY <1>1, <1>2, <1>7, AppendedCounts
<1>9. /\ tornTail => put.torn
      /\ ~tornTail => put = line
  BY DEF Torn
<1> HIDE DEF key, line, op, put
<1>10. told \in [LinkKey -> SUBSET ConversationIds]
  BY <1>1 DEF FileOK
<1>11. told' \in [LinkKey -> SUBSET ConversationIds]
  BY <1>2, <1>3, <1>4, <1>10
<1>12. FileOK'
  <2>1. relinked \subseteq LinkKey /\ hidden \subseteq LinkKey /\ created \in Nat
    BY <1>1 DEF FileOK
  <2>2. relinked' \subseteq LinkKey /\ hidden' \subseteq LinkKey
    BY <1>2, <1>3, <2>1
  <2> QED
    BY <1>2, <1>5, <1>8, <1>11, <2>1, <2>2 DEF FileOK
<1>13. OneConversation'
  <2> SUFFICES ASSUME NEW q \in LinkKey \ (relinked' \cup hidden'), told'[q] # {}
               PROVE  ~Linked(q)'.torn /\ told'[q] = {Linked(q)'.conversation}
    BY DEF OneConversation
  <2>1. q \notin relinked \cup hidden
    BY <1>2
  <2>2. told[q] # {} => ~Linked(q).torn /\ told[q] = {Linked(q).conversation}
    BY <1>1, <2>1 DEF OneConversation
  <2>3. CASE q # key
    <3>1. told'[q] = told[q]
      BY <1>2, <1>3, <1>10, <2>3
    <3>2. Linked(q)' = Linked(q)
      BY <1>3, <1>8, <1>9, <2>3
    <3> QED
      BY <2>2, <3>1, <3>2
  <2>4. CASE q = key
    <3>1. ~tornTail /\ op = "Resolve"
      BY <1>2, <1>3, <2>4
    <3>2. told'[q] = told[q] \cup {line.conversation}
      BY <1>2, <1>3, <1>10, <2>4, <3>1
    <3>3. Linked(q)' = line
      BY <1>3, <1>4, <1>8, <1>9, <2>4, <3>1
    <3> QED
      BY <1>4, <1>6, <2>2, <2>4, <3>1, <3>2, <3>3
  <2> QED
    BY <2>3, <2>4
<1> QED
  BY <1>5, <1>8, <1>12, <1>13 DEF RegistryInv

\* An append that fails tells nobody anything, and adds no readable line.
LEMMA AppendFailsStep ==
  ASSUME RegistryInv, NEW k \in Client, AppendFails(k)
  PROVE  RegistryInv'
<1>1. FileOK /\ LastExists /\ OneCaller /\ CallFits /\ OneConversation
  BY DEF RegistryInv
<1>2. /\ call[k] # NoCall
      /\ tornTail' \in {tornTail, TRUE}
      /\ call' = [call EXCEPT ![k] = NoCall] /\ linkLock' = NoClient
      /\ UNCHANGED <<told, lines, created, relinked, hidden>>
  BY DEF AppendFails, Return
<1>3. LastExists' /\ \A q \in LinkKey : Linked(q)' = Linked(q)
  BY <1>1, <1>2, SameFileSameLinks
<1>4. call' \in [Client -> {NoCall}] /\ OneCaller' /\ CallFits'
  BY <1>1, <1>2, CallEnds
<1>5. FileOK'
  BY <1>1, <1>2, <1>4 DEF FileOK
<1>6. OneConversation'
  BY <1>1, <1>2, <1>3 DEF OneConversation
<1> QED
  BY <1>3, <1>4, <1>5, <1>6 DEF RegistryInv

\* A process that dies may leave its line, which fits what was told before.
LEMMA ClientDiesStep ==
  ASSUME RegistryInv, NEW k \in Client, ClientDies(k)
  PROVE  RegistryInv'
<1>1. FileOK /\ LastExists /\ OneCaller /\ CallFits /\ OneConversation
  BY DEF RegistryInv
<1> DEFINE key == call[k].key
           line == call[k].line
           op == call[k].op
<1>2. /\ call[k] # NoCall
      /\ lines' = lines \/ (line # NoLink /\ lines' = Append(lines, line))
      /\ relinked' = relinked \cup (IF op = "Resolve" THEN {} ELSE {key})
      /\ call' = [call EXCEPT ![k] = NoCall] /\ linkLock' = NoClient
      /\ UNCHANGED <<tornTail, created, told, hidden>>
  BY DEF ClientDies
<1>3. key \in LinkKey /\ line \in {NoLink} \cup Links
  BY <1>1, <1>2, CallTyped
<1>4. line # NoLink => line \in Links /\ line.key = key /\ ~line.torn
  <2>1. line # NoLink => line.key = key
    BY <1>1, <1>2 DEF CallFits
  <2> QED
    BY <1>3, <2>1 DEF Links
<1>5. line # NoLink /\ op = "Resolve" /\ ~Linked(key).torn
        => line.conversation = Linked(key).conversation
  BY <1>1, <1>2 DEF CallFits
<1>6. call' \in [Client -> {NoCall}] /\ OneCaller' /\ CallFits'
  BY <1>1, <1>2, CallEnds
<1>7. /\ lines' \in Seq({Torn} \cup Links) /\ LastExists'
      /\ \A q \in LinkKey :
           \/ Linked(q)' = Linked(q)
           \/ line # NoLink /\ q = key /\ Linked(q)' = line
  <2>1. CASE lines' = lines
    BY <1>1, <2>1, SameFileSameLinks DEF FileOK
  <2>2. CASE line # NoLink /\ lines' = Append(lines, line)
    <3>1. line \in {Torn} \cup Links
      BY <1>4, <2>2
    <3> QED
      BY <1>1, <1>4, <2>2, <3>1, AppendedCounts
  <2> QED
    BY <1>2, <2>1, <2>2
<1> HIDE DEF key, line, op
<1>8. FileOK'
  BY <1>1, <1>2, <1>3, <1>6, <1>7 DEF FileOK
<1>9. OneConversation'
  <2> SUFFICES ASSUME NEW q \in LinkKey \ (relinked' \cup hidden'), told'[q] # {}
               PROVE  ~Linked(q)'.torn /\ told'[q] = {Linked(q)'.conversation}
    BY DEF OneConversation
  <2>1. /\ ~Linked(q).torn /\ told[q] = {Linked(q).conversation}
        /\ told'[q] = told[q]
    BY <1>1, <1>2 DEF OneConversation
  <2>2. CASE Linked(q)' = Linked(q)
    BY <2>1, <2>2
  <2>3. CASE line # NoLink /\ q = key /\ Linked(q)' = line
    <3>1. op = "Resolve"
      BY <1>2, <2>3
    <3> QED
      BY <1>4, <1>5, <2>1, <2>3, <3>1
  <2> QED
    BY <1>7, <2>2, <2>3
<1> QED
  BY <1>6, <1>7, <1>8, <1>9 DEF RegistryInv

\* Every step keeps the invariant.
LEMMA RegistryStays == RegistryInv /\ [RegistryNext]_registryVars => RegistryInv'
<1> SUFFICES ASSUME RegistryInv, [RegistryNext]_registryVars PROVE RegistryInv'
  OBVIOUS
<1>1. ASSUME NEW k \in Client, BeginCall(k) PROVE RegistryInv'
  BY <1>1, BeginCallStep
<1>2. ASSUME NEW k \in Client, ReturnKnown(k) PROVE RegistryInv'
  BY <1>2, ReturnKnownStep
<1>3. ASSUME NEW k \in Client, AppendLink(k) PROVE RegistryInv'
  BY <1>3, AppendLinkStep
<1>4. ASSUME NEW k \in Client, AppendFails(k) PROVE RegistryInv'
  BY <1>4, AppendFailsStep
<1>5. ASSUME NEW k \in Client, ClientDies(k) PROVE RegistryInv'
  BY <1>5, ClientDiesStep
<1>6. CASE UNCHANGED registryVars
  <2> USE <1>6 DEF registryVars
  <2>1. FileOK'
    BY DEF RegistryInv, FileOK
  <2>2. LastExists' /\ \A q \in LinkKey : Linked(q)' = Linked(q)
    BY SameFileSameLinks DEF RegistryInv
  <2>3. OneCaller'
    BY DEF RegistryInv, OneCaller
  <2>4. CallFits'
    <3>1. \A k \in Client : call[k] # NoCall => call[k].key \in LinkKey
      BY CallTyped DEF RegistryInv
    <3> QED
      BY <2>2, <3>1 DEF RegistryInv, CallFits
  <2>5. OneConversation'
    BY <2>2 DEF RegistryInv, OneConversation
  <2> QED
    BY <2>1, <2>2, <2>3, <2>4, <2>5 DEF RegistryInv
<1> QED
  BY <1>1, <1>2, <1>3, <1>4, <1>5, <1>6 DEF RegistryNext

\* The inductive invariant of the registry: the shape of its file and of the
\* operations, the lock, and that a decision fits the file until it is written.
THEOREM RegistryInvariant == RegistrySpec => []RegistryInv
<1>1. RegistryInit => RegistryInv
  BY RegistryStarts
<1>2. RegistryInv /\ [RegistryNext]_registryVars => RegistryInv'
  BY RegistryStays
<1> QED
  BY <1>1, <1>2, PTL DEF RegistrySpec

\* A chat keeps its conversation: every Resolve of a key, by any process, in
\* any order and across crashes, is told the conversation that the file has,
\* unless the key was bound anew or its link stands behind a torn line.
THEOREM RegistryOneConversation == RegistrySpec => []OneConversation
<1>1. RegistryInv => OneConversation
  BY DEF RegistryInv
<1> QED
  BY <1>1, RegistryInvariant, PTL

\* The registry's file has links of its keys and torn lines.
THEOREM RegistryTyped == RegistrySpec => []RegistryTypeOK
<1>1. RegistryInv => RegistryTypeOK
  <2> SUFFICES ASSUME RegistryInv PROVE RegistryTypeOK
    OBVIOUS
  <2> DEFINE S == {Torn} \cup Links
  <2>1. lines \in Seq(S)
    BY DEF RegistryInv, FileOK
  <2>t. Torn.torn
    BY DEF Torn
  <2>l. \A x \in Links : x.key \in LinkKey
    BY DEF Links
  <2>2. \A x \in S : x.torn \/ x.key \in LinkKey
    BY <2>t, <2>l
  <2> HIDE DEF S
  <2>3. \A i \in DOMAIN lines : lines[i].torn \/ lines[i].key \in LinkKey
    BY <2>1, <2>2
  <2> QED
    BY <2>3 DEF RegistryInv, FileOK, RegistryTypeOK
<1> QED
  BY <1>1, RegistryInvariant, PTL

-----------------------------------------------------------------------------
(***************************************************************************)
(* Proofs about MemoryEngine, for all turns, backfills, processes and      *)
(* facts: what a checkpoint or an episode points at has been written.      *)
(*                                                                         *)
(* A failure writes the checkpoint back that was read when the turn was    *)
(* triggered, so that what a worker has read must be kept good as well;    *)
(* and of a consolidation under way it must be known which of the facts of *)
(* its answer are written.                                                 *)
(***************************************************************************)
Node == Workers \X Local
AnswerShape == [facts : SUBSET Local, related : SUBSET (Node \cup Local),
                edges : SUBSET ({OldNode} \X (Node \cup Local))]

MemTyped ==
  /\ pc \in [Workers -> Places]
  /\ checkpoint \in [Conversations -> Workers \cup {Nobody}]
  /\ progress \in [Conversations -> [last : Workers \cup {Nobody}, cooling : BOOLEAN]]
  /\ sawLast \in [Workers -> Workers \cup {Nobody}]
  /\ answer \in [Workers -> AnswerShape]
  /\ factsLeft \in [Workers -> SUBSET Local]

Has(w, facts) == \A f \in facts : NodeOf(w, f) \in DOMAIN nodes

\* How far the writes of a worker have come.
WrittenBy(w) ==
  /\ pc[w] = "recordCheckpoint" => w \in DOMAIN episodes
  /\ pc[w] \in {"edges", "writeNode"} =>
       /\ Has(w, answer[w].facts \ factsLeft[w])
       /\ \A n \in answer[w].related \cap Node : \E f \in answer[w].facts : n = NodeOf(w, f)
  /\ pc[w] \in {"checkpoint", "finish"} => w \in DOMAIN episodes /\ Has(w, answer[w].facts)

NodesWritten == \A w \in Workers : WrittenBy(w)

\* A turn was recorded, and what was found in it when it was last consolidated
\* to the end is there.
Covered(w) ==
  /\ w \in DOMAIN episodes /\ w \in DOMAIN consolidated
  /\ consolidated[w] \subseteq DOMAIN nodes

Pointers ==
  /\ \A c \in Conversations : checkpoint[c] # Nobody => checkpoint[c] \in DOMAIN episodes
  /\ \A c \in Conversations : progress[c].last # Nobody => Covered(progress[c].last)
  /\ \A w \in Workers : sawLast[w] # Nobody => Covered(sawLast[w])

MemInv == MemTyped /\ NodesWritten /\ Pointers /\ RelatedExist

-----------------------------------------------------------------------------
LEMMA Assumed == \A w \in Workers : Conv(w) \in Conversations
  BY MemoryAssumption DEF Conv

LEMMA GotoMoves ==
  ASSUME MemTyped, NEW w \in Workers, NEW place \in Places, Goto(w, place)
  PROVE  /\ pc' \in [Workers -> Places] /\ pc'[w] = place
         /\ \A v \in Workers \ {w} : pc'[v] = pc[v]
  BY DEF Goto, MemTyped

\* What is written stays.
Grows == DOMAIN nodes \subseteq DOMAIN nodes' /\ DOMAIN episodes \subseteq DOMAIN episodes'

\* Only w moves.
Moves(w) ==
  /\ Grows
  /\ \A v \in Workers \ {w} :
       pc'[v] = pc[v] /\ answer'[v] = answer[v] /\ factsLeft'[v] = factsLeft[v]

LEMMA CoveredStays ==
  ASSUME Grows, UNCHANGED consolidated, NEW v, Covered(v)
  PROVE  Covered(v)'
  BY DEF Grows, Covered

\* A step of w keeps what is known of the others.
LEMMA OthersWritten ==
  ASSUME MemInv, NEW w \in Workers, Moves(w), WrittenBy(w)'
  PROVE  NodesWritten'
<1>1. ASSUME NEW v \in Workers \ {w} PROVE WrittenBy(v)'
  <2>1. WrittenBy(v)
    BY DEF MemInv, NodesWritten
  <2> QED
    BY <2>1 DEF WrittenBy, Moves, Grows, Has
<1> QED
  BY <1>1 DEF NodesWritten

\* ... and of what checkpoints point at, if the step leaves those alone.
LEMMA PointersStay ==
  ASSUME MemInv, Grows, UNCHANGED <<consolidated, checkpoint>>,
         \A v \in Workers : sawLast'[v] \in {sawLast[v], Nobody},
         \A c \in Conversations : progress'[c].last = progress[c].last
  PROVE  Pointers'
<1>1. \A v \in Workers : Covered(v) => Covered(v)'
  BY CoveredStays
<1>2. \A c \in Conversations : progress[c].last # Nobody => progress[c].last \in Workers
  BY DEF MemInv, MemTyped
<1>3. \A v \in Workers : sawLast[v] # Nobody => sawLast[v] \in Workers
  BY DEF MemInv, MemTyped
<1> QED
  BY <1>1, <1>2, <1>3 DEF MemInv, Pointers, Grows

LEMMA RelatedStay ==
  ASSUME MemInv, Grows, UNCHANGED episodes
  PROVE  RelatedExist'
  BY DEF MemInv, RelatedExist, Grows

\* A step that writes nothing and leaves w where it has nothing to answer for.
LEMMA PlainStep ==
  ASSUME MemInv, MemTyped', NEW w \in Workers, Moves(w),
         UNCHANGED <<nodes, episodes, checkpoint, consolidated>>,
         \A v \in Workers : sawLast'[v] \in {sawLast[v], Nobody},
         \A c \in Conversations : progress'[c].last = progress[c].last,
         pc'[w] \notin {"recordCheckpoint", "edges", "writeNode", "checkpoint", "finish"}
  PROVE  MemInv'
<1>1. NodesWritten'
  BY OthersWritten DEF WrittenBy
<1> QED
  BY <1>1, PointersStay, RelatedStay DEF MemInv, Moves

-----------------------------------------------------------------------------
(* RecordTurn.                                                              *)

LEMMA RecordStep ==
  ASSUME MemInv, NEW w \in Workers,
         BeginRecord(w) \/ LockConversation(w) \/ RecordEpisode(w) \/ RecordCheckpoint(w)
  PROVE  MemInv'
<1> USE DEF MemInv
<1>1. CASE BeginRecord(w) \/ LockConversation(w)
  <2>1. UNCHANGED <<stores, reading, consolidated>>
    BY <1>1 DEF BeginRecord, LockConversation, history
  <2>2. /\ pc' \in [Workers -> Places] /\ pc'[w] \in {"settle", "lock", "recordEpisode"}
        /\ \A v \in Workers \ {w} : pc'[v] = pc[v]
    BY <1>1, GotoMoves DEF BeginRecord, LockConversation, Places
  <2> QED
    BY <2>1, <2>2, PlainStep DEF stores, reading, MemTyped, Moves, Grows
<1>2. CASE RecordEpisode(w)
  <2>1. UNCHANGED <<nodes, checkpoint, progress, reading, consolidated>> /\ episodes' = Put(episodes, w, {})
    BY <1>2 DEF RecordEpisode, history
  <2>2. /\ pc' \in [Workers -> Places] /\ pc'[w] = "recordCheckpoint"
        /\ \A v \in Workers \ {w} : pc'[v] = pc[v]
    BY <1>2, GotoMoves DEF RecordEpisode, Places
  <2>0. /\ DOMAIN episodes' = DOMAIN episodes \cup {w}
        /\ \A v \in DOMAIN episodes' : episodes'[v] = IF v = w THEN {} ELSE episodes[v]
    BY <2>1 DEF Put
  <2>3. Moves(w) /\ w \in DOMAIN episodes'
    BY <2>0, <2>1, <2>2 DEF reading, Moves, Grows
  <2>4. NodesWritten'
    BY <2>2, <2>3, OthersWritten DEF WrittenBy
  <2>5. RelatedExist'
    BY <2>0, <2>1 DEF RelatedExist
  <2> QED
    BY <2>1, <2>2, <2>3, <2>4, <2>5, PointersStay DEF reading, MemTyped, Moves
<1>3. CASE RecordCheckpoint(w)
  <2>1. /\ pc[w] = "recordCheckpoint" /\ w \in DOMAIN episodes /\ UNCHANGED <<nodes, episodes, progress, reading, consolidated>>
        /\ checkpoint' = [checkpoint EXCEPT ![Conv(w)] = w]
    BY <1>3 DEF RecordCheckpoint, NodesWritten, WrittenBy, history
  <2>2. /\ pc' \in [Workers -> Places] /\ pc'[w] = "recorded"
        /\ \A v \in Workers \ {w} : pc'[v] = pc[v]
    BY <1>3, GotoMoves DEF RecordCheckpoint, Places
  <2>3. Moves(w)
    BY <2>1, <2>2 DEF reading, Moves, Grows
  <2>4. NodesWritten'
    BY <2>2, <2>3, OthersWritten DEF WrittenBy
  <2>5. Pointers'
    <3>1. \A v \in Workers : Covered(v) => Covered(v)'
      BY <2>1, <2>3, CoveredStays DEF Moves
    <3>2. \A c \in Conversations : checkpoint'[c] \in {checkpoint[c], w}
      BY <2>1 DEF MemTyped
    <3> QED
      BY <2>1, <3>1, <3>2 DEF reading, Pointers, MemTyped
  <2>6. MemTyped'
    BY <2>1, <2>2, Assumed DEF reading, MemTyped
  <2> QED
    BY <2>1, <2>3, <2>4, <2>5, <2>6, RelatedStay DEF Moves
<1> QED
  BY <1>1, <1>2, <1>3

-----------------------------------------------------------------------------
(* Consolidation.                                                           *)

LEMMA TriggerStep ==
  ASSUME MemInv, NEW w \in Workers, Trigger(w)
  PROVE  MemInv'
<1> USE DEF MemInv
<1>1. pc[w] = "recorded" /\ UNCHANGED <<stores, answer, factsLeft, consolidated>>
  BY DEF Trigger, history
<1>2. /\ pc' \in [Workers -> Places] /\ pc'[w] \in {"settle", "enter"}
      /\ \A v \in Workers \ {w} : pc'[v] = pc[v]
  BY GotoMoves DEF Trigger, Places
<1>3. Moves(w)
  BY <1>1, <1>2 DEF stores, Moves, Grows
<1>4. NodesWritten'
  BY <1>2, <1>3, OthersWritten DEF WrittenBy
<1>5. progress[Conv(w)].last \in Workers \cup {Nobody}
  BY Assumed DEF MemTyped
<1>6. sawLast' \in {sawLast, [sawLast EXCEPT ![w] = progress[Conv(w)].last]}
  BY DEF Trigger
<1>7. Pointers'
  <2>1. \A v \in Workers : Covered(v) => Covered(v)'
    BY <1>1, <1>3, CoveredStays DEF Moves
  <2>2. \A v \in Workers : sawLast'[v] \in {sawLast[v], progress[Conv(w)].last}
    BY <1>6 DEF MemTyped
  <2>3. \A v \in Workers : sawLast'[v] # Nobody => sawLast'[v] \in Workers /\ Covered(sawLast'[v])
    BY <1>5, <2>2, Assumed DEF Pointers, MemTyped
  <2>4. \A c \in Conversations : progress[c].last # Nobody => progress[c].last \in Workers
    BY DEF MemTyped
  <2>5. \A v \in Workers : (sawLast[v] # Nobody => Covered(sawLast[v]))'
    BY <2>1, <2>3
  <2>6. \A c \in Conversations : (progress[c].last # Nobody => Covered(progress[c].last))'
    BY <1>1, <2>1, <2>4 DEF stores, Pointers
  <2> QED
    BY <1>1, <2>5, <2>6 DEF stores, Pointers
<1>8. MemTyped'
  BY <1>1, <1>2, <1>5, <1>6 DEF stores, MemTyped
<1>9. RelatedExist'
  BY <1>1, <1>3, RelatedStay DEF stores, Moves
<1> QED
  BY <1>4, <1>7, <1>8, <1>9

LEMMA AskStep ==
  ASSUME MemInv, NEW w \in Workers, BeginConsolidation(w) \/ Ask(w) \/ ReadNode(w)
  PROVE  MemInv'
<1> USE DEF MemInv
<1>1. CASE BeginConsolidation(w)
  <2>1. UNCHANGED <<stores, reading, consolidated>>
    BY <1>1 DEF BeginConsolidation, history
  <2>2. /\ pc' \in [Workers -> Places] /\ pc'[w] \in {"settle", "done", "ask"}
        /\ \A v \in Workers \ {w} : pc'[v] = pc[v]
    BY <1>1, GotoMoves DEF BeginConsolidation, Over, Places
  <2> QED
    BY <2>1, <2>2, PlainStep DEF stores, reading, MemTyped, Moves, Grows
<1>2. ASSUME Ask(w), NEW a \in Answers(w),
             answer' = [answer EXCEPT ![w] = a],
             factsLeft' = [factsLeft EXCEPT ![w] = a.facts],
             Goto(w, "edges")
      PROVE  MemInv'
  <2>1. UNCHANGED <<stores, sawLast, consolidated>>
    BY <1>2 DEF Ask, history
  <2>2. /\ pc' \in [Workers -> Places] /\ pc'[w] = "edges"
        /\ \A v \in Workers \ {w} : pc'[v] = pc[v]
    BY <1>2, GotoMoves DEF Places
  <2> DEFINE Mapped(fs) == {Id(w, fs, i) : i \in Local}
  <2>3. PICK fs \in SUBSET Local :
          a \in [facts : {fs}, related : SUBSET Mapped(fs), edges : SUBSET ({OldNode} \X Mapped(fs))]
    BY <1>2 DEF Answers
  <2>4. /\ Mapped(fs) \subseteq Node \cup Local
        /\ \A n \in Mapped(fs) \cap Node : \E f \in fs : n = NodeOf(w, f)
    BY MemoryAssumption DEF Id, NodeOf, Node
  <2> HIDE DEF Mapped
  <2>5. a \in AnswerShape /\ a.facts = fs /\ \A n \in a.related \cap Node : \E f \in fs : n = NodeOf(w, f)
    BY <2>3, <2>4 DEF AnswerShape
  <2>6. answer'[w] = a /\ factsLeft'[w] = fs /\ answer' \in [Workers -> AnswerShape]
          /\ factsLeft' \in [Workers -> SUBSET Local]
          /\ \A v \in Workers \ {w} : answer'[v] = answer[v] /\ factsLeft'[v] = factsLeft[v]
    BY <1>2, <2>5 DEF MemTyped
  <2>7. Moves(w)
    BY <2>1, <2>2, <2>6 DEF stores, Moves, Grows
  <2>8. NodesWritten'
    BY <2>2, <2>5, <2>6, <2>7, OthersWritten DEF WrittenBy, Has
  <2>9. MemTyped'
    BY <2>1, <2>2, <2>6 DEF stores, MemTyped
  <2> QED
    BY <2>1, <2>7, <2>8, <2>9, PointersStay, RelatedStay DEF stores, Moves
<1>3. CASE Ask(w) /\ Goto(w, "fail") /\ UNCHANGED <<answer, edgesLeft, factsLeft>>
  <2>1. UNCHANGED <<stores, sawLast, consolidated>>
    BY <1>3 DEF Ask, history
  <2>2. /\ pc' \in [Workers -> Places] /\ pc'[w] = "fail"
        /\ \A v \in Workers \ {w} : pc'[v] = pc[v]
    BY <1>3, GotoMoves DEF Places
  <2> QED
    BY <1>3, <2>1, <2>2, PlainStep DEF stores, MemTyped, Moves, Grows
<1>4. CASE ReadNode(w)
  <2>1. pc[w] = "edges" /\ UNCHANGED <<stores, sawLast, answer, factsLeft, consolidated>>
    BY <1>4 DEF ReadNode, history
  <2>2. /\ pc' \in [Workers -> Places] /\ pc'[w] = "writeNode"
        /\ \A v \in Workers \ {w} : pc'[v] = pc[v]
    BY <1>4, GotoMoves DEF ReadNode, Places
  <2>3. Moves(w)
    BY <2>1, <2>2 DEF stores, Moves, Grows
  <2>4. NodesWritten'
    <3>1. WrittenBy(w)'
      BY <2>1, <2>2 DEF stores, NodesWritten, WrittenBy, Has
    <3> QED
      BY <2>3, <3>1, OthersWritten
  <2> QED
    BY <2>1, <2>2, <2>3, <2>4, PointersStay, RelatedStay DEF stores, Moves, MemTyped
<1> QED
  BY <1>1, <1>2, <1>3, <1>4 DEF Ask

LEMMA WriteStep ==
  ASSUME MemInv, NEW w \in Workers, WriteNode(w) \/ WriteFact(w)
  PROVE  MemInv'
<1> USE DEF MemInv
<1>1. CASE WriteNode(w)
  <2>1. pc[w] = "writeNode" /\ UNCHANGED <<episodes, checkpoint, progress, sawLast, answer, factsLeft, consolidated>>
    BY <1>1 DEF WriteNode, history
  <2>2. /\ pc' \in [Workers -> Places] /\ pc'[w] = "edges"
        /\ \A v \in Workers \ {w} : pc'[v] = pc[v]
    BY <1>1, GotoMoves DEF WriteNode, Places
  <2>3. DOMAIN nodes \subseteq DOMAIN nodes'
    <3>1. PICK e \in edgesLeft[w] : nodes' = Put(nodes, e[1], got[w])
      BY <1>1 DEF WriteNode
    <3>2. DOMAIN nodes' = DOMAIN nodes \cup {e[1]}
      BY <3>1 DEF Put
    <3> QED
      BY <3>2
  <2>4. Moves(w)
    BY <2>1, <2>2, <2>3 DEF Moves, Grows
  <2>5. NodesWritten'
    <3>1. WrittenBy(w)'
      BY <2>1, <2>2, <2>3 DEF NodesWritten, WrittenBy, Has
    <3> QED
      BY <2>4, <3>1, OthersWritten
  <2> QED
    BY <2>1, <2>2, <2>4, <2>5, PointersStay, RelatedStay DEF Moves, MemTyped
<1>2. CASE WriteFact(w)
  <2>1. pc[w] = "edges" /\ UNCHANGED <<episodes, checkpoint, progress, pc, sawLast, answer, consolidated>>
    BY <1>2 DEF WriteFact, history
  <2>2. PICK f \in factsLeft[w] : /\ nodes' = Put(nodes, NodeOf(w, f), {})
                                  /\ factsLeft' = [factsLeft EXCEPT ![w] = @ \ {f}]
    BY <1>2 DEF WriteFact
  <2>3. DOMAIN nodes' = DOMAIN nodes \cup {NodeOf(w, f)}
    BY <2>2 DEF Put
  <2>4. /\ factsLeft' \in [Workers -> SUBSET Local] /\ factsLeft'[w] = factsLeft[w] \ {f}
        /\ \A v \in Workers \ {w} : factsLeft'[v] = factsLeft[v]
    BY <2>2 DEF MemTyped
  <2>5. Moves(w)
    BY <2>1, <2>3, <2>4 DEF Moves, Grows
  <2>6. Has(w, answer[w].facts \ factsLeft[w])'
    BY <2>1, <2>3, <2>4 DEF NodesWritten, WrittenBy, Has
  <2>7. NodesWritten'
    <3>1. WrittenBy(w)'
      BY <2>1, <2>6 DEF NodesWritten, WrittenBy
    <3> QED
      BY <2>5, <3>1, OthersWritten
  <2> QED
    BY <2>1, <2>4, <2>5, <2>7, PointersStay, RelatedStay DEF Moves, MemTyped
<1> QED
  BY <1>1, <1>2

LEMMA EpisodeStep ==
  ASSUME MemInv, NEW w \in Workers, WriteEpisode(w) \/ WriteCheckpoint(w)
  PROVE  MemInv'
<1> USE DEF MemInv
<1>1. CASE WriteEpisode(w)
  <2>1. /\ pc[w] = "edges" /\ factsLeft[w] = {} /\ UNCHANGED <<nodes, checkpoint, progress, reading, consolidated>>
        /\ episodes' = Put(episodes, w, answer[w].related)
    BY <1>1 DEF WriteEpisode, history
  <2>2. /\ pc' \in [Workers -> Places] /\ pc'[w] \in {"checkpoint", "finish"}
        /\ \A v \in Workers \ {w} : pc'[v] = pc[v]
    BY <1>1, GotoMoves DEF WriteEpisode, Places
  <2>0. /\ DOMAIN episodes' = DOMAIN episodes \cup {w}
        /\ \A v \in DOMAIN episodes' : episodes'[v] = IF v = w THEN answer[w].related ELSE episodes[v]
    BY <2>1 DEF Put
  <2>3. Moves(w) /\ w \in DOMAIN episodes'
    BY <2>0, <2>1, <2>2 DEF reading, Moves, Grows
  <2>4. Has(w, answer[w].facts) /\ \A n \in answer[w].related \cap Node : \E f \in answer[w].facts : n = NodeOf(w, f)
    BY <2>1 DEF NodesWritten, WrittenBy, Has
  <2>5. NodesWritten'
    BY <2>1, <2>2, <2>3, <2>4, OthersWritten DEF reading, WrittenBy, Has
  <2>6. RelatedExist'
    <3>1. answer[w].related \cap Node \subseteq DOMAIN nodes
      BY <2>4 DEF Has
    <3> QED
      BY <2>0, <2>1, <3>1 DEF RelatedExist, Node
  <2> QED
    BY <2>1, <2>2, <2>3, <2>5, <2>6, PointersStay DEF reading, MemTyped, Moves
<1>2. CASE WriteCheckpoint(w)
  <2>1. /\ pc[w] = "checkpoint" /\ UNCHANGED <<nodes, episodes, progress, reading, consolidated>>
        /\ checkpoint' = [checkpoint EXCEPT ![Conv(w)] = w]
    BY <1>2 DEF WriteCheckpoint, history
  <2>2. /\ pc' \in [Workers -> Places] /\ pc'[w] = "finish"
        /\ \A v \in Workers \ {w} : pc'[v] = pc[v]
    BY <1>2, GotoMoves DEF WriteCheckpoint, Places
  <2>3. Moves(w)
    BY <2>1, <2>2 DEF reading, Moves, Grows
  <2>4. w \in DOMAIN episodes /\ Has(w, answer[w].facts)
    BY <2>1 DEF NodesWritten, WrittenBy
  <2>5. NodesWritten'
    BY <2>1, <2>2, <2>3, <2>4, OthersWritten DEF reading, WrittenBy, Has
  <2>6. Pointers'
    <3>1. \A v \in Workers : Covered(v) => Covered(v)'
      BY <2>1, <2>3, CoveredStays DEF Moves
    <3>2. \A c \in Conversations : checkpoint'[c] \in {checkpoint[c], w}
      BY <2>1 DEF MemTyped
    <3> QED
      BY <2>1, <2>4, <3>1, <3>2 DEF reading, Pointers, MemTyped
  <2>7. MemTyped'
    BY <2>1, <2>2, Assumed DEF reading, MemTyped
  <2> QED
    BY <2>1, <2>3, <2>5, <2>6, <2>7, RelatedStay DEF Moves
<1> QED
  BY <1>1, <1>2

\* What an ended consolidation leaves to its worker.
LEMMA Forgotten ==
  ASSUME MemInv, NEW w \in Workers, Forget(w)
  PROVE  /\ answer' \in [Workers -> AnswerShape] /\ factsLeft' \in [Workers -> SUBSET Local]
         /\ sawLast' \in [Workers -> Workers \cup {Nobody}]
         /\ \A v \in Workers : sawLast'[v] \in {sawLast[v], Nobody}
         /\ \A v \in Workers \ {w} : answer'[v] = answer[v] /\ factsLeft'[v] = factsLeft[v]
<1>1. NoAnswer \in AnswerShape
  BY DEF NoAnswer, AnswerShape
<1> QED
  BY <1>1 DEF Forget, MemInv, MemTyped

LEMMA FinishStep ==
  ASSUME MemInv, NEW w \in Workers, Finish(w) \/ NoteFailure(w)
  PROVE  MemInv'
<1> USE DEF MemInv
<1>1. UNCHANGED <<nodes, episodes, checkpoint>> /\ Forget(w)
  BY DEF Finish, NoteFailure, EndConsolidation
<1>2. /\ pc[w] \in {"finish", "fail"} /\ pc' \in [Workers -> Places] /\ pc'[w] \in {"settle", "done"}
      /\ \A v \in Workers \ {w} : pc'[v] = pc[v]
  BY GotoMoves DEF Finish, NoteFailure, EndConsolidation, Over, Places
<1>3. Moves(w)
  BY <1>1, <1>2, Forgotten DEF Moves, Grows
<1>4. NodesWritten'
  BY <1>2, <1>3, OthersWritten DEF WrittenBy
<1>5. \E last \in {w, sawLast[w]}, cooling \in BOOLEAN :
        /\ progress' \in {progress, [progress EXCEPT ![Conv(w)] = [last |-> last, cooling |-> cooling]]}
        /\ pc[w] = "fail" => last = sawLast[w]
  <2>1. CASE Finish(w)
    BY <2>1 DEF Finish
  <2>2. CASE NoteFailure(w)
    BY <2>2 DEF NoteFailure
  <2> QED
    BY <2>1, <2>2
<1>6. PICK last \in {w, sawLast[w]}, cooling \in BOOLEAN :
        /\ progress' \in {progress, [progress EXCEPT ![Conv(w)] = [last |-> last, cooling |-> cooling]]}
        /\ pc[w] = "fail" => last = sawLast[w]
  BY <1>5
<1>7. last \in Workers \cup {Nobody} /\ progress' \in [Conversations -> [last : Workers \cup {Nobody}, cooling : BOOLEAN]]
        /\ \A c \in Conversations : progress'[c].last \in {progress[c].last, last}
  <2>1. last \in Workers \cup {Nobody} /\ Conv(w) \in Conversations
    BY Assumed DEF MemTyped
  <2>2. [last |-> last, cooling |-> cooling] \in [last : Workers \cup {Nobody}, cooling : BOOLEAN]
    BY <2>1
  <2>3. CASE progress' = progress
    BY <2>1, <2>3 DEF MemTyped
  <2>4. CASE progress' = [progress EXCEPT ![Conv(w)] = [last |-> last, cooling |-> cooling]]
    <3>1. progress' \in [Conversations -> [last : Workers \cup {Nobody}, cooling : BOOLEAN]]
      BY <2>1, <2>2, <2>4 DEF MemTyped
    <3>2. \A c \in Conversations : progress'[c] = IF c = Conv(w) THEN [last |-> last, cooling |-> cooling]
                                                ELSE progress[c]
      BY <2>4 DEF MemTyped
    <3> QED
      BY <2>1, <3>1, <3>2
  <2> QED
    BY <1>6, <2>3, <2>4
<1>c. /\ \A v \in Workers : Covered(v) => Covered(v)'
      /\ pc[w] = "finish" => Covered(w)'
  <2>1. CASE NoteFailure(w)
    <3>1. UNCHANGED consolidated /\ pc[w] = "fail"
      BY <2>1 DEF NoteFailure, history
    <3> QED
      BY <1>3, <3>1, CoveredStays DEF Moves
  <2>2. CASE Finish(w)
    <3>1. pc[w] = "finish" /\ consolidated' = Put(consolidated, w, {NodeOf(w, f) : f \in answer[w].facts})
      BY <2>2 DEF Finish
    <3>2. /\ DOMAIN consolidated' = DOMAIN consolidated \cup {w}
          /\ consolidated'[w] = {NodeOf(w, f) : f \in answer[w].facts}
          /\ \A v \in DOMAIN consolidated \ {w} : consolidated'[v] = consolidated[v]
      BY <3>1 DEF Put
    <3>3. w \in DOMAIN episodes /\ Has(w, answer[w].facts)
      BY <3>1 DEF NodesWritten, WrittenBy
    <3>4. Covered(w)'
      BY <1>1, <3>2, <3>3 DEF Covered, Has
    <3> QED
      BY <1>1, <3>2, <3>4 DEF Covered
  <2> QED
    BY <2>1, <2>2
<1>8. last # Nobody => Covered(last)'
  <2>1. CASE last = sawLast[w]
    BY <1>7, <1>c, <2>1 DEF Pointers
  <2>2. CASE last = w /\ pc[w] = "finish"
    BY <1>c, <2>2
  <2> QED
    BY <1>2, <1>6, <2>1, <2>2
<1>9. Pointers'
  <2>1. \A v \in Workers : Covered(v) => Covered(v)'
    BY <1>c
  <2>2. \A c \in Conversations : progress[c].last # Nobody => progress[c].last \in Workers
    BY DEF MemTyped
  <2>3. \A c \in Conversations : (progress[c].last # Nobody => Covered(progress[c].last))'
    BY <1>7, <1>8, <2>1, <2>2 DEF Pointers
  <2>4. \A v \in Workers : (sawLast[v] # Nobody => Covered(sawLast[v]))'
    BY <1>1, <2>1, Forgotten DEF Pointers, MemTyped
  <2> QED
    BY <1>1, <2>3, <2>4 DEF Pointers
<1>10. MemTyped'
  BY <1>1, <1>2, <1>7, Forgotten DEF MemTyped
<1> QED
  BY <1>1, <1>3, <1>4, <1>9, <1>10, RelatedStay DEF Moves

-----------------------------------------------------------------------------
(* Failures.                                                                *)

LEMMA FailureStep ==
  ASSUME MemInv, NEW w \in Workers, Settle(w) \/ WriteError(w) \/ TakeOver(w)
  PROVE  MemInv'
<1> USE DEF MemInv
<1>1. UNCHANGED <<stores, consolidated>> /\ (UNCHANGED reading \/ Forget(w))
  BY DEF Settle, WriteError, TakeOver, EndConsolidation, history
<1>2. \E place \in {"settle", "done", "fail", "start"} : Goto(w, place)
  BY DEF Settle, WriteError, TakeOver, EndConsolidation, Over
<1>3. /\ pc' \in [Workers -> Places] /\ pc'[w] \in {"settle", "done", "fail", "start"}
      /\ \A v \in Workers \ {w} : pc'[v] = pc[v]
  BY <1>2, GotoMoves DEF Places
<1>4. /\ answer' \in [Workers -> AnswerShape] /\ factsLeft' \in [Workers -> SUBSET Local]
      /\ sawLast' \in [Workers -> Workers \cup {Nobody}]
      /\ \A v \in Workers : sawLast'[v] \in {sawLast[v], Nobody}
      /\ \A v \in Workers \ {w} : answer'[v] = answer[v] /\ factsLeft'[v] = factsLeft[v]
  <2>1. CASE UNCHANGED reading
    BY <2>1 DEF reading, MemTyped
  <2> QED
    BY <1>1, <2>1, Forgotten
<1> QED
  BY <1>1, <1>3, <1>4, PlainStep DEF stores, MemTyped, Moves, Grows

LEMMA CrashStep ==
  ASSUME MemInv, NEW p \in Processes, Crash(p)
  PROVE  MemInv'
<1> USE DEF MemInv
<1>1. UNCHANGED <<stores, reading, consolidated>>
        /\ pc' = [w \in Workers |-> IF proc[w] = p /\ Busy(w) THEN "dead" ELSE pc[w]]
  BY DEF Crash
<1>2. \A w \in Workers : pc'[w] \in {"dead", pc[w]}
  BY <1>1
<1>3. MemTyped'
  <2>1. pc' \in [Workers -> Places]
    BY <1>1 DEF MemTyped, Places
  <2> QED
    BY <1>1, <2>1 DEF stores, reading, MemTyped
<1>4. NodesWritten'
  BY <1>1, <1>2 DEF stores, reading, NodesWritten, WrittenBy, Has
<1>5. Pointers'
  <2>1. \A v \in Workers : Covered(v) => Covered(v)'
    BY <1>1 DEF stores, Covered
  <2> QED
    BY <1>1, <2>1 DEF stores, reading, Pointers, MemTyped
<1>6. RelatedExist'
  BY <1>1 DEF stores, RelatedExist
<1> QED
  BY <1>3, <1>4, <1>5, <1>6

LEMMA CoolDownStep ==
  ASSUME MemInv, NEW c \in Conversations, CoolDown(c)
  PROVE  MemInv'
<1> USE DEF MemInv
<1>1. UNCHANGED <<nodes, episodes, checkpoint, pc, reading, consolidated>>
        /\ progress' = [progress EXCEPT ![c].cooling = FALSE]
  BY DEF CoolDown, history
<1>2. progress' \in [Conversations -> [last : Workers \cup {Nobody}, cooling : BOOLEAN]]
        /\ \A d \in Conversations : progress'[d].last = progress[d].last
  BY <1>1 DEF MemTyped
<1> QED
  BY <1>1, <1>2 DEF reading, MemTyped, NodesWritten, WrittenBy, Has, Pointers, Covered, RelatedExist

-----------------------------------------------------------------------------
LEMMA MemInit == MemoryInit => MemInv
<1> SUFFICES ASSUME MemoryInit PROVE MemInv
  OBVIOUS
<1>1. MemTyped
  BY DEF MemoryInit, MemTyped, Places, NoAnswer, AnswerShape
<1>2. NodesWritten /\ Pointers /\ RelatedExist
  BY DEF MemoryInit, NodesWritten, WrittenBy, Pointers, RelatedExist
<1> QED
  BY <1>1, <1>2 DEF MemInv

LEMMA MemNext == MemInv /\ [MemoryNext]_memoryVars => MemInv'
<1> SUFFICES ASSUME MemInv, [MemoryNext]_memoryVars PROVE MemInv'
  OBVIOUS
<1>1. CASE UNCHANGED memoryVars
  BY <1>1 DEF memoryVars, MemInv, MemTyped, NodesWritten, WrittenBy, Has, Pointers, Covered, RelatedExist
<1>2. CASE MemoryNext
  BY <1>2, MemoryAssumption, RecordStep, TriggerStep, AskStep, WriteStep, EpisodeStep, FinishStep, FailureStep,
     CrashStep, CoolDownStep DEF MemoryNext
<1> QED
  BY <1>1, <1>2

(***************************************************************************)
(* What each worker has written and what every checkpoint names, in every  *)
(* reachable state of the memory store, whatever dies or fails.            *)
(***************************************************************************)
THEOREM MemoryInvariant == MemorySpec => []MemInv
  BY MemInit, MemNext, PTL DEF MemorySpec

(***************************************************************************)
(* The checkpoints are written last, and a failed consolidation writes     *)
(* back only what was so: a turn that a checkpoint names has its episode,  *)
(* and the facts found when it was last consolidated to the end, also when *)
(* its process dies before it is off the queue (consolidation.go:151,      *)
(* runtime.go:334).                                                        *)
(***************************************************************************)
THEOREM CheckpointAlwaysCovers == MemorySpec => []CheckpointCovers
<1>1. MemInv => CheckpointCovers
  BY DEF MemInv, Pointers, Covered, CheckpointCovers
<1> QED
  BY <1>1, MemoryInvariant, PTL

(***************************************************************************)
(* No episode points at a fact that was not written, although nodes and    *)
(* episode are separate writes, any of which may fail, and a turn may be   *)
(* run twice (applyConsolidation).                                         *)
(***************************************************************************)
THEOREM RelatedAlwaysExist == MemorySpec => []RelatedExist
<1>1. MemInv => RelatedExist
  BY DEF MemInv
<1> QED
  BY <1>1, MemoryInvariant, PTL

-----------------------------------------------------------------------------
(* The locks and marks of the memory: each has a worker that needs it.      *)

Recording == {"recordEpisode", "recordCheckpoint"}
Locking == {"lock", "recordEpisode", "recordCheckpoint"}
Consolidating == {"ask", "edges", "writeNode", "checkpoint", "finish", "fail"}

\* Only turns record and name checkpoints.
WorkInv ==
  /\ proc \in [Workers -> Processes]
  /\ DOMAIN episodes \subseteq Workers
  /\ checkpoint \in [Conversations -> Turns \cup {Nobody}]
  /\ \A c \in Conversations : progress[c].last \in Turns \cup {Nobody}
  /\ \A w \in Workers : sawLast[w] \in Turns \cup {Nobody}
  /\ \A w \in Workers : pc[w] \in Locking \cup {"recorded", "enter", "checkpoint"} => w \in Turns

\* A file lock is held by a worker that records in this conversation.
FilesLocked ==
  /\ DOMAIN fileLock = Conversations
  /\ \A c \in Conversations : fileLock[c] # Nobody =>
       /\ fileLock[c] \in Workers /\ Conv(fileLock[c]) = c
       /\ pc[fileLock[c]] \in Recording

\* What is marked as active or in flight has a worker there.
MarksHeld ==
  /\ active \cup inFlight \subseteq Processes \X Conversations
  /\ \A k \in active : Held(k, Locking)
  /\ \A k \in inFlight : Held(k, Consolidating)

WorkersInv == MemTyped /\ WorkInv /\ FilesLocked /\ MarksHeld

LEMMA WorkersStart == MemoryInit => WorkInv /\ FilesLocked /\ MarksHeld
<1> SUFFICES ASSUME MemoryInit PROVE WorkInv /\ FilesLocked /\ MarksHeld
  OBVIOUS
<1>1. WorkInv
  BY MemoryAssumption DEF MemoryInit, WorkInv, Locking
<1>2. FilesLocked /\ MarksHeld
  BY DEF MemoryInit, FilesLocked, MarksHeld
<1> QED
  BY <1>1, <1>2

LEMMA KeyTyped ==
  ASSUME WorkInv, NEW w \in Workers
  PROVE  Key(w) \in Processes \X Conversations
  BY Assumed DEF WorkInv, Key

\* A worker that moves on and keeps its mark, or gives it up.
LEMMA MoveKeepsHeld ==
  ASSUME MemTyped, NEW w \in Workers, NEW place, Goto(w, place), UNCHANGED proc,
         NEW places, NEW k, Held(k, places),
         pc[w] \in places /\ Key(w) = k => place \in places
  PROVE  Held(k, places)'
<1>1. DOMAIN pc = Workers
  BY DEF MemTyped
<1>2. PICK v \in Workers : Key(v) = k /\ pc[v] \in places
  BY DEF Held
<1>3. Key(v)' = k
  BY <1>2 DEF Key, Conv
<1>4. pc'[v] \in places
  BY <1>1, <1>2 DEF Goto
<1> QED
  BY <1>3, <1>4 DEF Held

LEMMA MoveKeepsLocks ==
  ASSUME MemTyped, FilesLocked, NEW w \in Workers, NEW place, Goto(w, place), UNCHANGED fileLock,
         pc[w] \in Recording => place \in Recording
  PROVE  FilesLocked'
<1>1. DOMAIN pc = Workers
  BY DEF MemTyped
<1>2. \A v \in Workers : pc[v] \in Recording => pc'[v] \in Recording
  BY <1>1 DEF Goto
<1> QED
  BY <1>2 DEF FilesLocked, Conv

LEMMA MoveKeepsMarks ==
  ASSUME MemTyped, MarksHeld, NEW w \in Workers, NEW place, Goto(w, place), UNCHANGED <<proc, active, inFlight>>,
         pc[w] \in Locking => place \in Locking,
         pc[w] \in Consolidating => place \in Consolidating
  PROVE  MarksHeld'
<1>1. \A k \in active : Held(k, Locking)'
  BY MoveKeepsHeld DEF MarksHeld
<1>2. \A k \in inFlight : Held(k, Consolidating)'
  BY MoveKeepsHeld DEF MarksHeld
<1> QED
  BY <1>1, <1>2 DEF MarksHeld

\* A worker moves on between places with the same locks and marks.
LEMMA MovesOn ==
  ASSUME WorkersInv, NEW w \in Workers,
         \/ RecordEpisode(w) \/ Trigger(w) \/ Ask(w) \/ ReadNode(w) \/ WriteNode(w)
         \/ WriteEpisode(w) \/ WriteCheckpoint(w) \/ Settle(w)
  PROVE  FilesLocked' /\ MarksHeld'
<1>1. PICK place :
        /\ Goto(w, place) /\ UNCHANGED <<proc, active, inFlight, fileLock>>
        /\ pc[w] \in Recording => place \in Recording
        /\ pc[w] \in Locking => place \in Locking
        /\ pc[w] \in Consolidating => place \in Consolidating
  <2> USE DEF locks, Recording, Locking, Consolidating
  <2>1. CASE RecordEpisode(w)
    BY <2>1 DEF RecordEpisode
  <2>2. CASE Trigger(w)
    BY <2>2 DEF Trigger
  <2>3. CASE Ask(w)
    BY <2>3 DEF Ask
  <2>4. CASE ReadNode(w)
    BY <2>4 DEF ReadNode
  <2>5. CASE WriteNode(w)
    BY <2>5 DEF WriteNode
  <2>6. CASE WriteEpisode(w)
    BY <2>6 DEF WriteEpisode
  <2>7. CASE WriteCheckpoint(w)
    BY <2>7 DEF WriteCheckpoint
  <2>8. CASE Settle(w)
    BY <2>8 DEF Settle
  <2> QED
    BY <2>1, <2>2, <2>3, <2>4, <2>5, <2>6, <2>7, <2>8
<1> QED
  BY <1>1, MoveKeepsLocks, MoveKeepsMarks DEF WorkersInv

\* A turn that stops recording gives up its lock and its mark.
LEMMA Unlocks ==
  ASSUME WorkersInv, NEW w \in Workers, pc[w] \in Recording, Unlock(w), UNCHANGED proc,
         NEW place, Goto(w, place)
  PROVE  FilesLocked' /\ MarksHeld'
<1>1. /\ fileLock' = [fileLock EXCEPT ![Conv(w)] = Nobody]
      /\ active' = active \ {Key(w)} /\ inFlight' = inFlight
  BY DEF Unlock
<1>2. DOMAIN pc = Workers
  BY DEF WorkersInv, MemTyped
<1>3. FilesLocked'
  <2>1. ASSUME NEW c \in Conversations, fileLock'[c] # Nobody
        PROVE  fileLock'[c] \in Workers /\ Conv(fileLock'[c]) = c /\ pc'[fileLock'[c]] \in Recording
    <3>1. c # Conv(w) /\ fileLock'[c] = fileLock[c]
      BY <1>1, <2>1 DEF WorkersInv, FilesLocked
    <3>2. fileLock[c] \in Workers /\ Conv(fileLock[c]) = c /\ pc[fileLock[c]] \in Recording
      BY <2>1, <3>1 DEF WorkersInv, FilesLocked
    <3>3. pc'[fileLock[c]] = pc[fileLock[c]]
      BY <1>2, <3>1, <3>2 DEF Goto
    <3> QED
      BY <3>1, <3>2, <3>3
  <2>2. DOMAIN fileLock' = Conversations
    BY <1>1 DEF WorkersInv, FilesLocked
  <2> QED
    BY <2>1, <2>2 DEF FilesLocked, Conv
<1>4. \A k \in active' : Held(k, Locking)'
  BY <1>1, MoveKeepsHeld DEF WorkersInv, MarksHeld
<1>5. pc[w] \notin Consolidating
  BY DEF Recording, Consolidating
<1>6. \A k \in inFlight : Held(k, Consolidating)'
  BY <1>5, MoveKeepsHeld DEF WorkersInv, MarksHeld
<1> QED
  BY <1>1, <1>3, <1>4, <1>6 DEF WorkersInv, MarksHeld

\* A consolidation that ends gives up its mark.
LEMMA Ends ==
  ASSUME WorkersInv, NEW w \in Workers, pc[w] \in Consolidating, EndConsolidation(w)
  PROVE  FilesLocked' /\ MarksHeld'
<1>0. /\ UNCHANGED <<proc, active, fileLock>> /\ inFlight' = inFlight \ {Key(w)}
      /\ Goto(w, Over(w))
  BY DEF EndConsolidation
<1>1. pc[w] \notin Locking /\ pc[w] \notin Recording
  BY DEF Recording, Locking, Consolidating
<1>2. FilesLocked'
  BY <1>0, <1>1, MoveKeepsLocks DEF WorkersInv
<1>3. \A k \in active : Held(k, Locking)'
  BY <1>0, <1>1, MoveKeepsHeld DEF WorkersInv, MarksHeld
<1>4. \A k \in inFlight' : Held(k, Consolidating)'
  BY <1>0, MoveKeepsHeld DEF WorkersInv, MarksHeld
<1> QED
  BY <1>0, <1>2, <1>3, <1>4 DEF WorkersInv, MarksHeld

\* A worker sets its mark, and takes the file lock.
LEMMA BeginsRecord ==
  ASSUME WorkersInv, NEW w \in Workers, BeginRecord(w)
  PROVE  FilesLocked' /\ MarksHeld'
<1>1. /\ pc[w] = "start" /\ UNCHANGED <<proc, inFlight, fileLock>>
      /\ \/ Goto(w, "settle") /\ active' = active
         \/ Goto(w, "lock") /\ active' = active \cup {Key(w)}
  BY DEF BeginRecord
<1>2. pc[w] \notin Locking /\ pc[w] \notin Recording /\ pc[w] \notin Consolidating
  BY <1>1 DEF Locking, Recording, Consolidating
<1>3. FilesLocked'
  BY <1>1, <1>2, MoveKeepsLocks DEF WorkersInv
<1>4. \A k \in active : Held(k, Locking)'
  BY <1>1, <1>2, MoveKeepsHeld DEF WorkersInv, MarksHeld
<1>5. \A k \in inFlight : Held(k, Consolidating)'
  BY <1>1, <1>2, MoveKeepsHeld DEF WorkersInv, MarksHeld
<1>6. CASE active' = active
  BY <1>1, <1>3, <1>4, <1>5, <1>6 DEF WorkersInv, MarksHeld
<1>7. CASE Goto(w, "lock") /\ active' = active \cup {Key(w)}
  <2>1. pc'[w] = "lock" /\ Key(w)' = Key(w)
    BY <1>1, <1>7 DEF WorkersInv, MemTyped, Goto, Key, Conv
  <2>2. ASSUME NEW k, k = Key(w) PROVE Held(k, Locking)'
    BY <2>1, <2>2 DEF Held, Locking
  <2>3. Key(w) \in Processes \X Conversations
    BY KeyTyped DEF WorkersInv
  <2>4. \A k \in active' : Held(k, Locking)'
    BY <1>7, <1>4, <2>2
  <2>5. (active \cup inFlight)' \subseteq Processes \X Conversations
    BY <1>1, <1>7, <2>3 DEF WorkersInv, MarksHeld
  <2> QED
    BY <1>1, <1>3, <1>5, <2>4, <2>5 DEF MarksHeld
<1> QED
  BY <1>1, <1>6, <1>7

LEMMA BeginsConsolidation ==
  ASSUME WorkersInv, NEW w \in Workers, BeginConsolidation(w)
  PROVE  FilesLocked' /\ MarksHeld'
<1>1. /\ pc[w] \in {"start", "enter"} /\ UNCHANGED <<proc, active, fileLock>>
      /\ \/ Goto(w, Over(w)) /\ inFlight' = inFlight
         \/ Goto(w, "ask") /\ inFlight' = inFlight \cup {Key(w)}
  BY DEF BeginConsolidation
<1>2. pc[w] \notin Locking /\ pc[w] \notin Recording /\ pc[w] \notin Consolidating
  BY <1>1 DEF Locking, Recording, Consolidating
<1>3. FilesLocked'
  BY <1>1, <1>2, MoveKeepsLocks DEF WorkersInv
<1>4. \A k \in active : Held(k, Locking)'
  BY <1>1, <1>2, MoveKeepsHeld DEF WorkersInv, MarksHeld
<1>5. \A k \in inFlight : Held(k, Consolidating)'
  BY <1>1, <1>2, MoveKeepsHeld DEF WorkersInv, MarksHeld
<1>6. CASE inFlight' = inFlight
  BY <1>1, <1>3, <1>4, <1>5, <1>6 DEF WorkersInv, MarksHeld
<1>7. CASE Goto(w, "ask") /\ inFlight' = inFlight \cup {Key(w)}
  <2>1. pc'[w] = "ask" /\ Key(w)' = Key(w)
    BY <1>1, <1>7 DEF WorkersInv, MemTyped, Goto, Key, Conv
  <2>2. ASSUME NEW k, k = Key(w) PROVE Held(k, Consolidating)'
    BY <2>1, <2>2 DEF Held, Consolidating
  <2>3. Key(w) \in Processes \X Conversations
    BY KeyTyped DEF WorkersInv
  <2>4. \A k \in inFlight' : Held(k, Consolidating)'
    BY <1>7, <1>5, <2>2
  <2>5. (active \cup inFlight)' \subseteq Processes \X Conversations
    BY <1>1, <1>7, <2>3 DEF WorkersInv, MarksHeld
  <2> QED
    BY <1>1, <1>3, <1>4, <2>4, <2>5 DEF MarksHeld
<1> QED
  BY <1>1, <1>6, <1>7

LEMMA LocksFile ==
  ASSUME WorkersInv, NEW w \in Workers, LockConversation(w)
  PROVE  FilesLocked' /\ MarksHeld'
<1>1. /\ pc[w] = "lock" /\ Goto(w, "recordEpisode") /\ UNCHANGED <<proc, active, inFlight>>
      /\ fileLock' = [fileLock EXCEPT ![Conv(w)] = w]
  BY DEF LockConversation
<1>2. MarksHeld'
  <2>1. "recordEpisode" \in Locking /\ pc[w] \notin Consolidating
    BY <1>1 DEF Locking, Consolidating
  <2> QED
    BY <1>1, <2>1, MoveKeepsMarks DEF WorkersInv
<1>3. DOMAIN pc = Workers /\ DOMAIN fileLock = Conversations
  BY DEF WorkersInv, MemTyped, FilesLocked
<1>4. pc'[w] \in Recording /\ \A v \in Workers : v # w => pc'[v] = pc[v]
  BY <1>1, <1>3 DEF Goto, Recording
<1>5. ASSUME NEW c \in Conversations, fileLock'[c] # Nobody
      PROVE  fileLock'[c] \in Workers /\ Conv(fileLock'[c]) = c /\ pc'[fileLock'[c]] \in Recording
  <2>1. CASE c = Conv(w)
    <3>1. fileLock'[c] = w
      BY <1>1, <1>3, <2>1
    <3> QED
      BY <1>4, <2>1, <3>1
  <2>2. CASE c # Conv(w)
    <3>1. fileLock'[c] = fileLock[c]
      BY <1>1, <2>2, <1>3
    <3> QED
      BY <1>4, <1>5, <3>1 DEF WorkersInv, FilesLocked
  <2> QED
    BY <2>1, <2>2
<1>6. DOMAIN fileLock' = Conversations
  BY <1>1, <1>3
<1> QED
  BY <1>2, <1>5, <1>6 DEF FilesLocked, Conv

\* A turn that did not get the file lock gives up its mark.
LEMMA GivesUp ==
  ASSUME WorkersInv, NEW w \in Workers, pc[w] = "lock", active' = active \ {Key(w)},
         UNCHANGED <<proc, inFlight, fileLock>>, NEW place, Goto(w, place)
  PROVE  FilesLocked' /\ MarksHeld'
<1>1. pc[w] \notin Recording /\ pc[w] \notin Consolidating
  BY DEF Recording, Consolidating
<1>2. FilesLocked'
  BY <1>1, MoveKeepsLocks DEF WorkersInv
<1>3. \A k \in active' : Held(k, Locking)'
  BY MoveKeepsHeld DEF WorkersInv, MarksHeld
<1>4. \A k \in inFlight : Held(k, Consolidating)'
  BY <1>1, MoveKeepsHeld DEF WorkersInv, MarksHeld
<1> QED
  BY <1>2, <1>3, <1>4 DEF WorkersInv, MarksHeld

LEMMA FailsToWrite ==
  ASSUME WorkersInv, NEW w \in Workers, WriteError(w)
  PROVE  FilesLocked' /\ MarksHeld'
<1>1. CASE pc[w] = "lock" /\ active' = active \ {Key(w)} /\ Goto(w, "settle")
           /\ UNCHANGED <<inFlight, fileLock, proc, reading>>
  BY <1>1, GivesUp
<1>2. CASE pc[w] \in Recording /\ Unlock(w) /\ Goto(w, "settle") /\ UNCHANGED <<proc, reading>>
  BY <1>2, Unlocks
<1>3. CASE pc[w] \in {"edges", "writeNode", "checkpoint"} /\ Goto(w, "fail") /\ UNCHANGED <<locks, proc, reading>>
  <2>1. pc[w] \notin Recording /\ pc[w] \notin Locking /\ "fail" \in Consolidating
        /\ UNCHANGED <<proc, active, inFlight, fileLock>>
    BY <1>3 DEF Recording, Locking, Consolidating, locks
  <2> QED
    BY <1>3, <2>1, MoveKeepsLocks, MoveKeepsMarks DEF WorkersInv
<1>4. CASE pc[w] \in {"finish", "fail"} /\ EndConsolidation(w)
  BY <1>4, Ends DEF Consolidating
<1> QED
  BY <1>1, <1>2, <1>3, <1>4 DEF WriteError, Recording

\* A process that dies takes its locks and marks with it.
LEMMA CrashReleases ==
  ASSUME WorkersInv, NEW p \in Processes, Crash(p)
  PROVE  FilesLocked' /\ MarksHeld'
<1>1. /\ pc' = [w \in Workers |-> IF proc[w] = p /\ Busy(w) THEN "dead" ELSE pc[w]]
      /\ active' = {k \in active : k[1] # p}
      /\ inFlight' = {k \in inFlight : k[1] # p}
      /\ fileLock' = [c \in Conversations |->
                    IF fileLock[c] # Nobody /\ proc[fileLock[c]] = p THEN Nobody ELSE fileLock[c]]
      /\ proc' = proc
  BY DEF Crash
<1>2. \A w \in Workers : proc[w] # p => pc'[w] = pc[w]
  BY <1>1
<1>3. ASSUME NEW c \in Conversations, fileLock'[c] # Nobody
      PROVE  fileLock'[c] \in Workers /\ Conv(fileLock'[c]) = c /\ pc'[fileLock'[c]] \in Recording
  <2>1. fileLock'[c] = fileLock[c] /\ fileLock[c] # Nobody /\ proc[fileLock[c]] # p
    BY <1>1, <1>3
  <2> QED
    BY <1>2, <2>1 DEF WorkersInv, FilesLocked
<1>4. DOMAIN fileLock' = Conversations
  BY <1>1
<1>5. FilesLocked'
  BY <1>3, <1>4 DEF FilesLocked, Conv
<1>6. ASSUME NEW places, NEW k, k[1] # p, Held(k, places) PROVE Held(k, places)'
  <2>1. PICK v \in Workers : Key(v) = k /\ pc[v] \in places
    BY <1>6 DEF Held
  <2>2. proc[v] # p
    BY <1>6, <2>1 DEF Key
  <2>3. pc'[v] = pc[v] /\ Key(v)' = Key(v)
    BY <1>1, <1>2, <2>2 DEF Key, Conv
  <2> QED
    BY <2>1, <2>3 DEF Held
<1>7. \A k \in active' : Held(k, Locking)'
  BY <1>1, <1>6 DEF WorkersInv, MarksHeld
<1>8. \A k \in inFlight' : Held(k, Consolidating)'
  BY <1>1, <1>6 DEF WorkersInv, MarksHeld
<1> QED
  BY <1>1, <1>5, <1>7, <1>8 DEF WorkersInv, MarksHeld

LEMMA TakeOverKeeps ==
  ASSUME WorkersInv, NEW w \in Workers, TakeOver(w)
  PROVE  FilesLocked' /\ MarksHeld'
<1>1. /\ pc[w] = "dead" /\ Goto(w, "start") /\ UNCHANGED <<active, inFlight, fileLock>>
      /\ \E p : proc' = [proc EXCEPT ![w] = p]
  BY DEF TakeOver, locks
<1>2. DOMAIN pc = Workers /\ DOMAIN proc = Workers
  BY DEF WorkersInv, MemTyped, WorkInv
<1>3. \A v \in Workers : v # w => pc'[v] = pc[v] /\ Key(v)' = Key(v)
  BY <1>1, <1>2 DEF Goto, Key, Conv
<1>4. pc[w] \notin Recording /\ pc[w] \notin Locking /\ pc[w] \notin Consolidating
  BY <1>1 DEF Recording, Locking, Consolidating
<1>5. FilesLocked'
  BY <1>1, <1>4, MoveKeepsLocks DEF WorkersInv
<1>6. ASSUME NEW places, NEW k, pc[w] \notin places, Held(k, places) PROVE Held(k, places)'
  BY <1>3, <1>6 DEF Held
<1>7. \A k \in active : Held(k, Locking)'
  BY <1>4, <1>6 DEF WorkersInv, MarksHeld
<1>8. \A k \in inFlight : Held(k, Consolidating)'
  BY <1>4, <1>6 DEF WorkersInv, MarksHeld
<1> QED
  BY <1>1, <1>5, <1>7, <1>8 DEF WorkersInv, MarksHeld

LEMMA MarksUntouched ==
  ASSUME WorkersInv, UNCHANGED <<pc, proc, active, inFlight, fileLock>>
  PROVE  FilesLocked' /\ MarksHeld'
<1>1. \A k, places : Held(k, places)' = Held(k, places)
  BY DEF Held, Key, Conv
<1> QED
  BY <1>1 DEF WorkersInv, FilesLocked, MarksHeld, Conv

LEMMA MarksStay ==
  ASSUME WorkersInv, [MemoryNext]_memoryVars
  PROVE  FilesLocked' /\ MarksHeld'
<1>1. ASSUME NEW w \in Workers,
             \/ BeginRecord(w) \/ LockConversation(w) \/ RecordEpisode(w) \/ Trigger(w)
             \/ BeginConsolidation(w) \/ Ask(w) \/ ReadNode(w) \/ WriteNode(w)
             \/ WriteEpisode(w) \/ WriteCheckpoint(w) \/ Settle(w) \/ WriteError(w) \/ TakeOver(w)
      PROVE  FilesLocked' /\ MarksHeld'
  BY <1>1, BeginsRecord, LocksFile, MovesOn, BeginsConsolidation, FailsToWrite, TakeOverKeeps
<1>2. ASSUME NEW w \in Workers, RecordCheckpoint(w)
      PROVE  FilesLocked' /\ MarksHeld'
  <2>1. pc[w] \in Recording /\ Unlock(w) /\ UNCHANGED proc /\ Goto(w, "recorded")
    BY <1>2 DEF RecordCheckpoint, Recording
  <2> QED
    BY <2>1, Unlocks
<1>3. ASSUME NEW w \in Workers, Finish(w) \/ NoteFailure(w)
      PROVE  FilesLocked' /\ MarksHeld'
  <2>1. pc[w] \in Consolidating /\ EndConsolidation(w)
    BY <1>3 DEF Finish, NoteFailure, Consolidating
  <2> QED
    BY <2>1, Ends
<1>4. ASSUME NEW w \in Workers, WriteFact(w)
      PROVE  FilesLocked' /\ MarksHeld'
  BY <1>4, MarksUntouched DEF WriteFact, locks
<1>5. ASSUME NEW p \in Mortal, Crash(p)
      PROVE  FilesLocked' /\ MarksHeld'
  BY <1>5, CrashReleases, MemoryAssumption
<1>6. ASSUME NEW c \in Conversations, CoolDown(c)
      PROVE  FilesLocked' /\ MarksHeld'
  BY <1>6, MarksUntouched DEF CoolDown, locks
<1>7. CASE UNCHANGED memoryVars
  BY <1>7, MarksUntouched DEF memoryVars
<1> QED
  BY <1>1, <1>2, <1>3, <1>4, <1>5, <1>6, <1>7 DEF MemoryNext

LEMMA WorkStays ==
  ASSUME MemTyped, WorkInv, [MemoryNext]_memoryVars
  PROVE  WorkInv'
<1>1. /\ DOMAIN pc = Workers /\ DOMAIN sawLast = Workers
      /\ DOMAIN progress = Conversations /\ DOMAIN checkpoint = Conversations
      /\ \A w \in Workers : Conv(w) \in Conversations
  BY Assumed DEF MemTyped
<1> DEFINE Named == Locking \cup {"recorded", "enter", "checkpoint"}
<1>p. \A w \in Workers : pc[w] \in Named => w \in Turns
  BY DEF WorkInv
<1>2. UNCHANGED proc \/ (\E w \in Workers, p \in Processes : proc' = [proc EXCEPT ![w] = p])
  BY <1>1 DEF MemoryNext, memoryVars, BeginRecord, LockConversation, RecordEpisode, RecordCheckpoint,
         Trigger, BeginConsolidation, Ask, ReadNode, WriteNode, WriteFact, WriteEpisode,
         WriteCheckpoint, Finish, NoteFailure, Settle, EndConsolidation, Forget, WriteError, TakeOver,
         Crash, CoolDown
<1>3. UNCHANGED episodes \/ (\E w \in Workers : DOMAIN episodes' = DOMAIN episodes \cup {w})
  BY DEF MemoryNext, memoryVars, BeginRecord, LockConversation, RecordEpisode, RecordCheckpoint,
         Trigger, BeginConsolidation, Ask, ReadNode, WriteNode, WriteFact, WriteEpisode,
         WriteCheckpoint, Finish, NoteFailure, Settle, EndConsolidation, Forget, WriteError, TakeOver,
         Crash, CoolDown, stores, Put
<1>4. \/ UNCHANGED checkpoint
      \/ \E w \in Workers : /\ pc[w] \in {"recordCheckpoint", "checkpoint"}
                            /\ checkpoint' = [checkpoint EXCEPT ![Conv(w)] = w]
  BY DEF MemoryNext, memoryVars, BeginRecord, LockConversation, RecordEpisode, RecordCheckpoint,
         Trigger, BeginConsolidation, Ask, ReadNode, WriteNode, WriteFact, WriteEpisode,
         WriteCheckpoint, Finish, NoteFailure, Settle, EndConsolidation, Forget, WriteError, TakeOver,
         Crash, CoolDown, stores
<1> DEFINE Noted == \E w \in Turns, last \in Turns \cup {Nobody}, cooling \in BOOLEAN :
                   progress' = [progress EXCEPT ![Conv(w)] = [last |-> last, cooling |-> cooling]]
<1>5. \/ UNCHANGED progress
      \/ \E c \in Conversations : progress' = [progress EXCEPT ![c].cooling = FALSE]
      \/ Noted
  <2>1. ASSUME NEW w \in Workers, Finish(w) \/ NoteFailure(w)
        PROVE  UNCHANGED progress \/ Noted
    BY <2>1 DEF Finish, NoteFailure, WorkInv
  <2> HIDE DEF Noted
  <2> QED
    BY <2>1 DEF MemoryNext, memoryVars, BeginRecord, LockConversation, RecordEpisode,
           RecordCheckpoint, Trigger, BeginConsolidation, Ask, ReadNode, WriteNode, WriteFact,
           WriteEpisode, WriteCheckpoint, Settle, WriteError, TakeOver, Crash, CoolDown, stores
<1>6. UNCHANGED sawLast \/ (\E w \in Workers : \E last \in {progress[Conv(w)].last, Nobody} :
                               sawLast' = [sawLast EXCEPT ![w] = last])
  BY DEF MemoryNext, memoryVars, BeginRecord, LockConversation, RecordEpisode, RecordCheckpoint,
         Trigger, BeginConsolidation, Ask, ReadNode, WriteNode, WriteFact, WriteEpisode,
         WriteCheckpoint, Finish, NoteFailure, Settle, EndConsolidation, Forget, WriteError, TakeOver,
         Crash, CoolDown, reading
<1>7. \/ UNCHANGED pc
      \/ \E p \in Mortal : Crash(p)
      \/ \E w \in Workers : \E place :
            Goto(w, place) /\ (place \in Named => w \in Turns)
  <2> USE DEF Locking
  <2>1. ASSUME NEW w \in Workers,
               \/ BeginRecord(w) \/ LockConversation(w) \/ RecordEpisode(w) \/ RecordCheckpoint(w)
               \/ Trigger(w)
        PROVE  \E place : Goto(w, place) /\ (place \in Named => w \in Turns)
    <3>1. w \in Turns
      BY <2>1, <1>p DEF BeginRecord, LockConversation, RecordEpisode, RecordCheckpoint, Trigger
    <3> QED
      BY <2>1, <3>1 DEF BeginRecord, LockConversation, RecordEpisode, RecordCheckpoint, Trigger
  <2>2. ASSUME NEW w \in Workers,
               \/ BeginConsolidation(w) \/ Ask(w) \/ ReadNode(w) \/ WriteNode(w)
               \/ WriteEpisode(w) \/ WriteCheckpoint(w) \/ Finish(w) \/ NoteFailure(w)
               \/ Settle(w) \/ WriteError(w) \/ TakeOver(w)
        PROVE  \E place : Goto(w, place) /\ (place \in Named => w \in Turns)
    BY <2>2 DEF BeginConsolidation, Ask, ReadNode, WriteNode, WriteEpisode, WriteCheckpoint,
                Finish, NoteFailure, EndConsolidation, Over, Settle, WriteError, TakeOver
  <2> QED
    BY <2>1, <2>2 DEF MemoryNext, memoryVars, WriteFact, CoolDown
<1> HIDE DEF Named
<1>8. proc' \in [Workers -> Processes]
  BY <1>2 DEF WorkInv
<1>9. DOMAIN episodes' \subseteq Workers
  BY <1>3 DEF WorkInv
<1>10. checkpoint' \in [Conversations -> Turns \cup {Nobody}]
  <2>1. \A w \in Workers : pc[w] \in {"recordCheckpoint", "checkpoint"} => w \in Turns
    BY <1>p DEF Named, Locking
  <2> QED
    BY <1>1, <1>4, <2>1 DEF WorkInv
<1>11. \A c \in Conversations : progress'[c].last \in Turns \cup {Nobody}
  <2>1. CASE UNCHANGED progress
    BY <2>1 DEF WorkInv
  <2>2. ASSUME NEW c \in Conversations, progress' = [progress EXCEPT ![c].cooling = FALSE]
        PROVE  \A d \in Conversations : progress'[d].last \in Turns \cup {Nobody}
    <3>1. \A d \in Conversations : progress'[d].last = progress[d].last
      BY <1>1, <2>2 DEF MemTyped
    <3> QED
      BY <3>1 DEF WorkInv
  <2>3. ASSUME NEW w \in Turns, NEW last \in Turns \cup {Nobody}, NEW cooling \in BOOLEAN,
               progress' = [progress EXCEPT ![Conv(w)] = [last |-> last, cooling |-> cooling]]
        PROVE  \A d \in Conversations : progress'[d].last \in Turns \cup {Nobody}
    BY <1>1, <2>3 DEF WorkInv
  <2> QED
    BY <1>5, <2>1, <2>2, <2>3
<1>12. \A w \in Workers : sawLast'[w] \in Turns \cup {Nobody}
  BY <1>1, <1>6 DEF WorkInv
<1>13. \A w \in Workers : pc'[w] \in Named => w \in Turns
  <2>1. CASE \E p \in Mortal : Crash(p)
    <3>1. \A w \in Workers : pc'[w] = pc[w] \/ pc'[w] = "dead"
      BY <2>1 DEF Crash
    <3>2. "dead" \notin Named
      BY DEF Named, Locking
    <3> QED
      BY <1>p, <3>1, <3>2
  <2>2. ASSUME NEW w \in Workers, NEW place, Goto(w, place), place \in Named => w \in Turns
        PROVE  \A v \in Workers : pc'[v] \in Named => v \in Turns
    BY <1>1, <1>p, <2>2 DEF Goto
  <2> QED
    BY <1>p, <1>7, <2>1, <2>2
<1> QED
  BY <1>8, <1>9, <1>10, <1>11, <1>12, <1>13 DEF WorkInv, Named

\* Whatever dies, a lock that is held and a mark that is set have a worker
\* that is where it needs them.
THEOREM MemoryTyped == MemorySpec => []MemoryTypeOK
<1>1. MemoryInit /\ MemInv => WorkInv /\ FilesLocked /\ MarksHeld
  BY WorkersStart
<1>2. MemInv /\ WorkInv /\ FilesLocked /\ MarksHeld /\ [MemoryNext]_memoryVars
        => WorkInv' /\ FilesLocked' /\ MarksHeld'
  BY WorkStays, MarksStay DEF MemInv, WorkersInv
<1>3. MemInv /\ WorkInv /\ FilesLocked /\ MarksHeld => MemoryTypeOK
  BY DEF MemInv, MemTyped, WorkInv, FilesLocked, MarksHeld, MemoryTypeOK, Recording, Locking, Consolidating
<1> QED
  BY <1>1, <1>2, <1>3, MemoryInvariant, PTL DEF MemorySpec

-----------------------------------------------------------------------------
(***************************************************************************)
(* Proofs about AuthStore, for any number of processes, tokens and faults: *)
(* a change of the file is a change of one credential, and a refresh token *)
(* that is stored and spent is about to be replaced.                       *)
(*                                                                         *)
(* Neither property is inductive.  The first needs that what Modify loaded *)
(* under the lock is still the file when it writes.  The second needs to   *)
(* know where every refresh token is: one that a process is about to save  *)
(* is good and nowhere else, so that no other process can spend it.        *)
(***************************************************************************)
Steps == {"idle", "polling", "callback", "granted", "listing", "refreshing", "saving", "writing"}
Token == [access : 0 .. MaxTokens, refresh : 0 .. MaxTokens]

\* The states the variables range over.
AuthTyped ==
  /\ credentials \in [Service -> Token]
  /\ flock \in Worker \cup {NoWorker}
  /\ loaded \in [Worker -> [Service -> Token]]
  /\ step \in [Worker -> Steps]
  /\ target \in [Worker -> Service]
  /\ next \in [Worker -> Token]
  /\ issued \in 0 .. MaxTokens
  /\ live \subseteq 1 .. issued
  /\ expired \subseteq 0 .. MaxTokens
  /\ lost \subseteq Service
  /\ faults \in 0 .. MaxFaults

\* The lock is held from the load to the save, and the file does not change meanwhile.
Locked ==
  /\ \A w \in Worker : step[w] = "writing" <=> flock = w
  /\ \A w \in Worker : step[w] = "writing" => loaded[w] = credentials

\* A process at a provider whose refresh tokens rotate, with a credential to store.
Carries(w) == step[w] \in {"saving", "writing"} /\ target[w] \in Rotating
Refreshes(w) == step[w] = "refreshing" /\ target[w] = Codex

\* Only tokens that were issued are about; what refreshes has a token.
Issued ==
  /\ \A s \in Rotating : credentials[s].refresh <= issued
  /\ \A w \in Worker : Carries(w) \/ Refreshes(w) => next[w].refresh <= issued
  /\ \A w \in Worker : step[w] \in {"granted", "listing"} => target[w] = Copilot
  /\ \A w \in Worker : step[w] = "refreshing" => target[w] \in {Codex, Copilot} /\ next[w].refresh # 0

\* What is about to be stored is good, and nobody else has it.
Owned ==
  \A w \in Worker : Carries(w) /\ next[w].refresh # 0 =>
    /\ next[w].refresh \in live
    /\ \A s \in Rotating : credentials[s].refresh # next[w].refresh
    /\ \A v \in Worker \ {w} : Carries(v) \/ Refreshes(v) => next[v].refresh # next[w].refresh

\* Two services have no token in common.
Apart ==
  /\ credentials[Codex].refresh # 0 => credentials[Codex].refresh # credentials[Anthropic].refresh
  /\ \A w \in Worker : Refreshes(w) => next[w].refresh # credentials[Anthropic].refresh

\* A stored token that is spent has a successor under way.
Replaced(s) == \E w \in Worker : Carries(w) /\ target[w] = s /\ next[w].refresh \in live
Successor ==
  \A s \in Rotating \ lost : credentials[s].refresh \in live \cup {0} \/ Replaced(s)

AuthInv == AuthTyped /\ Locked /\ Issued /\ Owned /\ Apart /\ Successor

-----------------------------------------------------------------------------
(* The steps keep the variables in their ranges.                            *)

LEMMA InitTyped == AuthInit => AuthTyped
  BY AuthAssumption DEF AuthInit, AuthTyped, NoCredential, Token, Steps, Service,
     Codex, Copilot, Anthropic, Bedrock

\* A token that is issued, in place of a spent one or not.
LEMMA NextToken ==
  ASSUME NEW n \in 0 .. MaxTokens, n < MaxTokens, NEW good, good \subseteq 1 .. n, NEW spent
  PROVE  /\ n + 1 \in 1 .. MaxTokens
         /\ good \subseteq 1 .. n + 1
         /\ good \cup {n + 1} \subseteq 1 .. n + 1
         /\ (good \ {spent}) \cup {n + 1} \subseteq 1 .. n + 1
<1>1. n \in Nat /\ n + 1 \in 1 .. MaxTokens
  BY AuthAssumption
<1>2. n + 1 \in 1 .. n + 1 /\ good \subseteq 1 .. n + 1
  BY <1>1
<1> QED
  BY <1>1, <1>2

LEMMA Renewed ==
  ASSUME NEW c \in Token, NEW a \in 1 .. MaxTokens
  PROVE  [c EXCEPT !.access = a] \in Token
  BY AuthAssumption DEF Token

LEMMA BecomeTyped ==
  ASSUME AuthTyped, NEW w \in Worker, NEW s \in Service, NEW c \in Token, NEW what \in Steps,
         Become(w, s, c, what)
  PROVE  /\ step' \in [Worker -> Steps]
         /\ target' \in [Worker -> Service]
         /\ next' \in [Worker -> Token]
  BY DEF Become, AuthTyped

LEMMA IdleTyped ==
  ASSUME AuthTyped, NEW w \in Worker, Idle(w)
  PROVE  /\ step' \in [Worker -> Steps]
         /\ target' \in [Worker -> Service]
         /\ next' \in [Worker -> Token]
         /\ loaded' \in [Worker -> [Service -> Token]]
<1>1. NoCredential \in Token /\ Bedrock \in Service
  BY AuthAssumption DEF NoCredential, Token, Service
<1>2. "idle" \in Steps
  BY DEF Steps
<1>3. loaded' \in [Worker -> [Service -> Token]]
  BY <1>1 DEF Idle, AuthTyped
<1> QED
  BY <1>1, <1>2, <1>3, BecomeTyped DEF Idle

LEMMA LoginTyped ==
  ASSUME AuthTyped, NEW w \in Worker,
         \/ CodexDevice(w) \/ CopilotDevice(w) \/ CodexBrowser(w) \/ AnthropicBrowser(w)
         \/ LoginRefused(w) \/ CopilotRefused(w) \/ CodexGranted(w) \/ AnthropicGranted(w)
         \/ CopilotGranted(w) \/ CopilotToken(w) \/ CopilotModels(w) \/ KeyLogin(w)
  PROVE  AuthTyped'
<1>1. NoCredential \in Token /\ Codex \in Service /\ Copilot \in Service
        /\ Anthropic \in Service /\ Bedrock \in Service
  BY AuthAssumption DEF NoCredential, Token, Service
<1>2. CASE CodexDevice(w) \/ CopilotDevice(w) \/ CodexBrowser(w) \/ AnthropicBrowser(w)
  <2>1. "polling" \in Steps /\ "callback" \in Steps
    BY DEF Steps
  <2>2. step' \in [Worker -> Steps] /\ target' \in [Worker -> Service] /\ next' \in [Worker -> Token]
    BY <1>1, <1>2, <2>1, BecomeTyped DEF CodexDevice, CopilotDevice, CodexBrowser, AnthropicBrowser
  <2> QED
    BY <1>2, <2>2 DEF CodexDevice, CopilotDevice, CodexBrowser, AnthropicBrowser, AuthTyped
<1>3. CASE LoginRefused(w) \/ CopilotRefused(w)
  BY <1>3, IdleTyped DEF LoginRefused, CopilotRefused, AuthTyped
<1>4. CASE CodexGranted(w) \/ AnthropicGranted(w)
  <2>1. issued + 1 \in 1 .. MaxTokens
    BY <1>4, NextToken DEF CodexGranted, AnthropicGranted, Exchange, AuthTyped
  <2>2. live' \subseteq 1 .. issued'
    BY <1>4, NextToken DEF CodexGranted, AnthropicGranted, Exchange, AuthTyped
  <2>3. [access |-> issued + 1, refresh |-> issued + 1] \in Token
    BY <2>1, AuthAssumption DEF Token
  <2>4. "saving" \in Steps
    BY DEF Steps
  <2>5. step' \in [Worker -> Steps] /\ target' \in [Worker -> Service] /\ next' \in [Worker -> Token]
    BY <1>1, <1>4, <2>3, <2>4, BecomeTyped DEF CodexGranted, AnthropicGranted, Exchange
  <2>6. issued' = issued + 1 /\ UNCHANGED <<credentials, flock, loaded, expired, lost, faults>>
    BY <1>4 DEF CodexGranted, AnthropicGranted, Exchange
  <2>7. issued' \in 0 .. MaxTokens
    BY <2>1, <2>6
  <2> QED
    BY <2>2, <2>5, <2>6, <2>7 DEF AuthTyped
<1>5. CASE CopilotGranted(w)
  <2>1. issued + 1 \in 1 .. MaxTokens /\ live' \subseteq 1 .. issued'
    BY <1>5, AuthAssumption DEF CopilotGranted, AuthTyped
  <2>2. [access |-> 0, refresh |-> issued + 1] \in Token
    BY <2>1, AuthAssumption DEF Token
  <2>3. "granted" \in Steps
    BY DEF Steps
  <2>4. step' \in [Worker -> Steps] /\ target' \in [Worker -> Service] /\ next' \in [Worker -> Token]
    BY <1>1, <1>5, <2>2, <2>3, BecomeTyped DEF CopilotGranted
  <2> QED
    BY <1>5, <2>1, <2>4 DEF CopilotGranted, AuthTyped
<1>6. CASE CopilotToken(w)
  <2>1. issued + 1 \in 1 .. MaxTokens /\ live \subseteq 1 .. issued'
    BY <1>6, AuthAssumption DEF CopilotToken, AuthTyped
  <2>2. [next[w] EXCEPT !.access = issued + 1] \in Token
    BY <2>1, Renewed DEF AuthTyped
  <2>3. "listing" \in Steps
    BY DEF Steps
  <2>4. step' \in [Worker -> Steps] /\ target' \in [Worker -> Service] /\ next' \in [Worker -> Token]
    BY <1>1, <1>6, <2>2, <2>3, BecomeTyped DEF CopilotToken
  <2> QED
    BY <1>6, <2>1, <2>4 DEF CopilotToken, AuthTyped
<1>7. CASE CopilotModels(w)
  BY <1>7 DEF CopilotModels, AuthTyped, Steps
<1>8. CASE KeyLogin(w)
  <2>1. issued + 1 \in 1 .. MaxTokens /\ live \subseteq 1 .. issued'
    BY <1>8, AuthAssumption DEF KeyLogin, AuthTyped
  <2>2. [access |-> issued + 1, refresh |-> 0] \in Token
    BY <2>1, AuthAssumption DEF Token
  <2>3. "saving" \in Steps
    BY DEF Steps
  <2>4. step' \in [Worker -> Steps] /\ target' \in [Worker -> Service] /\ next' \in [Worker -> Token]
    BY <1>1, <1>8, <2>2, <2>3, BecomeTyped DEF KeyLogin
  <2> QED
    BY <1>8, <2>1, <2>4 DEF KeyLogin, AuthTyped
<1> QED
  BY <1>2, <1>3, <1>4, <1>5, <1>6, <1>7, <1>8

LEMMA RefreshTyped ==
  ASSUME AuthTyped, NEW w \in Worker,
         \/ \E s \in Service : Delete(w, s) \/ Read(w, s)
         \/ RefreshCodex(w) \/ RefreshCopilot(w) \/ RefreshFails(w) \/ RefreshAnswerLost(w)
  PROVE  AuthTyped'
<1>1. NoCredential \in Token /\ Codex \in Service /\ Copilot \in Service
        /\ Anthropic \in Service /\ Bedrock \in Service
  BY AuthAssumption DEF NoCredential, Token, Service
<1>2. ASSUME NEW s \in Service, Delete(w, s) \/ Read(w, s) PROVE AuthTyped'
  <2>1. "saving" \in Steps /\ "refreshing" \in Steps /\ credentials[s] \in Token
    BY DEF Steps, AuthTyped
  <2>2. step' \in [Worker -> Steps] /\ target' \in [Worker -> Service] /\ next' \in [Worker -> Token]
    BY <1>1, <1>2, <2>1, BecomeTyped DEF Delete, Read
  <2> QED
    BY <1>2, <2>2 DEF Delete, Read, AuthTyped
<1>3. CASE RefreshCodex(w)
  <2>1. issued + 1 \in 1 .. MaxTokens /\ live' \subseteq 1 .. issued'
    BY <1>3, NextToken DEF RefreshCodex, AuthTyped
  <2>2. [access |-> issued + 1, refresh |-> issued + 1] \in Token
    BY <2>1, AuthAssumption DEF Token
  <2>3. "saving" \in Steps
    BY DEF Steps
  <2>4. step' \in [Worker -> Steps] /\ target' \in [Worker -> Service] /\ next' \in [Worker -> Token]
    BY <1>1, <1>3, <2>2, <2>3, BecomeTyped DEF RefreshCodex
  <2> QED
    BY <1>3, <2>1, <2>4 DEF RefreshCodex, AuthTyped
<1>4. CASE RefreshCopilot(w)
  <2>1. issued + 1 \in 1 .. MaxTokens /\ live \subseteq 1 .. issued'
    BY <1>4, AuthAssumption DEF RefreshCopilot, AuthTyped
  <2>2. [next[w] EXCEPT !.access = issued + 1] \in Token
    BY <2>1, Renewed DEF AuthTyped
  <2>3. "saving" \in Steps
    BY DEF Steps
  <2>4. step' \in [Worker -> Steps] /\ target' \in [Worker -> Service] /\ next' \in [Worker -> Token]
    BY <1>1, <1>4, <2>2, <2>3, BecomeTyped DEF RefreshCopilot
  <2> QED
    BY <1>4, <2>1, <2>4 DEF RefreshCopilot, AuthTyped
<1>5. CASE RefreshFails(w)
  <2>1. faults' \in 0 .. MaxFaults
    BY <1>5, AuthAssumption DEF RefreshFails, AuthTyped
  <2> QED
    BY <1>1, <1>5, <2>1, IdleTyped DEF RefreshFails, AuthTyped
<1>6. CASE RefreshAnswerLost(w)
  <2>1. issued + 1 \in 1 .. MaxTokens /\ live' \subseteq 1 .. issued' /\ faults' \in 0 .. MaxFaults
    <3>1. faults' \in 0 .. MaxFaults
      BY <1>6, AuthAssumption DEF RefreshAnswerLost, AuthTyped
    <3> QED
      BY <1>6, <3>1, NextToken DEF RefreshAnswerLost, AuthTyped
  <2> QED
    BY <1>1, <1>6, <2>1, IdleTyped DEF RefreshAnswerLost, AuthTyped
<1> QED
  BY <1>2, <1>3, <1>4, <1>5, <1>6

LEMMA FileTyped ==
  ASSUME AuthTyped, NEW w \in Worker,
         ModifyLoad(w) \/ ModifySave(w) \/ ModifyFails(w) \/ AuthDies(w)
  PROVE  AuthTyped'
<1>1. NoCredential \in Token /\ Bedrock \in Service
  BY AuthAssumption DEF NoCredential, Token, Service
<1>2. CASE ModifyLoad(w)
  BY <1>2 DEF ModifyLoad, AuthTyped, Steps
<1>3. CASE ModifySave(w)
  BY <1>3, IdleTyped DEF ModifySave, AuthTyped
<1>4. CASE ModifyFails(w)
  <2>1. faults' \in 0 .. MaxFaults
    BY <1>4, AuthAssumption DEF ModifyFails, AuthTyped
  <2> QED
    BY <1>4, <2>1, IdleTyped DEF ModifyFails, LostWith, AuthTyped
<1>5. CASE AuthDies(w)
  <2>1. faults' \in 0 .. MaxFaults
    BY <1>5, AuthAssumption DEF AuthDies, AuthTyped
  <2> QED
    BY <1>5, <2>1, IdleTyped DEF AuthDies, LostWith, AuthTyped
<1> QED
  BY <1>2, <1>3, <1>4, <1>5

LEMMA ExpireTyped ==
  ASSUME AuthTyped, NEW s \in Service, Expire(s)
  PROVE  AuthTyped'
  BY DEF Expire, AuthTyped, Token
-----------------------------------------------------------------------------
(* What a step of a process leaves alone.                                   *)

Others(w) ==
  \A v \in Worker \ {w} : /\ step'[v] = step[v] /\ target'[v] = target[v]
                          /\ next'[v] = next[v] /\ loaded'[v] = loaded[v]

LEMMA BecomeMoves ==
  ASSUME AuthTyped, NEW w \in Worker, NEW s, NEW c, NEW what, Become(w, s, c, what), UNCHANGED loaded
  PROVE  Others(w) /\ step'[w] = what /\ target'[w] = s /\ next'[w] = c
  BY DEF Become, AuthTyped, Others

LEMMA IdleMoves ==
  ASSUME AuthTyped, NEW w \in Worker, Idle(w)
  PROVE  Others(w) /\ step'[w] = "idle"
<1>1. Become(w, Bedrock, NoCredential, "idle")
  BY DEF Idle
<1>2. \A v \in Worker \ {w} : loaded'[v] = loaded[v]
  BY DEF Idle, AuthTyped
<1> QED
  BY <1>1, <1>2 DEF Become, AuthTyped, Others

\* Outside of Modify the file and its lock are left alone.
Away(w) ==
  Others(w) /\ step[w] # "writing" /\ step'[w] # "writing" /\ UNCHANGED <<credentials, flock>>

LEMMA AwayLocked ==
  ASSUME AuthTyped, Locked, NEW w \in Worker, Away(w)
  PROVE  Locked'
  BY DEF Locked, Away, Others

\* No refresh token is issued, spent or stored; one that is dropped is noted as lost.
Quiet(w) ==
  /\ Others(w)
  /\ (Carries(w) => next[w].refresh = 0)'
  /\ step'[w] # "refreshing"
  /\ step'[w] \in {"granted", "listing"} => target'[w] = Copilot
  /\ \A s \in Rotating : credentials'[s] = credentials[s]
  /\ issued' \in Nat /\ issued <= issued' /\ live \subseteq live'
  /\ lost \subseteq lost'
  /\ Carries(w) /\ next[w].refresh # 0 => target[w] \in lost'

LEMMA Tokens ==
  ASSUME AuthTyped
  PROVE  /\ issued \in Nat /\ 0 \notin live
         /\ \A s \in Rotating : s \in Service /\ credentials[s].refresh \in Nat
         /\ \A w \in Worker : next[w].refresh \in Nat
  BY AuthAssumption DEF AuthTyped, Token, Rotating, Service

LEMMA QuietStep ==
  ASSUME AuthInv, NEW w \in Worker, Quiet(w)
  PROVE  (Issued /\ Owned /\ Apart /\ Successor)'
<1> USE DEF AuthInv
<1>1. Issued'
  BY Tokens DEF Issued, Quiet, Others, Carries, Refreshes
<1>2. Owned'
  BY Tokens DEF Owned, Quiet, Others, Carries, Refreshes
<1>3. Apart'
  BY DEF Apart, Quiet, Others, Refreshes, Rotating
<1>4. Successor'
  <2>1. SUFFICES ASSUME NEW s \in Rotating \ lost', credentials'[s].refresh \notin live' \cup {0}
                 PROVE  Replaced(s)'
    BY DEF Successor
  <2>2. Replaced(s)
    BY <2>1 DEF Successor, Quiet
  <2>3. PICK v \in Worker : Carries(v) /\ target[v] = s /\ next[v].refresh \in live
    BY <2>2 DEF Replaced
  <2>4. v # w
    BY <2>1, <2>3, Tokens DEF Quiet
  <2> QED
    BY <2>3, <2>4 DEF Replaced, Quiet, Others, Carries
<1> QED
  BY <1>1, <1>2, <1>3, <1>4
\* A login or a refresh has got a new token for a service whose tokens rotate;
\* a refresh has spent the old one.
Unshared(w) ==
  /\ Others(w)
  /\ Carries(w)' /\ ~Carries(w)
  /\ next'[w].refresh = issued + 1 /\ issued' = issued + 1
  /\ UNCHANGED <<credentials, lost>>
  /\ \/ live' = live \cup {issued + 1}
     \/ /\ Refreshes(w) /\ target'[w] = Codex
        /\ live' = (live \ {next[w].refresh}) \cup {issued + 1}

LEMMA FreshStep ==
  ASSUME AuthInv, NEW w \in Worker, Unshared(w)
  PROVE  (Issued /\ Owned /\ Apart /\ Successor)'
<1> USE DEF AuthInv
<1>1. Issued'
  BY Tokens DEF Issued, Unshared, Others, Carries, Refreshes
<1>2. Owned'
  <2>1. SUFFICES ASSUME NEW v \in Worker, Carries(v)', next'[v].refresh # 0
                 PROVE  /\ next'[v].refresh \in live'
                        /\ \A s \in Rotating : credentials'[s].refresh # next'[v].refresh
                        /\ \A u \in Worker \ {v} :
                             (Carries(u) \/ Refreshes(u))' => next'[u].refresh # next'[v].refresh
    BY DEF Owned
  <2>2. CASE v = w
    BY <2>2, Tokens DEF Unshared, Issued, Others, Carries, Refreshes
  <2>3. CASE v # w
    <3>1. Carries(v) /\ next'[v] = next[v]
      BY <2>1, <2>3 DEF Unshared, Others, Carries
    <3>2. next[v].refresh \in live /\ (Refreshes(w) => next[w].refresh # next[v].refresh)
      BY <2>1, <2>3, <3>1 DEF Owned
    <3>3. next'[v].refresh \in live'
      BY <3>1, <3>2 DEF Unshared
    <3>4. \A u \in Worker \ {v} :
            (Carries(u) \/ Refreshes(u))' => next'[u].refresh # next'[v].refresh
      BY <2>1, <2>3, <3>1, Tokens DEF Unshared, Owned, Issued, Others, Carries, Refreshes
    <3> QED
      BY <2>1, <3>1, <3>3, <3>4 DEF Unshared, Owned
  <2> QED
    BY <2>2, <2>3
<1>3. Apart'
  <2>1. ~Refreshes(w)'
    BY DEF Unshared, Carries, Refreshes
  <2> QED
    BY <2>1 DEF Apart, Unshared, Others, Refreshes
<1>4. Successor'
  <2>1. SUFFICES ASSUME NEW s \in Rotating \ lost, credentials[s].refresh \notin live' \cup {0}
                 PROVE  Replaced(s)'
    BY DEF Successor, Unshared
  <2>2. Carries(w)' /\ next'[w].refresh \in live'
    BY DEF Unshared
  <2>3. CASE target'[w] = s
    BY <2>2, <2>3 DEF Replaced
  <2>4. CASE target'[w] # s
    \* The token of s is not the one that was spent.
    <3>1. credentials[s].refresh \notin live
      <4>1. CASE Refreshes(w) /\ target'[w] = Codex
        <5>1. s = Anthropic
          BY <2>4, <4>1 DEF Rotating
        <5> QED
          BY <2>1, <4>1, <5>1 DEF Apart, Unshared
      <4> QED
        BY <2>1, <4>1 DEF Unshared
    <3>2. PICK v \in Worker : Carries(v) /\ target[v] = s /\ next[v].refresh \in live
      BY <2>1, <3>1 DEF Successor, Replaced
    <3>3. v # w
      BY <3>2 DEF Unshared
    <3>4. Refreshes(w) => next[w].refresh # next[v].refresh
      BY <3>2, <3>3, Tokens DEF Owned
    <3>5. next'[v].refresh \in live' /\ Carries(v)' /\ target'[v] = s
      BY <3>2, <3>3, <3>4 DEF Unshared, Others, Carries
    <3> QED
      BY <3>5 DEF Replaced
  <2> QED
    BY <2>3, <2>4
<1> QED
  BY <1>1, <1>2, <1>3, <1>4

LEMMA ReadStep ==
  ASSUME AuthInv, NEW w \in Worker, NEW s \in Service, Read(w, s)
  PROVE  (Issued /\ Owned /\ Apart /\ Successor)'
<1> USE DEF AuthInv
<1>1. Others(w) /\ step'[w] = "refreshing" /\ target'[w] = s /\ next'[w] = credentials[s]
  BY BecomeMoves DEF Read
<1>2. s \in {Codex, Copilot} /\ credentials[s].refresh # 0 /\ step[w] = "idle"
        /\ UNCHANGED <<credentials, issued, live, lost>>
  BY DEF Read
<1>3. Issued'
  BY <1>1, <1>2, Tokens DEF Issued, Others, Carries, Refreshes, Rotating
<1>4. Owned'
  BY <1>1, <1>2 DEF Owned, Others, Carries, Refreshes, Rotating
<1>5. Apart'
  BY <1>1, <1>2 DEF Apart, Others, Refreshes
<1>6. Successor'
  BY <1>1, <1>2 DEF Successor, Replaced, Others, Carries
<1> QED
  BY <1>3, <1>4, <1>5, <1>6

LEMMA AnswerLostStep ==
  ASSUME AuthInv, NEW w \in Worker, RefreshAnswerLost(w)
  PROVE  (Issued /\ Owned /\ Apart /\ Successor)'
<1> USE DEF AuthInv
<1>1. Others(w) /\ step'[w] = "idle"
  BY IdleMoves DEF RefreshAnswerLost
<1>2. /\ Refreshes(w) /\ ~Carries(w) /\ credentials' = credentials
      /\ issued' = issued + 1 /\ lost' = lost \cup {Codex}
      /\ live' = (live \ {next[w].refresh}) \cup {issued + 1}
  BY DEF RefreshAnswerLost, Refreshes, Carries
<1>3. Issued'
  BY <1>1, <1>2, Tokens DEF Issued, Others, Carries, Refreshes
<1>4. Owned'
  BY <1>1, <1>2, Tokens DEF Owned, Others, Carries, Refreshes
<1>5. Apart'
  BY <1>1, <1>2 DEF Apart, Others, Refreshes
<1>6. Successor'
  <2>1. SUFFICES ASSUME NEW s \in Rotating \ lost', credentials[s].refresh \notin live' \cup {0}
                 PROVE  Replaced(s)'
    BY <1>2 DEF Successor
  <2>2. s = Anthropic /\ s \notin lost
    BY <1>2, <2>1 DEF Rotating
  <2>3. credentials[s].refresh \notin live
    BY <1>2, <2>1, <2>2 DEF Apart
  <2>4. PICK v \in Worker : Carries(v) /\ target[v] = s /\ next[v].refresh \in live
    BY <2>1, <2>2, <2>3 DEF Successor, Replaced
  <2>5. v # w /\ next[v].refresh # next[w].refresh
    BY <1>2, <2>4, Tokens DEF Owned
  <2> QED
    BY <1>1, <1>2, <2>4, <2>5 DEF Replaced, Others, Carries
<1> QED
  BY <1>3, <1>4, <1>5, <1>6

LEMMA SaveStep ==
  ASSUME AuthInv, NEW w \in Worker, ModifySave(w)
  PROVE  (Issued /\ Owned /\ Apart /\ Successor)'
<1> USE DEF AuthInv
<1>1. Others(w) /\ step'[w] = "idle"
  BY IdleMoves DEF ModifySave
<1>2. credentials' = [credentials EXCEPT ![target[w]] = next[w]]
        /\ step[w] = "writing" /\ UNCHANGED <<issued, live, lost>>
  BY DEF ModifySave, Locked
<1>3. \A s \in Service : credentials'[s] = IF s = target[w] THEN next[w] ELSE credentials[s]
  BY <1>2 DEF AuthTyped
<1>4. CASE target[w] \notin Rotating
  <2>1. Quiet(w)
    BY <1>1, <1>2, <1>3, <1>4, Tokens DEF Quiet, Carries, Others
  <2> QED
    BY <2>1, QuietStep
<1>5. CASE target[w] \in Rotating
  <2>1. Carries(w)
    BY <1>2, <1>5 DEF Carries
  <2>2. Issued'
    BY <1>1, <1>2, <1>3, <2>1, Tokens DEF Issued, Others, Carries, Refreshes
  <2>3. Owned'
    BY <1>1, <1>2, <1>3, <2>1, Tokens DEF Owned, Others, Carries, Refreshes
  <2>4. Apart'
    <3>1. \A v \in Worker \ {w} : Refreshes(v) => next[v].refresh # 0 /\ next[v].refresh # next[w].refresh
      BY <2>1 DEF Owned, Issued, Refreshes
    <3>2. Codex \in Service /\ Anthropic \in Service /\ Codex \in Rotating /\ Anthropic \in Rotating
            /\ Codex # Anthropic
      BY DEF Service, Rotating, Codex, Anthropic
    <3>3. \A s \in Rotating : next[w].refresh # 0 => credentials[s].refresh # next[w].refresh
      BY <2>1 DEF Owned
    <3>4. credentials'[Codex].refresh # 0 => credentials'[Codex].refresh # credentials'[Anthropic].refresh
      BY <1>3, <3>2, <3>3 DEF Apart
    <3>5. \A v \in Worker : Refreshes(v)' => next'[v].refresh # credentials'[Anthropic].refresh
      BY <1>1, <1>3, <3>1, <3>2 DEF Apart, Others, Refreshes
    <3> QED
      BY <3>4, <3>5 DEF Apart
  <2>5. Successor'
    <3>1. SUFFICES ASSUME NEW s \in Rotating \ lost, credentials'[s].refresh \notin live \cup {0}
                   PROVE  Replaced(s)'
      BY <1>2 DEF Successor
    <3>2. s # target[w]
      BY <1>3, <2>1, <3>1, Tokens DEF Owned
    <3>3. PICK v \in Worker : Carries(v) /\ target[v] = s /\ next[v].refresh \in live
      BY <1>3, <3>1, <3>2, Tokens DEF Successor, Replaced
    <3> QED
      BY <1>1, <1>2, <3>2, <3>3 DEF Replaced, Others, Carries
  <2> QED
    BY <2>2, <2>3, <2>4, <2>5
<1> QED
  BY <1>4, <1>5
-----------------------------------------------------------------------------
(* One step of each action.                                                 *)

LEMMA LoginStep ==
  ASSUME AuthInv, NEW w \in Worker,
         \/ CodexDevice(w) \/ CopilotDevice(w) \/ CodexBrowser(w) \/ AnthropicBrowser(w)
         \/ LoginRefused(w) \/ CopilotRefused(w) \/ CodexGranted(w) \/ AnthropicGranted(w)
         \/ CopilotGranted(w) \/ CopilotToken(w) \/ CopilotModels(w) \/ KeyLogin(w)
  PROVE  AuthInv'
<1> USE DEF AuthInv
<1>1. CASE CodexDevice(w) \/ CopilotDevice(w) \/ CodexBrowser(w) \/ AnthropicBrowser(w)
  <2>1. Others(w) /\ step'[w] \in {"polling", "callback"} /\ step[w] = "idle"
          /\ UNCHANGED <<credentials, flock, issued, live, lost>>
    BY <1>1, BecomeMoves DEF CodexDevice, CopilotDevice, CodexBrowser, AnthropicBrowser
  <2>2. Away(w) /\ Quiet(w)
    BY <2>1, Tokens DEF Away, Quiet, Carries
  <2> QED
    BY <1>1, <2>2, LoginTyped, AwayLocked, QuietStep
<1>2. CASE LoginRefused(w) \/ CopilotRefused(w)
  <2>1. Others(w) /\ step'[w] = "idle" /\ step[w] \in {"polling", "callback", "granted", "listing"}
          /\ UNCHANGED <<credentials, flock, issued, live, lost>>
    BY <1>2, IdleMoves DEF LoginRefused, CopilotRefused
  <2>2. Away(w) /\ Quiet(w)
    BY <2>1, Tokens DEF Away, Quiet, Carries
  <2> QED
    BY <1>2, <2>2, LoginTyped, AwayLocked, QuietStep
<1>3. CASE CodexGranted(w) \/ AnthropicGranted(w)
  <2>1. PICK s \in Rotating : Exchange(w, s, {"polling", "callback"})
    BY <1>3 DEF CodexGranted, AnthropicGranted, Exchange, Rotating
  <2>2. Others(w) /\ step'[w] = "saving" /\ target'[w] = s /\ next'[w].refresh = issued + 1
    BY <2>1, BecomeMoves DEF Exchange
  <2>3. Away(w) /\ Unshared(w)
    BY <2>1, <2>2 DEF Exchange, Away, Unshared, Carries
  <2> QED
    BY <1>3, <2>3, LoginTyped, AwayLocked, FreshStep
<1>4. CASE CopilotGranted(w)
  <2>1. Others(w) /\ step'[w] = "granted" /\ target'[w] = Copilot
    BY <1>4, BecomeMoves DEF CopilotGranted
  <2>2. Away(w) /\ Quiet(w)
    BY <1>4, <2>1, Tokens DEF CopilotGranted, Away, Quiet, Carries
  <2> QED
    BY <1>4, <2>2, LoginTyped, AwayLocked, QuietStep
<1>5. CASE CopilotToken(w)
  <2>1. Others(w) /\ step'[w] = "listing" /\ target'[w] = Copilot
    BY <1>5, BecomeMoves DEF CopilotToken
  <2>2. Away(w) /\ Quiet(w)
    BY <1>5, <2>1, Tokens DEF CopilotToken, Away, Quiet, Carries
  <2> QED
    BY <1>5, <2>2, LoginTyped, AwayLocked, QuietStep
<1>6. CASE CopilotModels(w)
  <2>1. step[w] = "listing" /\ target[w] = Copilot /\ step' = [step EXCEPT ![w] = "saving"]
          /\ UNCHANGED <<credentials, flock, loaded, target, next, issued, live, lost>>
    BY <1>6 DEF CopilotModels, Issued
  <2>2. Others(w) /\ step'[w] = "saving" /\ target'[w] \notin Rotating
    BY <2>1 DEF Others, AuthTyped, Copilot, Rotating, Codex, Anthropic
  <2>3. Away(w) /\ Quiet(w)
    BY <2>1, <2>2, Tokens DEF Away, Quiet, Carries
  <2> QED
    BY <1>6, <2>3, LoginTyped, AwayLocked, QuietStep
<1>7. CASE KeyLogin(w)
  <2>1. Others(w) /\ step'[w] = "saving" /\ target'[w] = Bedrock /\ Bedrock \notin Rotating
    BY <1>7, BecomeMoves DEF KeyLogin, Rotating, Bedrock, Codex, Anthropic
  <2>2. Away(w) /\ Quiet(w)
    BY <1>7, <2>1, Tokens DEF KeyLogin, Away, Quiet, Carries
  <2> QED
    BY <1>7, <2>2, LoginTyped, AwayLocked, QuietStep
<1> QED
  BY <1>1, <1>2, <1>3, <1>4, <1>5, <1>6, <1>7

LEMMA RefreshStep ==
  ASSUME AuthInv, NEW w \in Worker,
         \/ \E s \in Service : Delete(w, s) \/ Read(w, s)
         \/ RefreshCodex(w) \/ RefreshCopilot(w) \/ RefreshFails(w) \/ RefreshAnswerLost(w)
  PROVE  AuthInv'
<1> USE DEF AuthInv
<1>1. ASSUME NEW s \in Service, Delete(w, s) PROVE AuthInv'
  <2>1. Others(w) /\ step'[w] = "saving" /\ next'[w].refresh = 0
    BY <1>1, BecomeMoves DEF Delete, NoCredential
  <2>2. Away(w) /\ Quiet(w)
    BY <1>1, <2>1, Tokens DEF Delete, Away, Quiet, Carries
  <2> QED
    BY <1>1, <2>2, RefreshTyped, AwayLocked, QuietStep
<1>2. ASSUME NEW s \in Service, Read(w, s) PROVE AuthInv'
  <2>1. Others(w) /\ step'[w] = "refreshing"
    BY <1>2, BecomeMoves DEF Read
  <2>2. Away(w)
    BY <1>2, <2>1 DEF Read, Away
  <2> QED
    BY <1>2, <2>2, RefreshTyped, AwayLocked, ReadStep
<1>3. CASE RefreshCodex(w)
  <2>1. Others(w) /\ step'[w] = "saving" /\ target'[w] = Codex /\ next'[w].refresh = issued + 1
    BY <1>3, BecomeMoves DEF RefreshCodex
  <2>2. Away(w) /\ Unshared(w)
    BY <1>3, <2>1 DEF RefreshCodex, Away, Unshared, Carries, Refreshes, Rotating
  <2> QED
    BY <1>3, <2>2, RefreshTyped, AwayLocked, FreshStep
<1>4. CASE RefreshCopilot(w)
  <2>1. Others(w) /\ step'[w] = "saving" /\ target'[w] = Copilot /\ Copilot \notin Rotating
    BY <1>4, BecomeMoves DEF RefreshCopilot, Rotating, Codex, Copilot, Anthropic
  <2>2. Away(w) /\ Quiet(w)
    BY <1>4, <2>1, Tokens DEF RefreshCopilot, Away, Quiet, Carries
  <2> QED
    BY <1>4, <2>2, RefreshTyped, AwayLocked, QuietStep
<1>5. CASE RefreshFails(w)
  <2>1. Others(w) /\ step'[w] = "idle"
    BY <1>5, IdleMoves DEF RefreshFails
  <2>2. Away(w) /\ Quiet(w)
    BY <1>5, <2>1, Tokens DEF RefreshFails, Away, Quiet, Carries
  <2> QED
    BY <1>5, <2>2, RefreshTyped, AwayLocked, QuietStep
<1>6. CASE RefreshAnswerLost(w)
  <2>1. Others(w) /\ step'[w] = "idle"
    BY <1>6, IdleMoves DEF RefreshAnswerLost
  <2>2. Away(w)
    BY <1>6, <2>1 DEF RefreshAnswerLost, Away
  <2> QED
    BY <1>6, <2>2, RefreshTyped, AwayLocked, AnswerLostStep
<1> QED
  BY <1>1, <1>2, <1>3, <1>4, <1>5, <1>6

LEMMA FileStep ==
  ASSUME AuthInv, NEW w \in Worker,
         ModifyLoad(w) \/ ModifySave(w) \/ ModifyFails(w) \/ AuthDies(w)
  PROVE  AuthInv'
<1> USE DEF AuthInv
<1>1. NoWorker \notin Worker
  BY AuthAssumption
<1>2. CASE ModifyLoad(w)
  <2>1. Locked'
    BY <1>1, <1>2 DEF ModifyLoad, Locked, AuthTyped
  <2>2. /\ \A v \in Worker : (Carries(v) <=> Carries(v)') /\ (Refreshes(v) <=> Refreshes(v)')
        /\ \A v \in Worker : v # w => step'[v] = step[v]
        /\ step'[w] = "writing" /\ UNCHANGED <<credentials, target, next, issued, live, lost>>
    BY <1>2 DEF ModifyLoad, Carries, Refreshes, AuthTyped
  <2>3. (Issued /\ Owned /\ Apart /\ Successor)'
    BY <2>2 DEF Issued, Owned, Apart, Successor, Replaced
  <2> QED
    BY <1>2, <2>1, <2>3, FileTyped
<1>3. CASE ModifySave(w)
  <2>1. Others(w) /\ step'[w] = "idle" /\ step[w] = "writing" /\ flock' = NoWorker
    BY <1>3, IdleMoves DEF ModifySave
  <2>2. Locked'
    BY <1>1, <2>1 DEF Locked, Others
  <2> QED
    BY <1>3, <2>2, FileTyped, SaveStep
<1>4. CASE ModifyFails(w)
  <2>1. Others(w) /\ step'[w] = "idle"
    BY <1>4, IdleMoves DEF ModifyFails
  <2>2. step[w] = "writing" /\ flock' = NoWorker /\ lost' = LostWith(w)
          /\ UNCHANGED <<credentials, issued, live>>
    BY <1>4 DEF ModifyFails
  <2>3. Locked'
    BY <1>1, <2>1, <2>2 DEF Locked, Others
  <2>4. Quiet(w)
    BY <2>1, <2>2, Tokens DEF LostWith, Quiet, Carries
  <2> QED
    BY <1>4, <2>3, <2>4, FileTyped, QuietStep
<1>5. CASE AuthDies(w)
  <2>1. Others(w) /\ step'[w] = "idle"
    BY <1>5, IdleMoves DEF AuthDies
  <2>2. /\ flock' = IF flock = w THEN NoWorker ELSE flock
        /\ lost' = IF step[w] \in {"saving", "writing"} THEN LostWith(w) ELSE lost
        /\ UNCHANGED <<credentials, issued, live>>
    BY <1>5 DEF AuthDies
  <2>3. Locked'
    BY <1>1, <2>1, <2>2 DEF Locked, Others
  <2>4. Quiet(w)
    BY <2>1, <2>2, Tokens DEF LostWith, Quiet, Carries
  <2> QED
    BY <1>5, <2>3, <2>4, FileTyped, QuietStep
<1> QED
  BY <1>2, <1>3, <1>4, <1>5

LEMMA ExpireStep ==
  ASSUME AuthInv, NEW s \in Service, Expire(s)
  PROVE  AuthInv'
<1>1. UNCHANGED <<credentials, flock, loaded, step, target, next, issued, live, lost>>
  BY DEF Expire
<1> QED
  BY <1>1, ExpireTyped DEF AuthInv, Locked, Issued, Owned, Apart, Successor, Replaced, Carries, Refreshes

-----------------------------------------------------------------------------
LEMMA AuthStarts == AuthInit => AuthInv
<1> SUFFICES ASSUME AuthInit PROVE AuthInv
  OBVIOUS
<1>1. AuthTyped
  BY InitTyped
<1>2. Locked /\ Owned /\ Issued /\ Successor
  BY AuthAssumption DEF AuthInit, Locked, Owned, Issued, Successor, Carries, Refreshes, Rotating,
     Service, NoCredential, Codex, Anthropic
<1>3. Apart
  BY DEF AuthInit, Apart, Refreshes, NoCredential, Service
<1> QED
  BY <1>1, <1>2, <1>3 DEF AuthInv

LEMMA AuthStays == AuthInv /\ [AuthNext]_authVars => AuthInv'
<1> SUFFICES ASSUME AuthInv, [AuthNext]_authVars PROVE AuthInv'
  OBVIOUS
<1>1. CASE UNCHANGED authVars
  BY <1>1 DEF authVars, AuthInv, AuthTyped, Locked, Issued, Owned, Apart, Successor, Replaced, Carries, Refreshes
<1>2. CASE AuthNext
  BY <1>2, LoginStep, RefreshStep, FileStep, ExpireStep DEF AuthNext
<1> QED
  BY <1>1, <1>2

(***************************************************************************)
(* The state of the credential file, of its lock and of every process that *)
(* logs in or refreshes is as the code expects in every reachable state.   *)
(***************************************************************************)
THEOREM AuthInvariant == AuthSpec => []AuthInv
  BY AuthStarts, AuthStays, PTL DEF AuthSpec

(***************************************************************************)
(* Store.Modify changes the credential of one provider at a time, whatever *)
(* other processes do meanwhile: nothing that was stored is written over   *)
(* with what a process has read before (store.go:67).                      *)
(***************************************************************************)
THEOREM OthersAlwaysKept == AuthSpec => OthersKept
<1>1. ASSUME AuthInv, [AuthNext]_authVars
      PROVE  [\A s, t \in Service :
                credentials'[s] # credentials[s] /\ credentials'[t] # credentials[t] => s = t]_credentials
  <2>1. CASE \E w \in Worker : ModifySave(w)
    <3>1. PICK w \in Worker : ModifySave(w)
      BY <2>1
    <3>2. credentials' = [credentials EXCEPT ![target[w]] = next[w]]
      BY <1>1, <3>1 DEF ModifySave, AuthInv, Locked
    <3> QED
      BY <1>1, <3>2 DEF AuthInv, AuthTyped
  <2>2. CASE ~ \E w \in Worker : ModifySave(w)
    <3>1. credentials' = credentials
      BY <1>1, <2>2 DEF AuthNext, authVars, CodexDevice, CopilotDevice, CodexBrowser, AnthropicBrowser,
         LoginRefused, CopilotRefused, CodexGranted, AnthropicGranted, Exchange, CopilotGranted,
         CopilotToken, CopilotModels, KeyLogin, Delete, Read, RefreshCodex, RefreshCopilot, RefreshFails,
         RefreshAnswerLost, ModifyLoad, ModifyFails, AuthDies, Expire
    <3> QED
      BY <3>1
  <2> QED
    BY <2>1, <2>2
<1> QED
  BY <1>1, AuthInvariant, PTL DEF AuthSpec, OthersKept

(***************************************************************************)
(* A stored refresh token of a service whose tokens rotate is good, or a   *)
(* process has its successor and is about to store it, unless an answer or *)
(* a write was lost: two processes that refresh the same credential, or    *)
(* refresh while another logs in, leave no spent token behind although     *)
(* they read and modify the file in separate steps (config.go:327-347).    *)
(***************************************************************************)
THEOREM StoredTokenAlwaysGood == AuthSpec => []StoredTokenGood
<1>1. AuthInv => StoredTokenGood
  BY DEF AuthInv, Successor, Replaced, Carries, StoredTokenGood
<1> QED
  BY <1>1, AuthInvariant, PTL

-----------------------------------------------------------------------------
(* The shape of the credential file.                                        *)

\* A credential with a refresh token has an access token.
Backed(c) == c.refresh # 0 => c.access # 0

\* What is stored, or about to be, has both; so only tokens that were issued expire.
WholeInv ==
  /\ \A s \in Service : Backed(credentials[s])
  /\ \A w \in Worker : step[w] \in {"listing", "saving", "writing"} => Backed(next[w])
  /\ 0 \notin expired

LEMMA GrantedWhole ==
  \A c \in Token, n \in Nat : Backed([c EXCEPT !.access = n + 1]) /\ Backed([access |-> n + 1, refresh |-> n + 1])
  BY DEF Backed, Token

LEMMA NextWhole ==
  ASSUME AuthTyped, WholeInv, NEW w \in Worker,
         NEW s, NEW c, NEW what, Become(w, s, c, what),
         what \in {"listing", "saving", "writing"} => Backed(c)
  PROVE  \A v \in Worker : step'[v] \in {"listing", "saving", "writing"} => Backed(next'[v])
<1>1. DOMAIN step = Worker /\ DOMAIN next = Worker
  BY DEF AuthTyped
<1> QED
  BY <1>1 DEF Become, WholeInv

LEMMA WholeStays ==
  ASSUME AuthInv, WholeInv, [AuthNext]_authVars
  PROVE  WholeInv'
<1> DEFINE Bound == {"listing", "saving", "writing"}
           NextOK == \A v \in Worker : step'[v] \in Bound => Backed(next'[v])
<1>t. AuthTyped
  BY DEF AuthInv
<1>0. Backed(NoCredential)
  BY DEF Backed, NoCredential
<1>1. ASSUME NEW w \in Worker,
             \/ CodexDevice(w) \/ CopilotDevice(w) \/ CodexBrowser(w) \/ AnthropicBrowser(w)
             \/ LoginRefused(w) \/ CopilotRefused(w) \/ (\E s \in Service : Delete(w, s))
             \/ RefreshFails(w) \/ RefreshAnswerLost(w) \/ ModifyFails(w) \/ AuthDies(w)
      PROVE  NextOK /\ UNCHANGED <<credentials, expired>>
  <2>1. UNCHANGED <<credentials, expired>>
    BY <1>1 DEF CodexDevice, CopilotDevice, CodexBrowser, AnthropicBrowser, LoginRefused,
       CopilotRefused, Delete, RefreshFails, RefreshAnswerLost, ModifyFails, AuthDies
  <2>2. \E t, what : Become(w, t, NoCredential, what)
    BY <1>1 DEF CodexDevice, CopilotDevice, CodexBrowser, AnthropicBrowser, LoginRefused,
       CopilotRefused, Delete, RefreshFails, RefreshAnswerLost, ModifyFails, AuthDies, Idle
  <2> HIDE DEF NextOK
  <2> QED
    BY <1>t, <1>0, <2>1, <2>2, NextWhole DEF NextOK
<1>2. ASSUME NEW w \in Worker,
             \/ CodexGranted(w) \/ AnthropicGranted(w) \/ CopilotGranted(w) \/ CopilotToken(w)
             \/ KeyLogin(w) \/ RefreshCodex(w) \/ RefreshCopilot(w)
      PROVE  NextOK /\ UNCHANGED <<credentials, expired>>
  <2>1. UNCHANGED <<credentials, expired>>
    BY <1>2 DEF CodexGranted, AnthropicGranted, CopilotGranted, CopilotToken, KeyLogin,
       RefreshCodex, RefreshCopilot, Exchange
  <2>2. issued \in Nat /\ next[w] \in Token
    BY <1>t DEF AuthTyped
  <2>3. Backed([access |-> issued + 1, refresh |-> 0])
    BY DEF Backed
  <2>4. Backed([access |-> issued + 1, refresh |-> issued + 1]) /\ Backed([next[w] EXCEPT !.access = issued + 1])
    BY <2>2, GrantedWhole
  <2>5. \E t, c, what : Become(w, t, c, what) /\ (what \in Bound => Backed(c))
    <3>1. CASE CodexGranted(w) \/ AnthropicGranted(w) \/ RefreshCodex(w)
      BY <3>1, <2>4 DEF CodexGranted, AnthropicGranted, RefreshCodex, Exchange
    <3>2. CASE CopilotToken(w) \/ RefreshCopilot(w)
      BY <3>2, <2>4 DEF CopilotToken, RefreshCopilot
    <3>3. CASE KeyLogin(w)
      BY <3>3, <2>3 DEF KeyLogin
    <3>4. CASE CopilotGranted(w)
      BY <3>4 DEF CopilotGranted
    <3> QED
      BY <1>2, <3>1, <3>2, <3>3, <3>4
  <2> QED
    BY <1>t, <2>1, <2>5, NextWhole
<1>3. ASSUME NEW w \in Worker, NEW s \in Service, Read(w, s)
      PROVE  NextOK /\ UNCHANGED <<credentials, expired>>
  BY <1>3, <1>t, NextWhole DEF Read
<1>4. ASSUME NEW w \in Worker, CopilotModels(w) \/ ModifyLoad(w)
      PROVE  NextOK /\ UNCHANGED <<credentials, expired>>
  <2>1. /\ step[w] \in Bound /\ next' = next /\ UNCHANGED <<credentials, expired>>
        /\ \A v \in Worker : v # w => step'[v] = step[v]
    BY <1>4, <1>t DEF CopilotModels, ModifyLoad, AuthTyped
  <2> QED
    BY <2>1 DEF WholeInv
<1>5. ASSUME NEW w \in Worker, ModifySave(w)
      PROVE  WholeInv'
  <2>1. credentials' = [credentials EXCEPT ![target[w]] = next[w]] /\ Backed(next[w])
    BY <1>5 DEF ModifySave, AuthInv, Locked, WholeInv
  <2>2. \A s \in Service : Backed(credentials'[s])
    BY <1>t, <2>1 DEF WholeInv, AuthTyped
  <2>3. NextOK
    BY <1>5, <1>t, <1>0, NextWhole DEF ModifySave, Idle
  <2>4. expired' = expired
    BY <1>5 DEF ModifySave
  <2> QED
    BY <2>2, <2>3, <2>4 DEF WholeInv
<1>6. ASSUME NEW s \in Service, Expire(s)
      PROVE  WholeInv'
  <2>1. credentials[s].access # 0
    BY <1>6 DEF Expire, WholeInv, Backed
  <2>2. /\ expired' = expired \cup {credentials[s].access}
        /\ UNCHANGED <<credentials, step, next>>
    BY <1>6 DEF Expire
  <2> QED
    BY <2>1, <2>2 DEF WholeInv
<1>7. CASE UNCHANGED authVars
  BY <1>7 DEF WholeInv, authVars
<1>8. ASSUME NextOK, UNCHANGED <<credentials, expired>> PROVE WholeInv'
  BY <1>8 DEF WholeInv
<1> HIDE DEF NextOK
<1> QED
  BY <1>1, <1>2, <1>3, <1>4, <1>5, <1>6, <1>7, <1>8 DEF AuthNext

\* The credential file has the shape its readers expect, only the process that
\* writes holds its lock, and only tokens that were issued are live or expired.
THEOREM AuthTypedAlways == AuthSpec => []AuthTypeOK
<1>1. AuthInit => WholeInv
  BY DEF AuthInit, WholeInv, Backed, NoCredential
<1>2. AuthInv /\ WholeInv /\ [AuthNext]_authVars => WholeInv'
  BY WholeStays
<1>3. AuthInv /\ WholeInv => AuthTypeOK
  BY AuthAssumption DEF AuthInv, AuthTyped, Locked, WholeInv, Token, AuthTypeOK
<1> QED
  BY <1>1, <1>2, <1>3, AuthInvariant, PTL DEF AuthSpec

-----------------------------------------------------------------------------
(***************************************************************************)
(* Proofs about Tools, for any number of editors, processes, lines, bytes  *)
(* and limits: what a limit cut off can still be had, and no edit of a     *)
(* process is lost.                                                        *)
(*                                                                         *)
(* Runs of consecutive numbers (Span) are what the read tool has shown,    *)
(* and the prefix, the tail and the spill file of the bash tool.  A page   *)
(* begins where the run so far ends; the prefix is all of the output until *)
(* it is full, and the spill file is begun with it.  An editor that is     *)
(* inside its lock is the only one of them that writes, so that            *)
(* what it has read is what it replaces.                                   *)
(***************************************************************************)

(* Tools: runs of consecutive numbers. *)

\* The numbers after a, up to b.
Span(a, b) == [i \in 1..(b - a) |-> a + i]

LEMMA SpanIs ==
  ASSUME NEW a \in Nat, NEW b \in Nat, a <= b
  PROVE  /\ Span(a, b) \in Seq(Nat) /\ Len(Span(a, b)) = b - a
         /\ \A i \in 1..(b - a) : Span(a, b)[i] = a + i
<1>1. b - a \in Nat
  BY SMT
<1>2. \A i \in 1..(b - a) : a + i \in Nat
  BY SMT
<1> QED
  BY <1>1, <1>2 DEF Span

LEMMA SpanJoined ==
  ASSUME NEW a \in Nat, NEW b \in Nat, NEW c \in Nat, a <= b, b <= c
  PROVE  Span(a, b) \o Span(b, c) = Span(a, c)
<1> DEFINE r == Span(a, b) \o Span(b, c)
<1>1. /\ Span(a, b) \in Seq(Nat) /\ Len(Span(a, b)) = b - a
      /\ \A i \in 1..(b - a) : Span(a, b)[i] = a + i
      /\ Span(b, c) \in Seq(Nat) /\ Len(Span(b, c)) = c - b
      /\ \A i \in 1..(c - b) : Span(b, c)[i] = b + i
      /\ Span(a, c) \in Seq(Nat) /\ Len(Span(a, c)) = c - a
      /\ \A i \in 1..(c - a) : Span(a, c)[i] = a + i
  <2>1. a <= c
    BY SMT
  <2> QED
    BY <2>1, SpanIs
<1>2. /\ r \in Seq(Nat) /\ Len(r) = c - a
      /\ \A i \in 1..(b - a) : r[i] = a + i
      /\ \A i \in 1..(c - b) : r[(b - a) + i] = b + i
  <2> DEFINE s == Span(a, b)
             t == Span(b, c)
  <2>1. s \in Seq(Nat) /\ t \in Seq(Nat) /\ Len(s) = b - a /\ Len(t) = c - b
    BY <1>1
  <2>2. /\ \A i \in 1..(b - a) : s[i] = a + i
        /\ \A i \in 1..(c - b) : t[i] = b + i
    BY <1>1
  <2> HIDE DEF s, t
  <2>3. /\ s \o t \in Seq(Nat) /\ Len(s \o t) = Len(s) + Len(t)
        /\ \A i \in 1..Len(s) : (s \o t)[i] = s[i]
        /\ \A i \in 1..Len(t) : (s \o t)[Len(s) + i] = t[i]
    <3>1. s \in Seq(Nat) /\ t \in Seq(Nat)
      BY <2>1
    <3>2. s \o t \in Seq(Nat) /\ Len(s \o t) = Len(s) + Len(t)
      BY <3>1
    <3>3. \A i \in 1..(Len(s) + Len(t)) :
            (s \o t)[i] = IF i <= Len(s) THEN s[i] ELSE t[i - Len(s)]
      BY <3>1
    <3>4. Len(s) \in Nat /\ Len(t) \in Nat
      BY <3>1
    <3> QED
      BY <3>2, <3>3, <3>4, SMTT(30)
  <2>4. /\ s \o t \in Seq(Nat) /\ Len(s \o t) = c - a
        /\ \A i \in 1..(b - a) : (s \o t)[i] = a + i
        /\ \A i \in 1..(c - b) : (s \o t)[(b - a) + i] = b + i
    BY <2>1, <2>2, <2>3, SMTT(30)
  <2> QED
    BY <2>4 DEF r, s, t
<1> HIDE DEF r
<1>3. ASSUME NEW i \in 1..(c - a) PROVE r[i] = a + i
  <2>1. CASE i <= b - a
    BY <1>2, <2>1
  <2>2. CASE ~ (i <= b - a)
    <3>1. i - (b - a) \in 1..(c - b) /\ (b - a) + (i - (b - a)) = i
      BY <2>2
    <3>2. r[(b - a) + (i - (b - a))] = b + (i - (b - a))
      BY <1>2, <3>1
    <3> QED
      BY <3>1, <3>2
  <2> QED
    BY <2>1, <2>2
<1>4. r = Span(a, c)
  <2>1. /\ Len(r) = Len(Span(a, c))
        /\ \A i \in 1..Len(r) : r[i] = Span(a, c)[i]
    BY <1>1, <1>2, <1>3
  <2> QED
    BY <1>1, <1>2, <2>1
<1> QED
  BY <1>4 DEF r

LEMMA SpanCut ==
  ASSUME NEW a \in Nat, NEW b \in Nat, NEW from \in Nat \ {0}, NEW k \in Nat,
         from <= k + 1, a + k <= b
  PROVE  SubSeq(Span(a, b), from, k) = Span(a + (from - 1), a + k)
<1> DEFINE m == from - 1
           s == Span(a, b)
           low == a + m
           high == a + k
           t == Span(low, high)
           r == SubSeq(s, from, k)
<1>1. m \in Nat /\ from = m + 1 /\ low \in Nat /\ high \in Nat /\ low <= high /\ high - low = k - m /\ a <= b /\ k <= b - a
  BY SMT
<1>2. /\ s \in Seq(Nat) /\ Len(s) = b - a
      /\ \A i \in 1..(b - a) : s[i] = a + i
  BY <1>1, SpanIs
<1>3. /\ t \in Seq(Nat) /\ Len(t) = k - m
      /\ \A i \in 1..(k - m) : t[i] = low + i
  <2> HIDE DEF low, high
  <2>1. /\ t \in Seq(Nat) /\ Len(t) = high - low
        /\ \A i \in 1..(high - low) : t[i] = low + i
    BY <1>1, SpanIs
  <2> QED
    BY <1>1, <2>1
<1> HIDE DEF s, t
<1>4. /\ r \in Seq(Nat) /\ Len(r) = k - m
      /\ \A i \in 1..(k - m) : r[i] = s[m + i]
  BY <1>1, <1>2
<1>5. \A i \in 1..(k - m) : m + i \in 1..(b - a) /\ a + (m + i) = low + i
  BY SMT
<1>6. \A i \in 1..(k - m) : r[i] = t[i]
  BY <1>2, <1>3, <1>4, <1>5
<1> HIDE DEF r
<1>7. r = t
  BY <1>3, <1>4, <1>6
<1> QED
  BY <1>7 DEF r, s, t, low, high, m

LEMMA SpanIdentity ==
  ASSUME NEW n \in Nat
  PROVE  Span(0, n) = [i \in 1..n |-> i]
  BY DEF Span

LEMMA SpanOn ==
  ASSUME NEW b \in Nat, NEW c \in Nat, b <= c
  PROVE  Span(0, b) \o Span(b, c) = Span(0, c)
<1>1. 0 \in Nat /\ 0 <= b
  OBVIOUS
<1> QED
  BY <1>1, SpanJoined

LEMMA SpanEmpty ==
  ASSUME NEW a \in Nat
  PROVE  Span(a, a) = <<>>
  BY SpanIs

LEMMA LastOfSpan ==
  ASSUME NEW a \in Nat, NEW b \in Nat, a <= b, NEW n \in Nat
  PROVE  LastOf(Span(a, b), n) = Span(IF b - a > n THEN b - n ELSE a, b)
<1>1. Len(Span(a, b)) = b - a
  BY SpanIs
<1>2. CASE b - a > n
  <2> DEFINE from == ((b - a) - n) + 1
             k == b - a
             low == b - n
  <2>1. from \in Nat \ {0} /\ k \in Nat /\ from <= k + 1 /\ a + k <= b
    BY <1>2
  <2>2. low = a + (from - 1) /\ b = a + k
    BY <1>2
  <2>3. SubSeq(Span(a, b), from, k) = Span(low, b)
    <3> HIDE DEF from, k, low
    <3>1. SubSeq(Span(a, b), from, k) = Span(a + (from - 1), a + k)
      BY <2>1, SpanCut, ZenonT(40)
    <3> QED
      BY <2>2, <3>1
  <2> QED
    BY <1>1, <1>2, <2>3 DEF LastOf
<1>3. CASE ~ (b - a > n)
  <2> DEFINE k == b - a
  <2>1. 1 \in Nat \ {0} /\ k \in Nat /\ 1 <= k + 1 /\ a + k <= b
    BY SMT
  <2>2. a = a + (1 - 1) /\ b = a + k
    BY SMT
  <2>3. SubSeq(Span(a, b), 1, k) = Span(a, b)
    <3> HIDE DEF k
    <3>1. SubSeq(Span(a, b), 1, k) = Span(a + (1 - 1), a + k)
      BY <2>1, SpanCut, ZenonT(40)
    <3> QED
      BY <2>2, <3>1
  <2> QED
    BY <1>1, <1>3, <2>3 DEF LastOf
<1> QED
  BY <1>2, <1>3

LEMMA MinOfTwo ==
  ASSUME NEW a \in Nat, NEW b \in Nat
  PROVE  Min({a, b}) = IF a <= b THEN a ELSE b
<1>1. Min({a, b}) \in {a, b} /\ \A x \in {a, b} : Min({a, b}) <= x
  BY MinIs
<1> QED
  BY <1>1

-----------------------------------------------------------------------------
(* Tools: the output of a command. *)

Shorter(a, b) == IF a <= b THEN a ELSE b

Captured ==
  /\ total \in Nat
  /\ prefix = Span(0, Shorter(total, SpillBytes))
  /\ tail = LastOf(Span(0, total), TailBytes)
  /\ spillFailed \in BOOLEAN
  /\ ~ spillFailed => spill = IF total > SpillBytes THEN Span(0, total) ELSE NoSpill

LEMMA SpansAreNoSpill ==
  ASSUME NEW n \in Nat, n > 0
  PROVE  Span(0, n) # NoSpill
<1>1. Span(0, n)[1] = 1
  BY DEF Span
<1> QED
  BY <1>1 DEF NoSpill

LEMMA Wholes ==
  ASSUME NEW s \in Seq(Nat)
  PROVE  SubSeq(s, 1, Len(s)) = s /\ <<>> \o s = s /\ s \o <<>> = s
<1>1. SubSeq(s, 1, Len(s)) \in Seq(Nat) /\ Len(SubSeq(s, 1, Len(s))) = Len(s)
        /\ \A i \in 1 .. Len(s) : SubSeq(s, 1, Len(s))[i] = s[i]
  OBVIOUS
<1>2. SubSeq(s, 1, Len(s)) = s
  BY <1>1
<1> QED
  BY <1>2

LEMMA CaptureWriteKeeps ==
  ASSUME Captured, NEW n \in 1..MaxOutput, NEW opened \in BOOLEAN, NEW headKept \in Nat,
         NEW restKept \in Nat, CaptureWrite(n, opened, headKept, restKept)
  PROVE  Captured'
<1> DEFINE p == [i \in 1 .. n |-> total + i]
           room == Min({SpillBytes - Len(prefix), n})
           due == spill = NoSpill /\ total + n > SpillBytes
           rest == RestOf(p)
           head == IF due THEN prefix' ELSE <<>>
           begun == IF due THEN <<>> ELSE spill
           end == total + n
           S == SpillBytes
<1>1. /\ total' = end
      /\ prefix' = prefix \o SubSeq(p, 1, room)
      /\ tail' = LastOf(tail \o p, TailBytes)
  BY DEF CaptureWrite
<1>s. IF spill = NoSpill /\ ~(due /\ opened)
      THEN spill' = NoSpill /\ spillFailed' = (spillFailed \/ due)
      ELSE /\ spill' = begun \o SubSeq(head, 1, headKept) \o SubSeq(rest, 1, restKept)
           /\ spillFailed' = (spillFailed \/ ~(headKept = Len(head) /\ restKept = Len(rest)))
  BY DEF CaptureWrite
<1>2. S \in Nat \ {0} /\ TailBytes \in Nat /\ n \in Nat \ {0} /\ total \in Nat /\ end \in Nat
  BY ToolsAssumption DEF Captured
<1>3. p = Span(total, end)
  <2>1. end - total = n
    BY <1>2
  <2> QED
    BY <2>1 DEF Span
<1> HIDE DEF p
<1>4. SubSeq(p, 1, room) = Span(Shorter(total, S), Shorter(end, S))
  <2>1. Len(prefix) = Shorter(total, S)
    <3> DEFINE have == Shorter(total, S)
    <3>1. have \in Nat
      BY <1>2 DEF Shorter
    <3>2. prefix = Span(0, have)
      BY DEF Captured
    <3> HIDE DEF have
    <3>3. Len(Span(0, have)) = have
      <4>1. 0 \in Nat /\ 0 <= have /\ have - 0 = have
        BY <3>1
      <4> QED
        BY <3>1, <4>1, SpanIs
    <3> QED
      BY <3>2, <3>3 DEF have
  <2>2. S - Len(prefix) \in Nat
    BY <1>2, <2>1 DEF Shorter
  <2>3. room = Shorter(S - Len(prefix), n)
    BY <1>2, <2>2, MinOfTwo DEF Shorter
  <2> HIDE DEF room
  <2>4. room \in Nat /\ 0 <= room /\ total + room <= end
    BY <1>2, <2>2, <2>3 DEF Shorter
  <2>5. SubSeq(p, 1, room) = Span(total, total + room)
    <3> DEFINE high == total + room
    <3>1. /\ 1 \in Nat \ {0} /\ 1 <= room + 1
          /\ total \in Nat /\ end \in Nat /\ room \in Nat /\ total + room <= end
      BY <1>2, <2>4
    <3>2. total = total + (1 - 1) /\ high = total + room
      BY <1>2, <2>4
    <3>3. SubSeq(Span(total, end), 1, room) = Span(total, high)
      <4> HIDE DEF end, high
      <4>1. SubSeq(Span(total, end), 1, room) = Span(total + (1 - 1), total + room)
        BY <3>1, SpanCut, ZenonT(60)
      <4> QED
        BY <3>2, <4>1
    <3> QED
      BY <1>3, <3>3
  <2>6. CASE total <= S
    <3>1. Shorter(total, S) = total /\ Shorter(end, S) = total + room
      BY <1>2, <2>1, <2>3, <2>6 DEF Shorter
    <3> QED
      BY <2>5, <3>1
  <2>7. CASE ~ (total <= S)
    <3>1. Shorter(total, S) = S /\ Shorter(end, S) = S /\ room = 0
      BY <1>2, <2>1, <2>3, <2>7 DEF Shorter
    <3>2. total + room = total
      BY <1>2, <3>1
    <3>3. Span(total, total) = <<>> /\ Span(S, S) = <<>>
      BY <1>2, SpanEmpty
    <3> QED
      BY <2>5, <3>1, <3>2, <3>3
  <2> QED
    BY <2>6, <2>7
<1> HIDE DEF room
<1>5. prefix' = Span(0, Shorter(end, S))
  <2> DEFINE low == Shorter(total, S)
             high == Shorter(end, S)
  <2>1. 0 \in Nat /\ low \in Nat /\ high \in Nat /\ 0 <= low /\ low <= high
    BY <1>2 DEF Shorter
  <2>2. prefix = Span(0, low) /\ SubSeq(p, 1, room) = Span(low, high)
    BY <1>4 DEF Captured
  <2> HIDE DEF low, high
  <2>3. Span(0, low) \o Span(low, high) = Span(0, high)
    BY <2>1, SpanJoined
  <2> QED
    BY <1>1, <2>2, <2>3 DEF high
<1>6. tail' = LastOf(Span(0, end), TailBytes)
  <2> DEFINE from == IF total > TailBytes THEN total - TailBytes ELSE 0
  <2>1. tail = Span(from, total)
    <3>1. total - 0 = total
      BY <1>2
    <3>2. LastOf(Span(0, total), TailBytes) = Span(IF total - 0 > TailBytes THEN total - TailBytes ELSE 0, total)
      BY <1>2, LastOfSpan
    <3> QED
      BY <3>1, <3>2 DEF Captured
  <2>2. from \in Nat /\ from <= total /\ total <= end /\ from <= end
    BY <1>2
  <2>3. (IF end - from > TailBytes THEN end - TailBytes ELSE from)
          = (IF end - 0 > TailBytes THEN end - TailBytes ELSE 0)
    BY <1>2
  <2> HIDE DEF from, end
  <2>4. tail \o p = Span(from, end)
    BY <1>2, <1>3, <2>1, <2>2, SpanJoined
  <2>5. LastOf(Span(from, end), TailBytes) = Span(IF end - from > TailBytes THEN end - TailBytes ELSE from, end)
    BY <1>2, <2>2, LastOfSpan
  <2>6. LastOf(Span(0, end), TailBytes) = Span(IF end - 0 > TailBytes THEN end - TailBytes ELSE 0, end)
    BY <1>2, LastOfSpan
  <2> QED
    BY <1>1, <2>3, <2>4, <2>5, <2>6
<1>r. RestOf(p) = Span(IF total >= S THEN total ELSE Shorter(S, end), end)
  <2>1. Len(p) = n
    <3>1. total \in Nat /\ end \in Nat /\ total <= end /\ end - total = n
      BY <1>2
    <3> HIDE DEF end
    <3>2. Len(Span(total, end)) = end - total
      BY <3>1, SpanIs
    <3> QED
      BY <1>3, <3>1, <3>2
  <2> DEFINE start == IF total >= S THEN 0 ELSE Min({S - total, n})
  <2>2. start = IF total >= S THEN 0 ELSE Shorter(S - total, n)
    <3>1. CASE total >= S
      BY <3>1
    <3>2. CASE ~ (total >= S)
      <4>1. S - total \in Nat
        BY <1>2, <3>2
      <4> QED
        BY <1>2, <3>2, <4>1, MinOfTwo DEF Shorter
    <3> QED
      BY <3>1, <3>2
  <2>3. RestOf(p) = SubSeq(p, start + 1, n)
    BY <2>1 DEF RestOf
  <2> HIDE DEF start
  <2>4. start \in Nat /\ start <= n /\ total + n <= end
    BY <1>2, <2>2 DEF Shorter
  <2>5. SubSeq(Span(total, end), start + 1, n) = Span(total + start, end)
    <3> DEFINE from == start + 1
               low == total + start
    <3>1. /\ from \in Nat \ {0} /\ from <= n + 1
          /\ total \in Nat /\ end \in Nat /\ n \in Nat /\ total + n <= end
      BY <1>2, <2>4
    <3>2. low = total + (from - 1) /\ end = total + n
      BY <1>2, <2>4
    <3>3. SubSeq(Span(total, end), from, n) = Span(low, end)
      <4> HIDE DEF from, low, end
      <4>1. SubSeq(Span(total, end), from, n) = Span(total + (from - 1), total + n)
        BY <3>1, SpanCut, ZenonT(60)
      <4> QED
        BY <3>2, <4>1
    <3> QED
      BY <3>3
  <2>6. total + start = IF total >= S THEN total ELSE Shorter(S, end)
    BY <1>2, <2>2 DEF Shorter
  <2> QED
    BY <1>3, <2>3, <2>5, <2>6
<1>t. rest \in Seq(Nat)
  <2>1. /\ (IF total >= S THEN total ELSE Shorter(S, end)) \in Nat
        /\ (IF total >= S THEN total ELSE Shorter(S, end)) <= end
    BY <1>2 DEF Shorter
  <2> HIDE DEF end, p
  <2>2. Span(IF total >= S THEN total ELSE Shorter(S, end), end) \in Seq(Nat)
    BY <1>2, <2>1, SpanIs
  <2> QED
    BY <1>r, <2>2
<1> HIDE DEF rest
<1>7. ASSUME ~ spillFailed'
      PROVE  spill' = IF end > S THEN Span(0, end) ELSE NoSpill
  <2>1. /\ ~ spillFailed
        /\ spill = NoSpill /\ ~ due => spill' = NoSpill
        /\ spill = NoSpill /\ due => opened
        /\ due \/ spill # NoSpill =>
             spill' = begun \o SubSeq(head, 1, Len(head)) \o SubSeq(rest, 1, Len(rest))
    <3> HIDE DEF head, begun
    <3> QED
      BY <1>s, <1>7
  <2>2. spill = IF total > S THEN Span(0, total) ELSE NoSpill
    BY <2>1 DEF Captured
  <2>3. SubSeq(rest, 1, Len(rest)) = rest
    BY <1>t, Wholes
  <2>4. CASE total > S
    <3>1. spill = Span(0, total) /\ spill # NoSpill
      BY <1>2, <2>2, <2>4, SpansAreNoSpill
    <3>2. rest = Span(total, end)
      BY <1>2, <1>r, <2>4 DEF rest
    <3>3. Span(0, total) \in Seq(Nat) /\ Span(0, total) \o Span(total, end) = Span(0, end)
      <4>1. total <= end /\ 0 <= total
        BY <1>2
      <4> HIDE DEF end
      <4> QED
        BY <1>2, <4>1, SpanOn, SpanIs
    <3>4. head = <<>> /\ begun = spill
      BY <3>1
    <3>5. spill' = (spill \o SubSeq(<<>>, 1, 0)) \o rest
      <4>1. Len(<<>>) = 0
        OBVIOUS
      <4> HIDE DEF head, begun, due
      <4> QED
        BY <2>1, <2>3, <3>1, <3>4, <4>1
    <3>6. SubSeq(<<>>, 1, 0) = <<>>
      OBVIOUS
    <3>7. end > S
      BY <1>2, <2>4
    <3> QED
      BY <3>1, <3>2, <3>3, <3>5, <3>6, <3>7, Wholes
  <2>5. CASE ~ (total > S) /\ end > S
    <3>1. spill = NoSpill /\ due
      BY <2>2, <2>5
    <3>2. prefix' = Span(0, S)
      BY <1>2, <1>5, <2>5 DEF Shorter
    <3>3. rest = Span(S, end)
      BY <1>2, <1>r, <2>5 DEF Shorter, rest
    <3>4. Span(0, S) \in Seq(Nat) /\ Span(0, S) \o Span(S, end) = Span(0, end)
      <4>1. S <= end /\ 0 <= S
        BY <1>2, <2>5
      <4> HIDE DEF end, S
      <4> QED
        BY <1>2, <4>1, SpanOn, SpanIs
    <3>5. head = prefix' /\ begun = <<>>
      BY <3>1
    <3>6. spill' = (<<>> \o SubSeq(prefix', 1, Len(prefix'))) \o rest
      <4> HIDE DEF head, begun, due
      <4> QED
        BY <2>1, <2>3, <3>1, <3>5
    <3> QED
      BY <2>5, <3>2, <3>3, <3>4, <3>6, Wholes
  <2>6. CASE ~ (total > S) /\ ~ (end > S)
    <3>1. spill = NoSpill /\ ~ due
      BY <2>2, <2>6
    <3> QED
      BY <2>1, <2>6, <3>1
  <2> QED
    BY <2>4, <2>5, <2>6
<1>8. spillFailed' \in BOOLEAN
  <2> HIDE DEF head, begun
  <2> QED
    BY <1>s DEF Captured
<1> QED
  BY <1>1, <1>2, <1>5, <1>6, <1>7, <1>8 DEF Captured

LEMMA CapturedStarts == ToolsInit => Captured
<1> SUFFICES ASSUME ToolsInit PROVE Captured
  OBVIOUS
<1>1. /\ total = 0 /\ prefix = <<>> /\ tail = <<>> /\ spill = NoSpill /\ spillFailed = FALSE
  BY DEF ToolsInit
<1>2. SpillBytes \in Nat \ {0} /\ TailBytes \in Nat
  BY ToolsAssumption
<1>3. Shorter(0, SpillBytes) = 0 /\ Span(0, 0) = <<>> /\ ~ (0 > SpillBytes)
  BY <1>2, SpanEmpty DEF Shorter
<1>4. LastOf(Span(0, 0), TailBytes) = <<>>
  <2>1. LastOf(<<>>, TailBytes) = SubSeq(<<>>, 0 + 1, 0)
    BY <1>2 DEF LastOf
  <2> QED
    BY <1>3, <2>1
<1> QED
  BY <1>1, <1>3, <1>4 DEF Captured

LEMMA BashKeeps ==
  ASSUME Captured, BashNext PROVE Captured'
<1>1. CASE CommandEnds
  BY <1>1 DEF CommandEnds, Captured
<1>2. CASE \E n \in 1..MaxOutput, opened \in BOOLEAN,
               headKept \in 0..SpillBytes, restKept \in 0..MaxOutput :
             CaptureWrite(n, opened, headKept, restKept)
  BY <1>2, CaptureWriteKeeps, ToolsAssumption
<1> QED
  BY <1>1, <1>2 DEF BashNext

-----------------------------------------------------------------------------
(* Tools: the pages of a file. *)

Pages ==
  /\ shown = Span(0, offset - 1) /\ offset \in Nat \ {0}
  /\ notice # "beyond the end"
  /\ notice = "end" => offset - 1 = Len(lineLengths)
  /\ job = "read" => lineLengths \in Seq(LineLengths)
  /\ job = "read" /\ notice = "more" => offset <= Len(lineLengths)

\* A path that was found as it was given.
Paged == resolved \in BOOLEAN /\ (resolved = FALSE => Pages)

LEMMA KeptIs ==
  ASSUME NEW page, Len(page) \in Nat
  PROVE  Kept(page) \in Nat /\ Kept(page) <= Len(page)
<1> DEFINE full == Min({Len(page), MaxReadLines})
           fitting == {0} \cup {k \in 1 .. full : Bytes(SubSeq(page, 1, k)) <= MaxReadBytes}
<1>1. full \in Nat /\ full <= Len(page)
  <2>1. MaxReadLines \in Nat
    BY ToolsAssumption
  <2> QED
    BY <2>1, MinOfTwo
<1> HIDE DEF full
<1>2. fitting \in SUBSET Nat /\ fitting # {} /\ \A x \in fitting : x <= full
  <2>1. 1 .. full \subseteq Nat /\ \A x \in 1 .. full : x <= full
    BY <1>1
  <2> QED
    BY <1>1, <2>1
<1>3. fitting \subseteq 0 .. full
  BY <1>1
<1> HIDE DEF fitting
<1>4. Max(fitting) \in fitting
  BY <1>1, <1>2, MaxIs
<1>5. Max(fitting) \in Nat /\ Max(fitting) <= Len(page)
  <2>1. Max(fitting) \in 0 .. full
    BY <1>3, <1>4
  <2> DEFINE m == Max(fitting)
  <2> HIDE DEF m
  <2>2. m \in Nat /\ m <= Len(page)
    BY <1>1, <2>1 DEF m
  <2> QED
    BY <2>2 DEF m
<1>6. Kept(page) = IF page = <<>> THEN 0 ELSE Max(fitting)
  BY DEF Kept, fitting, full
<1> QED
  BY <1>5, <1>6

LEMMA ReadToolKeeps ==
  ASSUME Paged, job = "read", job' = job, NEW limit \in 0 .. 2, ReadTool(limit)
  PROVE  Paged'
<1> DEFINE n == Len(lineLengths)
           to == IF limit = 0 THEN n ELSE Min({offset + limit - 1, n})
           page == SubSeq(lineLengths, offset, to)
           kept == Kept(page)
<1>0. resolved' = resolved
  BY DEF ReadTool
<1> SUFFICES ASSUME resolved = FALSE PROVE Pages'
  BY <1>0 DEF Paged
<1>1. /\ notice = "more"
      /\ IF offset > n THEN notice' = "beyond the end" /\ UNCHANGED <<offset, shown>>
         ELSE IF page[1] > MaxReadBytes THEN notice' = "line too long" /\ UNCHANGED <<offset, shown>>
         ELSE /\ shown' = shown \o [i \in 1 .. kept |-> offset + i - 1]
              /\ offset' = IF kept < Len(page) THEN ContinueAt(offset, kept) ELSE to + 1
              /\ notice' = IF kept < Len(page) \/ to < n THEN "more" ELSE "end"
      /\ lineLengths' = lineLengths
  BY DEF ReadTool
<1>2. Pages
  BY DEF Paged
<1>3. /\ shown = Span(0, offset - 1) /\ offset \in Nat \ {0}
      /\ lineLengths \in Seq(LineLengths) /\ n \in Nat /\ offset <= n
  <2>1. /\ shown = Span(0, offset - 1) /\ offset \in Nat \ {0}
        /\ lineLengths \in Seq(LineLengths) /\ offset <= Len(lineLengths)
    BY <1>1, <1>2, Zenon DEF Pages
  <2>2. Len(lineLengths) \in Nat
    BY <2>1
  <2> QED
    BY <2>1, <2>2
<1>4. ~ (offset > n)
  BY <1>3
<1> HIDE DEF n, to, page, kept
<1>5. CASE page[1] > MaxReadBytes
  <2>1. notice' = "line too long" /\ offset' = offset /\ shown' = shown
    BY <1>1, <1>5, <1>4, Zenon
  <2> QED
    BY <1>1, <1>3, <2>1 DEF Pages, n
<1>6. CASE ~ (page[1] > MaxReadBytes)
  <2>1. /\ shown' = shown \o [i \in 1 .. kept |-> offset + i - 1]
        /\ offset' = IF kept < Len(page) THEN ContinueAt(offset, kept) ELSE to + 1
        /\ notice' = IF kept < Len(page) \/ to < n THEN "more" ELSE "end"
    BY <1>1, <1>6, <1>4, Zenon
  <2>2. to \in Nat /\ offset <= to /\ to <= n
    <3>1. CASE limit = 0
      BY <1>3, <3>1 DEF to
    <3>2. CASE limit # 0
      <4>1. offset + limit - 1 \in Nat /\ offset <= offset + limit - 1
        BY <1>3, <3>2
      <4>2. to = IF offset + limit - 1 <= n THEN offset + limit - 1 ELSE n
        <5> DEFINE asked == offset + limit - 1
        <5>1. asked \in Nat
          BY <4>1
        <5> HIDE DEF asked
        <5>2. Min({asked, n}) = IF asked <= n THEN asked ELSE n
          BY <1>3, <5>1, MinOfTwo
        <5> QED
          BY <3>2, <5>2 DEF asked, to
      <4> QED
        BY <1>3, <4>1, <4>2
    <3> QED
      BY <3>1, <3>2
  <2>3. Len(page) = to - offset + 1
    BY <1>3, <2>2 DEF page, n
  <2>4. kept \in Nat /\ kept <= Len(page)
    <3>1. Len(page) \in Nat
      BY <1>3, <2>2, <2>3
    <3> QED
      BY <3>1, KeptIs DEF kept
  <2> DEFINE last == offset - 1 + kept
  <2>5. offset' = last + 1 /\ last \in Nat
    <3>1. CASE kept < Len(page)
      BY <1>3, <2>1, <2>4, <3>1 DEF ContinueAt
    <3>2. CASE ~ (kept < Len(page))
      <4>1. kept = to - offset + 1
        BY <1>3, <2>2, <2>3, <2>4, <3>2
      <4> QED
        BY <1>3, <2>1, <2>2, <2>4, <3>2, <4>1
    <3> QED
      BY <3>1, <3>2
  <2>6. shown' = Span(0, last)
    <3>1. [i \in 1 .. kept |-> offset + i - 1] = Span(offset - 1, last)
      <4>1. last - (offset - 1) = kept /\ \A i \in 1 .. kept : offset + i - 1 = (offset - 1) + i
        BY <1>3, <2>4
      <4> QED
        BY <4>1 DEF Span
    <3> DEFINE before == offset - 1
    <3>2. before \in Nat /\ before <= last
      BY <1>3, <2>4
    <3>3. shown = Span(0, before) /\ shown' = shown \o Span(before, last)
      BY <1>3, <2>1, <3>1
    <3> HIDE DEF before, last
    <3> QED
      BY <2>5, <3>2, <3>3, SpanOn
  <2>7. notice' = "more" => offset' <= n
    BY <1>3, <2>1, <2>2, <2>3, <2>4, <2>5
  <2>8. notice' = "end" => last = n
    BY <1>3, <2>1, <2>2, <2>3, <2>4
  <2>9. notice' \in {"more", "end"}
    BY <2>1
  <2>10. offset' - 1 = last /\ offset' \in Nat \ {0}
    BY <2>5
  <2> HIDE DEF last
  <2> QED
    BY <1>1, <1>3, <2>6, <2>7, <2>8, <2>9, <2>10 DEF Pages, n
<1> QED
  BY <1>5, <1>6

LEMMA PagedStarts == ToolsInit => Paged
<1> SUFFICES ASSUME ToolsInit PROVE Paged
  OBVIOUS
<1>1. offset = 1 /\ shown = <<>> /\ notice = "more"
  BY DEF ToolsInit
<1>2. Span(0, 1 - 1) = <<>>
  BY SpanEmpty
<1>3. job = "read" => lineLengths \in Seq(LineLengths) /\ offset <= Len(lineLengths)
  <2> SUFFICES ASSUME job = "read"
               PROVE  lineLengths \in Seq(LineLengths) /\ 1 <= Len(lineLengths)
    BY <1>1
  <2>1. lineLengths \in SeqOf(LineLengths, MaxFileLines) \ {<<>>}
    BY DEF ToolsInit
  <2>2. PICK m \in 0 .. MaxFileLines : lineLengths \in [1 .. m -> LineLengths]
    BY <2>1 DEF SeqOf
  <2>3. lineLengths \in Seq(LineLengths) /\ lineLengths # <<>>
    BY <2>1, <2>2, ToolsAssumption
  <2>4. Len(lineLengths) \in Nat /\ Len(lineLengths) # 0
    BY <2>3
  <2> QED
    BY <2>3, <2>4
<1>4. resolved \in BOOLEAN
  BY DEF ToolsInit
<1> QED
  BY <1>1, <1>2, <1>3, <1>4 DEF Paged, Pages

(* What the read tool has shown is the beginning of the file, and all of it  *)
(* when its notice says so, whatever the lengths of the lines and the limits *)
(* of the calls are; what a command has written is in the spill file, and    *)
(* the end of it in the tail (read.go, bash.go).                             *)
THEOREM ToolsOutputComplete == ToolsSpec => []OutputComplete
<1> DEFINE Inv == Captured /\ Paged
<1>1. ToolsInit => Inv
  BY CapturedStarts, PagedStarts
<1>2. Inv /\ [ToolsNext]_toolVars => Inv'
  <2> SUFFICES ASSUME Captured, Paged, [ToolsNext]_toolVars PROVE Captured' /\ Paged'
    OBVIOUS
  <2>1. UNCHANGED bashVars => Captured'
    BY DEF bashVars, Captured
  <2>2. UNCHANGED <<job, readVars>> => Paged'
    BY DEF readVars, Paged, Pages
  <2>3. CASE job = "bash" /\ BashNext /\ UNCHANGED <<job, editVars, readVars>>
    BY <2>2, <2>3, BashKeeps
  <2>4. CASE job = "read" /\ ReadNext /\ UNCHANGED <<job, editVars, bashVars>>
    BY <2>1, <2>4, ReadToolKeeps DEF ReadNext
  <2>5. CASE job = "edit" /\ EditNext /\ UNCHANGED <<job, readVars, bashVars>>
    BY <2>1, <2>2, <2>5
  <2>6. CASE UNCHANGED toolVars
    BY <2>1, <2>2, <2>6 DEF toolVars
  <2> QED
    BY <2>3, <2>4, <2>5, <2>6 DEF ToolsNext
<1>3. Inv => OutputComplete
  <2> SUFFICES ASSUME Captured, Paged PROVE OutputComplete
    OBVIOUS
  <2>1. total \in Nat /\ Span(0, total) = [i \in 1 .. total |-> i]
    BY SpanIdentity DEF Captured
  <2>2. ASSUME ~ resolved PROVE shown = [i \in 1 .. Len(shown) |-> i] /\ Len(shown) = offset - 1
    <3> DEFINE last == offset - 1
    <3>1. last \in Nat /\ shown = Span(0, last)
      <4>1. Pages
        BY <2>2 DEF Paged
      <4>2. shown = Span(0, offset - 1) /\ offset \in Nat \ {0}
        BY <4>1, Zenon DEF Pages
      <4>3. offset - 1 \in Nat
        BY <4>2
      <4> QED
        BY <4>2, <4>3
    <3> HIDE DEF last
    <3>2. Len(Span(0, last)) = last - 0 /\ last - 0 = last
      <4>1. 0 \in Nat /\ 0 <= last
        BY <3>1
      <4> QED
        BY <3>1, <4>1, SpanIs
    <3> QED
      BY <3>1, <3>2, SpanIdentity DEF last
  <2>3. ~ resolved => (notice = "end" => Len(shown) = Len(lineLengths)) /\ notice # "beyond the end"
    <3> SUFFICES ASSUME ~ resolved
                 PROVE  (notice = "end" => Len(shown) = Len(lineLengths)) /\ notice # "beyond the end"
      OBVIOUS
    <3>1. Pages
      BY DEF Paged
    <3> QED
      BY <2>2, <3>1 DEF Pages
  <2> QED
    BY <2>1, <2>2, <2>3 DEF OutputComplete, Captured
<1> QED
  BY <1>1, <1>2, <1>3, PTL DEF ToolsSpec

-----------------------------------------------------------------------------
(* What an edit computes. *)

Change == [old : Seq(Letter), new : Seq(Letter)]
Begin(s, list, i) == IndexOf(s, list[i].old)

\* Regions of the text that do not meet, and none of them empty.
RegionsFit(s, list) ==
  /\ \A i \in DOMAIN list :
       /\ Begin(s, list, i) \in 1 .. Len(s)
       /\ Len(list[i].old) \in Nat \ {0}
       /\ Begin(s, list, i) + Len(list[i].old) <= Len(s) + 1
  /\ \A i, j \in DOMAIN list : i # j =>
       \/ Begin(s, list, i) + Len(list[i].old) <= Begin(s, list, j)
       \/ Begin(s, list, j) + Len(list[j].old) <= Begin(s, list, i)

IsCount(s, t, f) ==
  f = [i \in 1 .. Len(s) + 1 |->
        IF i + Len(t) - 1 > Len(s) THEN 0
        ELSE IF i \in Matches(s, t) THEN 1 + f[i + Len(t)] ELSE f[i + 1]]

\* What is not in the text is not counted.
LEMMA NoMatchNoCount ==
  ASSUME NEW s \in Seq(Letter), NEW t \in Seq(Letter), t # <<>>, Matches(s, t) = {}
  PROVE  CountOf(s, t) = 0
<1> DEFINE c == CHOOSE f : IsCount(s, t, f)
           zero == [i \in 1 .. Len(s) + 1 |-> 0]
<1>1. Len(s) \in Nat /\ Len(t) \in Nat /\ Len(t) # 0
  BY SMT
<1>2. IsCount(s, t, zero)
  BY <1>1 DEF IsCount
<1>3. IsCount(s, t, c)
  BY <1>2
<1>4. CountOf(s, t) = c[1]
  BY DEF CountOf, IsCount
<1> HIDE DEF c, zero
<1>5. ASSUME NEW i \in 1 .. Len(s) + 1
      PROVE  c[i] = IF i + Len(t) - 1 > Len(s) THEN 0 ELSE c[i + 1]
  BY <1>3 DEF IsCount
<1> DEFINE Bad == {n \in Nat : n <= Len(s) /\ c[Len(s) + 1 - n] # 0}
<1>6. Bad = {}
  <2> SUFFICES ASSUME Bad # {} PROVE FALSE
    OBVIOUS
  <2>1. PICK n \in Bad : \A k \in Bad : n <= k
    <3>1. Bad \in SUBSET Nat
      OBVIOUS
    <3> QED
      BY <3>1, MinExists
  <2>2. n \in Nat /\ n <= Len(s) /\ c[Len(s) + 1 - n] # 0
    BY <2>1
  <2>3. Len(s) + 1 - n \in 1 .. Len(s) + 1
    BY <1>1, <2>2
  <2>4. n # 0
    <3>1. Len(s) + 1 + Len(t) - 1 > Len(s) /\ Len(s) + 1 \in 1 .. Len(s) + 1
      BY <1>1
    <3>2. c[Len(s) + 1] = 0
      BY <1>5, <3>1
    <3> QED
      BY <1>1, <2>2, <3>2
  <2>5. n - 1 \in Nat /\ n - 1 <= Len(s) /\ Len(s) + 1 - (n - 1) = Len(s) + 1 - n + 1 /\ ~ (n <= n - 1)
    BY <1>1, <2>2, <2>4
  <2>6. c[Len(s) + 1 - n + 1] = 0
    BY <2>1, <2>5
  <2> QED
    BY <1>5, <2>2, <2>3, <2>6
<1>7. Len(s) \in Nat /\ Len(s) <= Len(s) /\ Len(s) + 1 - Len(s) = 1
  BY <1>1
<1>8. c[1] = 0
  BY <1>6, <1>7
<1> QED
  BY <1>4, <1>8

LEMMA ApplicableFits ==
  ASSUME NEW s \in Seq(Letter), s # <<>>, NEW list \in Seq(Change), Applicable(s, list)
  PROVE  RegionsFit(s, list)
<1> DEFINE n == Len(s)
<1>1. n \in Nat /\ n # 0
  BY SMT
<1>2. \A i \in DOMAIN list : list[i].old \in Seq(Letter) /\ CountOf(s, list[i].old) = 1
  <2>1. \A i \in DOMAIN list : list[i] \in Change
    OBVIOUS
  <2> QED
    BY <2>1 DEF Change, Applicable
<1>3. ASSUME NEW i \in DOMAIN list
      PROVE  /\ Begin(s, list, i) \in 1 .. n
             /\ Len(list[i].old) \in Nat \ {0}
             /\ Begin(s, list, i) + Len(list[i].old) <= n + 1
  <2> DEFINE t == list[i].old
  <2>0. t \in Seq(Letter) /\ CountOf(s, t) = 1
    BY <1>2
  <2> HIDE DEF t
  <2>1. t # <<>>
    <3> SUFFICES ASSUME t = <<>> PROVE FALSE
      OBVIOUS
    <3>1. CountOf(s, t) = n + 1
      BY DEF CountOf
    <3> QED
      BY <1>1, <2>0, <3>1
  <2>2. Matches(s, t) # {}
    BY <2>0, <2>1, NoMatchNoCount
  <2>3. Matches(s, t) \in SUBSET (1 .. n - Len(t) + 1)
    BY DEF Matches
  <2>4. Len(t) \in Nat \ {0}
    BY <2>0, <2>1
  <2>5. Matches(s, t) \in SUBSET Nat
    BY <1>1, <2>3, <2>4
  <2>6. IndexOf(s, t) \in Matches(s, t)
    BY <2>2, <2>5, MinIs DEF IndexOf
  <2>7. IndexOf(s, t) \in 1 .. n - Len(t) + 1
    BY <2>3, <2>6
  <2>8. IndexOf(s, t) \in 1 .. n /\ IndexOf(s, t) + Len(t) <= n + 1
    BY <1>1, <2>4, <2>7
  <2> QED
    BY <2>4, <2>8 DEF Begin, t
<1>4. ASSUME NEW i \in DOMAIN list, NEW j \in DOMAIN list, i # j
      PROVE  \/ Begin(s, list, i) + Len(list[i].old) <= Begin(s, list, j)
             \/ Begin(s, list, j) + Len(list[j].old) <= Begin(s, list, i)
  <2>1. i < j \/ j < i
    BY <1>4
  <2>2. ~ RegionsMeet(s, list[j], list[i]) \/ ~ RegionsMeet(s, list[i], list[j])
    BY <2>1 DEF Applicable
  <2> QED
    BY <1>3, <2>2 DEF RegionsMeet, Begin
<1> QED
  BY <1>3, <1>4 DEF RegionsFit

\* At most one region begins at a place, and none where it is inside another.
LEMMA RegionsAt ==
  ASSUME NEW s \in Seq(Letter), NEW list, RegionsFit(s, list), NEW p \in 1 .. Len(s) + 1
  PROVE  \/ Here(s, list, p) = {}
         \/ \E i \in DOMAIN list : Here(s, list, p) = {i} /\ Begin(s, list, i) = p /\ p <= Len(s)
<1> SUFFICES ASSUME NEW i \in Here(s, list, p)
             PROVE  Here(s, list, p) = {i} /\ Begin(s, list, i) = p /\ p <= Len(s) /\ i \in DOMAIN list
  OBVIOUS
<1>1. i \in DOMAIN list /\ Begin(s, list, i) = p
  BY DEF Here, Begin
<1>2. p <= Len(s)
  BY <1>1 DEF RegionsFit
<1>3. ASSUME NEW j \in Here(s, list, p), j # i PROVE FALSE
  <2>1. j \in DOMAIN list /\ Begin(s, list, j) = p
    BY DEF Here, Begin
  <2> QED
    BY <1>1, <1>3, <2>1 DEF RegionsFit
<1> QED
  BY <1>1, <1>2, <1>3

LEMMA NoneInside ==
  ASSUME NEW s \in Seq(Letter), NEW list, RegionsFit(s, list), NEW i \in DOMAIN list,
         NEW q \in Nat, Begin(s, list, i) < q, q < Begin(s, list, i) + Len(list[i].old)
  PROVE  Here(s, list, q) = {}
<1> SUFFICES ASSUME NEW j \in Here(s, list, q) PROVE FALSE
  OBVIOUS
<1>1. j \in DOMAIN list /\ Begin(s, list, j) = q
  BY DEF Here, Begin
<1>2. j # i
  BY <1>1 DEF RegionsFit
<1> QED
  BY <1>1, <1>2 DEF RegionsFit

-----------------------------------------------------------------------------
(* The reference, AllAtOnce, from every place on.                           *)

FromAt(s, list, f, i) ==
  IF i > Len(s) THEN <<>>
  ELSE IF Here(s, list, i) = {} THEN <<s[i]>> \o f[i + 1]
  ELSE LET e == list[Min(Here(s, list, i))] IN e.new \o f[i + Len(e.old)]

IsFrom(s, list, low, f) == f = [i \in low .. Len(s) + 1 |-> FromAt(s, list, f, i)]

\* Where the text goes on after what is at a place.
LEMMA GoesOn ==
  ASSUME NEW s \in Seq(Letter), NEW list \in Seq(Change), RegionsFit(s, list), NEW p \in 1 .. Len(s)
  PROVE  \/ /\ Here(s, list, p) = {}
            /\ \A f : FromAt(s, list, f, p) = <<s[p]>> \o f[p + 1]
         \/ \E i \in DOMAIN list :
              /\ Here(s, list, p) = {i} /\ Begin(s, list, i) = p /\ Min(Here(s, list, p)) = i
              /\ Len(list[i].old) \in Nat \ {0} /\ p + Len(list[i].old) \in p + 1 .. Len(s) + 1
              /\ \A f : FromAt(s, list, f, p) = list[i].new \o f[p + Len(list[i].old)]
<1>1. Len(s) \in Nat /\ p \in 1 .. Len(s) + 1 /\ ~ (p > Len(s))
  BY SMT
<1>2. CASE Here(s, list, p) = {}
  BY <1>1, <1>2 DEF FromAt
<1>3. ASSUME NEW i \in DOMAIN list, Here(s, list, p) = {i}, Begin(s, list, i) = p
      PROVE  /\ Min(Here(s, list, p)) = i
             /\ Len(list[i].old) \in Nat \ {0} /\ p + Len(list[i].old) \in p + 1 .. Len(s) + 1
             /\ \A f : FromAt(s, list, f, p) = list[i].new \o f[p + Len(list[i].old)]
  <2>1. {i} \in SUBSET Nat /\ {i} # {}
    OBVIOUS
  <2>2. Min({i}) = i
    BY <2>1, MinIs
  <2>3. Len(list[i].old) \in Nat \ {0} /\ p + Len(list[i].old) <= Len(s) + 1
    BY <1>3 DEF RegionsFit
  <2>4. p + Len(list[i].old) \in p + 1 .. Len(s) + 1
    BY <1>1, <2>3
  <2>5. \A f : FromAt(s, list, f, p) = list[i].new \o f[p + Len(list[i].old)]
    BY <1>1, <1>3, <2>2 DEF FromAt
  <2> QED
    BY <1>3, <2>2, <2>3, <2>4, <2>5
<1> QED
  BY <1>1, <1>2, <1>3, RegionsAt

LEMMA FromExists ==
  ASSUME NEW s \in Seq(Letter), NEW list \in Seq(Change), RegionsFit(s, list)
  PROVE  \E f : IsFrom(s, list, 1, f)
<1> DEFINE L == Len(s)
           Missing == {m \in Nat : m <= L /\ ~ \E f : IsFrom(s, list, L + 1 - m, f)}
<1>0. L \in Nat
  BY SMT
<1> HIDE DEF L
<1>1. Missing = {}
  <2> SUFFICES ASSUME Missing # {} PROVE FALSE
    OBVIOUS
  <2>1. PICK m \in Missing : \A k \in Missing : m <= k
    <3>1. Missing \in SUBSET Nat
      OBVIOUS
    <3> QED
      BY <3>1, MinExists
  <2>2. m \in Nat /\ m <= L /\ ~ \E f : IsFrom(s, list, L + 1 - m, f)
    BY <2>1
  <2>3. m # 0
    <3> DEFINE f == [i \in L + 1 .. L + 1 |-> <<>>]
    <3>1. \A i \in L + 1 .. L + 1 : FromAt(s, list, f, i) = <<>>
      BY <1>0 DEF FromAt, L
    <3>2. f = [i \in L + 1 .. L + 1 |-> FromAt(s, list, f, i)]
      BY <3>1
    <3>3. IsFrom(s, list, L + 1, f)
      BY <3>2 DEF IsFrom, L
    <3>4. L + 1 - 0 = L + 1
      BY <1>0
    <3> QED
      BY <2>2, <3>3, <3>4
  <2> DEFINE low == L + 1 - m
  <2>4. low \in 1 .. L /\ L + 1 - (m - 1) = low + 1 /\ m - 1 \in Nat /\ m - 1 <= L /\ ~ (m <= m - 1)
    BY <1>0, <2>2, <2>3
  <2>5. ~ \E f : IsFrom(s, list, low, f)
    BY <2>2
  <2>6. PICK g : IsFrom(s, list, low + 1, g)
    BY <2>1, <2>4
  <2> HIDE DEF low
  <2> DEFINE f == [i \in low .. L + 1 |-> IF i = low THEN FromAt(s, list, g, low) ELSE g[i]]
  <2>7. \A i \in low + 1 .. L + 1 : f[i] = g[i]
    BY <1>0, <2>4
  <2>8. ASSUME NEW i \in low .. L + 1 PROVE FromAt(s, list, f, i) = FromAt(s, list, g, i)
    <3>1. CASE i > L
      BY <3>1 DEF FromAt, L
    <3>2. CASE i <= L
      <4>1. i \in 1 .. Len(s) /\ i + 1 \in low + 1 .. L + 1
        BY <1>0, <2>4, <2>8, <3>2 DEF L
      <4>2. \A j \in i + 1 .. L + 1 : f[j] = g[j]
        BY <1>0, <2>4, <2>7, <2>8
      <4> HIDE DEF f
      <4>3. i + 1 \in i + 1 .. L + 1
        BY <1>0, <2>4, <4>1 DEF L
      <4>4. CASE \A h : FromAt(s, list, h, i) = <<s[i]>> \o h[i + 1]
        BY <4>2, <4>3, <4>4
      <4>5. ASSUME NEW j \in DOMAIN list, i + Len(list[j].old) \in i + 1 .. Len(s) + 1,
                   \A h : FromAt(s, list, h, i) = list[j].new \o h[i + Len(list[j].old)]
            PROVE  FromAt(s, list, f, i) = FromAt(s, list, g, i)
        <5>1. f[i + Len(list[j].old)] = g[i + Len(list[j].old)]
          BY <4>2, <4>5 DEF L
        <5> QED
          BY <4>5, <5>1
      <4> QED
        BY <4>1, <4>4, <4>5, GoesOn
    <3> QED
      BY <1>0, <2>4, <2>8, <3>1, <3>2
  <2>9. \A i \in low .. L + 1 : f[i] = FromAt(s, list, g, i)
    <3>1. \A i \in low + 1 .. L + 1 : g[i] = FromAt(s, list, g, i)
      BY <2>6 DEF IsFrom, L
    <3> QED
      BY <1>0, <2>4, <3>1
  <2>10. f = [i \in low .. L + 1 |-> f[i]]
    OBVIOUS
  <2> HIDE DEF f
  <2>11. IsFrom(s, list, low, f)
    BY <2>8, <2>9, <2>10 DEF IsFrom, L
  <2> QED
    BY <2>5, <2>11
<1>2. L \in Nat /\ L <= L /\ L + 1 - L = 1
  BY <1>0
<1> QED
  BY <1>1, <1>2

LEMMA AllAtOnceIs ==
  ASSUME NEW s \in Seq(Letter), NEW list \in Seq(Change), RegionsFit(s, list)
  PROVE  \E f : IsFrom(s, list, 1, f) /\ AllAtOnce(s, list) = f[1]
<1> DEFINE f == CHOOSE g : IsFrom(s, list, 1, g)
<1>1. IsFrom(s, list, 1, f)
  BY FromExists
<1>2. AllAtOnce(s, list) = f[1]
  BY DEF AllAtOnce, IsFrom, FromAt
<1> QED
  BY <1>1, <1>2

\* Induction from the back.
LEMMA Backwards ==
  ASSUME NEW low \in Nat, NEW high \in Nat, NEW S,
         \A p \in low .. high : p + 1 .. high \subseteq S => p \in S
  PROVE  low .. high \subseteq S
<1> DEFINE Bad == {m \in Nat : m <= high /\ high - m >= low /\ high - m \notin S}
<1>1. Bad = {}
  <2> SUFFICES ASSUME Bad # {} PROVE FALSE
    OBVIOUS
  <2>1. PICK m \in Bad : \A k \in Bad : m <= k
    <3>1. Bad \in SUBSET Nat
      OBVIOUS
    <3> QED
      BY <3>1, MinExists
  <2>2. m \in Nat /\ m <= high /\ high - m >= low /\ high - m \notin S
    BY <2>1
  <2>3. high - m \in low .. high
    BY <2>2
  <2>4. ASSUME NEW q \in high - m + 1 .. high, q \notin S PROVE FALSE
    <3>1. high - q \in Nat /\ high - q <= high /\ high - (high - q) = q /\ q >= low /\ ~ (m <= high - q)
      BY <2>2
    <3> QED
      BY <2>1, <2>4, <3>1
  <2> QED
    BY <2>2, <2>3, <2>4
<1>2. ASSUME NEW q \in low .. high PROVE q \in S
  <2>1. high - q \in Nat /\ high - q <= high /\ high - (high - q) = q /\ q >= low
    OBVIOUS
  <2> QED
    BY <1>1, <2>1
<1> QED
  BY <1>2

LEMMA FromTyped ==
  ASSUME NEW s \in Seq(Letter), NEW list \in Seq(Change), RegionsFit(s, list), NEW f, IsFrom(s, list, 1, f)
  PROVE  \A p \in 1 .. Len(s) + 1 : f[p] \in Seq(Letter)
<1> DEFINE S == {p \in 1 .. Len(s) + 1 : f[p] \in Seq(Letter)}
<1>1. Len(s) \in Nat /\ Len(s) + 1 \in Nat
  BY SMT
<1>2. \A i \in DOMAIN list : list[i].new \in Seq(Letter)
  <2>1. \A i \in DOMAIN list : list[i] \in Change
    OBVIOUS
  <2> QED
    BY <2>1 DEF Change
<1>3. ASSUME NEW p \in 1 .. Len(s) + 1, p + 1 .. Len(s) + 1 \subseteq S PROVE f[p] \in Seq(Letter)
  <2>1. f[p] = FromAt(s, list, f, p)
    BY DEF IsFrom
  <2>2. CASE p = Len(s) + 1
    <3>1. p > Len(s)
      BY <1>1, <2>2
    <3>2. f[p] = <<>>
      BY <2>1, <3>1 DEF FromAt
    <3> QED
      BY <3>2
  <2>3. CASE p \in 1 .. Len(s)
    <3>1. CASE f[p] = <<s[p]>> \o f[p + 1]
      <4>1. p + 1 \in p + 1 .. Len(s) + 1
        BY <1>1, <2>3
      <4>2. f[p + 1] \in Seq(Letter)
        BY <1>3, <4>1
      <4>3. <<s[p]>> \in Seq(Letter)
        BY <2>3
      <4> QED
        BY <3>1, <4>2, <4>3, ConcatProperties
    <3>2. ASSUME NEW i \in DOMAIN list, p + Len(list[i].old) \in p + 1 .. Len(s) + 1,
                 f[p] = list[i].new \o f[p + Len(list[i].old)]
          PROVE  f[p] \in Seq(Letter)
      <4>1. f[p + Len(list[i].old)] \in Seq(Letter)
        BY <1>3, <3>2
      <4> QED
        BY <1>2, <3>2, <4>1, ConcatProperties
    <3> QED
      BY <2>1, <2>3, <3>1, <3>2, GoesOn
  <2> QED
    BY <1>1, <2>2, <2>3
<1>4. \A p \in 1 .. Len(s) + 1 : p + 1 .. Len(s) + 1 \subseteq S => p \in S
  BY <1>3
<1> HIDE DEF S
<1>5. 1 .. Len(s) + 1 \subseteq S
  BY <1>1, <1>4, Backwards
<1> QED
  BY <1>5 DEF S

LEMMA Regrouped == \A x, y, z \in Seq(Letter) : (x \o y) \o z = x \o (y \o z)
  BY ConcatAssociative

NoneBegins(s, list, p, end) == \A q \in p .. end - 1 : Here(s, list, q) = {}

\* Where no region begins, the text as it is.
PlainIsKept(s, list, f) ==
  \A p \in 1 .. Len(s) + 1 : \A end \in p .. Len(s) + 1 :
    NoneBegins(s, list, p, end) => f[p] = SubSeq(s, p, end - 1) \o f[end]

LEMMA FromPlain ==
  ASSUME NEW s \in Seq(Letter), NEW list \in Seq(Change), RegionsFit(s, list), NEW f, IsFrom(s, list, 1, f)
  PROVE  PlainIsKept(s, list, f)
<1> SUFFICES ASSUME NEW p \in 1 .. Len(s) + 1, NEW end \in p .. Len(s) + 1, NoneBegins(s, list, p, end)
             PROVE  f[p] = SubSeq(s, p, end - 1) \o f[end]
  BY DEF PlainIsKept
<1> DEFINE Plain(q) == f[q] = SubSeq(s, q, end - 1) \o f[end]
           PlainAt == {q \in p .. end : Plain(q)}
<1>1. Len(s) \in Nat /\ end \in Nat /\ p \in Nat /\ end \in 1 .. Len(s) + 1
  BY SMT
<1>2. f[end] \in Seq(Letter)
  BY <1>1, FromTyped
<1>3. ASSUME NEW q \in p .. end, q + 1 .. end \subseteq PlainAt PROVE Plain(q)
  <2>1. CASE q = end
    <3>1. SubSeq(s, q, end - 1) = <<>>
      BY <1>1, <2>1, SubSeqEmpty
    <3> QED
      BY <1>2, <2>1, <3>1, ConcatEmptySeq
  <2>2. CASE q < end
    <3>1. /\ q \in Nat /\ q \in 1 .. Len(s) /\ q \in 1 .. Len(s) + 1 /\ q \in p .. end - 1
          /\ end - 1 \in q .. Len(s) /\ q + 1 \in q + 1 .. end
      BY <1>1, <2>2
    <3>2. Here(s, list, q) = {}
      BY <3>1 DEF NoneBegins
    <3>3. f[q] = FromAt(s, list, f, q)
      BY <3>1 DEF IsFrom
    <3>4. f[q] = <<s[q]>> \o f[q + 1]
      BY <1>1, <3>1, <3>2, <3>3 DEF FromAt
    <3>5. f[q + 1] = SubSeq(s, q + 1, end - 1) \o f[end]
      BY <1>3, <3>1
    <3>6. SubSeq(s, q, end - 1) = <<s[q]>> \o SubSeq(s, q + 1, end - 1)
      BY <3>1, SubSeqRecursiveFirst
    <3>7. <<s[q]>> \in Seq(Letter) /\ SubSeq(s, q + 1, end - 1) \in Seq(Letter)
      <4>1. \A k \in q + 1 .. end - 1 : s[k] \in Letter
        BY <1>1, <3>1
      <4>2. q + 1 \in Int /\ end - 1 \in Int
        BY <1>1, <3>1
      <4> QED
        BY <3>1, <4>1, <4>2, SubSeqProperties
    <3> DEFINE a == <<s[q]>>
               b == SubSeq(s, q + 1, end - 1)
               c == f[end]
    <3>8. a \in Seq(Letter) /\ b \in Seq(Letter) /\ c \in Seq(Letter)
      BY <1>2, <3>7
    <3>9. f[q] = a \o (b \o c)
      BY <3>4, <3>5
    <3>10. SubSeq(s, q, end - 1) = a \o b
      BY <3>6
    <3> HIDE DEF a, b, c, PlainAt
    <3>11. (a \o b) \o c = a \o (b \o c)
      BY <3>8, Regrouped
    <3> QED
      BY <3>9, <3>10, <3>11 DEF c
  <2>3. q = end \/ q < end
    BY <1>1
  <2> QED
    BY <2>1, <2>2, <2>3
<1> HIDE DEF Plain
<1>4. \A q \in p .. end : q + 1 .. end \subseteq PlainAt => q \in PlainAt
  BY <1>3
<1> HIDE DEF PlainAt
<1>5. p .. end \subseteq PlainAt
  BY <1>1, <1>4, Backwards
<1>6. p \in p .. end
  BY <1>1
<1> QED
  BY <1>5, <1>6 DEF PlainAt, Plain

-----------------------------------------------------------------------------
(* The code, Applied, from every place on. *)

IsAgain(x, p, e, n, a) == a = [k \in 0 .. n |-> IF k = 0 THEN x ELSE Substituted(a[k - 1], p, e)]

AgainOf(s, list, x, p) == CHOOSE a : IsAgain(x, p, list[Min(Here(s, list, p))], Len(list), a)

DoneAt(s, list, d, p) ==
  IF p = Len(s) + 2 THEN s ELSE AgainOf(s, list, d[p + 1], p)[Cardinality(Here(s, list, p))]

IsDone(s, list, low, d) == d = [p \in low .. Len(s) + 2 |-> DoneAt(s, list, d, p)]

LEMMA AgainExists ==
  ASSUME NEW x, NEW p, NEW e, NEW n \in Nat
  PROVE  \E a : IsAgain(x, p, e, n, a)
<1> DEFINE Missing == {m \in Nat : ~ \E a : IsAgain(x, p, e, m, a)}
<1> SUFFICES ASSUME Missing # {} PROVE FALSE
  OBVIOUS
<1>1. PICK m \in Missing : \A k \in Missing : m <= k
  BY MinExists
<1>2. m \in Nat /\ ~ \E a : IsAgain(x, p, e, m, a)
  OBVIOUS
<1>3. m # 0
  <2> DEFINE a == [k \in 0 .. 0 |-> x]
  <2>1. \A k \in 0 .. 0 : k = 0
    OBVIOUS
  <2>2. a = [k \in 0 .. 0 |-> IF k = 0 THEN x ELSE Substituted(a[k - 1], p, e)]
    BY <2>1
  <2> QED
    BY <1>2, <2>2 DEF IsAgain
<1>4. PICK g : IsAgain(x, p, e, m - 1, g)
  BY <1>1, <1>2, <1>3
<1> DEFINE a == [k \in 0 .. m |-> IF k = 0 THEN x ELSE Substituted(g[k - 1], p, e)]
<1>5. ASSUME NEW k \in 0 .. m - 1 PROVE a[k] = g[k]
  <2>1. k \in 0 .. m
    BY <1>2
  <2> QED
    BY <1>4, <2>1 DEF IsAgain
<1>6. \A k \in 0 .. m : a[k] = IF k = 0 THEN x ELSE Substituted(a[k - 1], p, e)
  <2> SUFFICES ASSUME NEW k \in 0 .. m
               PROVE  a[k] = IF k = 0 THEN x ELSE Substituted(a[k - 1], p, e)
    OBVIOUS
  <2>1. CASE k = 0
    BY <2>1
  <2>2. CASE k # 0
    <3>1. k - 1 \in 0 .. m - 1
      BY <1>2, <2>2
    <3>2. a[k - 1] = g[k - 1]
      BY <1>5, <3>1
    <3>3. a[k] = Substituted(g[k - 1], p, e)
      BY <2>2
    <3> HIDE DEF a
    <3> QED
      BY <2>2, <3>2, <3>3
  <2> QED
    BY <2>1, <2>2
<1>7. a = [k \in 0 .. m |-> a[k]]
  OBVIOUS
<1> HIDE DEF a
<1>8. IsAgain(x, p, e, m, a)
  BY <1>6, <1>7 DEF IsAgain
<1> QED
  BY <1>2, <1>8

LEMMA DoneExists ==
  ASSUME NEW s \in Seq(Letter), NEW list
  PROVE  \E d : IsDone(s, list, 1, d)
<1> DEFINE H == Len(s) + 2
           Missing == {m \in Nat : m < H /\ ~ \E d : IsDone(s, list, H - m, d)}
<1>0. H \in Nat /\ H >= 2
  BY SMT
<1>d. \A low, d : IsDone(s, list, low, d) <=> d = [p \in low .. H |-> DoneAt(s, list, d, p)]
  BY DEF IsDone
<1> HIDE DEF H
<1>1. Missing = {}
  <2> SUFFICES ASSUME Missing # {} PROVE FALSE
    OBVIOUS
  <2>1. PICK m \in Missing : \A k \in Missing : m <= k
    <3>1. Missing \in SUBSET Nat
      OBVIOUS
    <3> QED
      BY <3>1, MinExists
  <2>2. m \in Nat /\ m < H /\ ~ \E d : IsDone(s, list, H - m, d)
    BY <2>1
  <2>3. m # 0
    <3> DEFINE d == [i \in H .. H |-> s]
    <3>1. \A i \in H .. H : DoneAt(s, list, d, i) = s
      BY <1>0 DEF DoneAt, H
    <3>2. d = [i \in H .. H |-> DoneAt(s, list, d, i)]
      BY <3>1
    <3>3. IsDone(s, list, H, d)
      BY <1>d, <3>2
    <3>4. H - 0 = H
      BY <1>0
    <3> QED
      BY <2>2, <3>3, <3>4
  <2> DEFINE low == H - m
  <2>4. low \in 1 .. H - 1 /\ H - (m - 1) = low + 1 /\ m - 1 \in Nat /\ m - 1 < H /\ ~ (m <= m - 1)
    BY <1>0, <2>2, <2>3
  <2>5. ~ \E d : IsDone(s, list, low, d)
    BY <2>2
  <2>6. PICK g : IsDone(s, list, low + 1, g)
    BY <2>1, <2>4
  <2> HIDE DEF low
  <2> DEFINE d == [i \in low .. H |-> IF i = low THEN DoneAt(s, list, g, low) ELSE g[i]]
  <2>7. \A i \in low + 1 .. H : d[i] = g[i]
    BY <1>0, <2>4
  <2>8. ASSUME NEW i \in low .. H PROVE DoneAt(s, list, d, i) = DoneAt(s, list, g, i)
    <3>1. i = H \/ d[i + 1] = g[i + 1]
      BY <1>0, <2>4, <2>7
    <3> HIDE DEF d
    <3> QED
      BY <3>1 DEF DoneAt, H
  <2>9. \A i \in low .. H : d[i] = DoneAt(s, list, g, i)
    <3>0. g = [p \in low + 1 .. H |-> DoneAt(s, list, g, p)]
      BY <2>6 DEF IsDone, H
    <3>1. \A i \in low + 1 .. H : g[i] = DoneAt(s, list, g, i)
      BY <3>0
    <3> QED
      BY <1>0, <2>4, <3>1
  <2>10. d = [i \in low .. H |-> d[i]]
    OBVIOUS
  <2> HIDE DEF d
  <2>11. IsDone(s, list, low, d)
    BY <1>d, <2>8, <2>9, <2>10
  <2> QED
    BY <2>5, <2>11
<1>2. H - 1 \in Nat /\ H - 1 < H /\ H - (H - 1) = 1
  BY <1>0
<1> QED
  BY <1>1, <1>2

LEMMA AppliedIs ==
  ASSUME NEW s \in Seq(Letter), NEW list
  PROVE  \E d : IsDone(s, list, 1, d) /\ Applied(s, list) = d[1]
<1> DEFINE d == CHOOSE g : IsDone(s, list, 1, g)
<1>1. IsDone(s, list, 1, d)
  BY DoneExists
<1>2. Applied(s, list) = d[1]
  BY DEF Applied, IsDone, DoneAt, AgainOf, IsAgain
<1> QED
  BY <1>1, <1>2

\* One region at most is replaced at a place.
LEMMA DoneSteps ==
  ASSUME NEW s \in Seq(Letter), NEW list \in Seq(Change), RegionsFit(s, list), NEW d, IsDone(s, list, 1, d),
         NEW p \in 1 .. Len(s) + 1
  PROVE  \/ Here(s, list, p) = {} /\ d[p] = d[p + 1]
         \/ \E i \in DOMAIN list :
              /\ Here(s, list, p) = {i} /\ Begin(s, list, i) = p /\ p <= Len(s)
              /\ d[p] = Substituted(d[p + 1], p, list[i])
<1> DEFINE x == d[p + 1]
           a == AgainOf(s, list, x, p)
           e == list[Min(Here(s, list, p))]
<1>1. Len(s) \in Nat /\ Len(list) \in Nat /\ p \in Nat /\ p # Len(s) + 2 /\ p \in 1 .. Len(s) + 2
  BY SMT
<1>2. d[p] = a[Cardinality(Here(s, list, p))]
  BY <1>1 DEF IsDone, DoneAt
<1>3. IsAgain(x, p, e, Len(list), a)
  <2>1. \E b : IsAgain(x, p, e, Len(list), b)
    BY <1>1, AgainExists
  <2> QED
    BY <2>1 DEF AgainOf
<1> HIDE DEF a, x, e
<1>4. CASE Here(s, list, p) = {}
  <2>1. Cardinality(Here(s, list, p)) = 0
    BY <1>4, FS_EmptySet
  <2>2. a[0] = x
    BY <1>1, <1>3 DEF IsAgain
  <2> QED
    BY <1>2, <1>4, <2>1, <2>2 DEF x
<1>5. ASSUME NEW i \in DOMAIN list, Here(s, list, p) = {i}, Begin(s, list, i) = p, p <= Len(s)
      PROVE  d[p] = Substituted(d[p + 1], p, list[i])
  <2>1. Cardinality(Here(s, list, p)) = 1
    BY <1>5, FS_Singleton
  <2>2. 0 \in 0 .. Len(list) /\ 1 \in 0 .. Len(list) /\ 1 - 1 = 0 /\ 1 # 0
    BY <1>1, <1>5
  <2>3. a[0] = x /\ a[1] = Substituted(a[0], p, e)
    BY <2>2, <1>3 DEF IsAgain
  <2>4. {i} \in SUBSET Nat /\ {i} # {}
    BY <1>5
  <2>5. Min({i}) = i
    BY <2>4, MinIs
  <2>6. e = list[i]
    BY <1>5, <2>5 DEF e
  <2> QED
    BY <1>2, <2>1, <2>3, <2>6 DEF x
<1> QED
  BY <1>4, <1>5, RegionsAt

LEMMA HeadOfJoined ==
  ASSUME NEW a \in Seq(Letter), NEW b \in Seq(Letter), NEW k \in 0 .. Len(a)
  PROVE  SubSeq(a \o b, 1, k) = SubSeq(a, 1, k)
<1>1. CASE k = 0
  BY <1>1, SubSeqEmpty
<1>2. CASE k # 0
  <2>1. Len(a) \in Nat /\ k \in 1 .. Len(a) /\ 1 \in 1 .. Len(a)
    BY <1>2
  <2> QED
    BY <2>1, SubSeqOfConcat1
<1> QED
  BY <1>1, <1>2

LEMMA TailOfJoined ==
  ASSUME NEW a \in Seq(Letter), NEW b \in Seq(Letter)
  PROVE  SubSeq(a \o b, Len(a) + 1, Len(a \o b)) = b
<1>1. Len(a) \in Nat /\ Len(b) \in Nat /\ Len(a \o b) = Len(a) + Len(b)
  BY ConcatProperties
<1>2. CASE b = <<>>
  <2>1. Len(a \o b) \in Int /\ Len(a) + 1 \in Int /\ Len(a \o b) < Len(a) + 1
    BY <1>1, <1>2
  <2> QED
    BY <1>2, <2>1, SubSeqEmpty
<1>3. CASE b # <<>>
  <2>1. /\ Len(a) + 1 \in Len(a) + 1 .. Len(a) + Len(b)
        /\ Len(a) + Len(b) \in Len(a) + 1 .. Len(a) + Len(b)
        /\ Len(a) + 1 - Len(a) = 1 /\ Len(a) + Len(b) - Len(a) = Len(b)
    BY <1>1, <1>3
  <2>2. SubSeq(a \o b, Len(a) + 1, Len(a) + Len(b)) = SubSeq(b, 1, Len(b))
    BY <2>1, SubSeqOfConcat2
  <2> QED
    BY <1>1, <2>2, SubSeqFull
<1> QED
  BY <1>2, <1>3

LEMMA HeadOfHead ==
  ASSUME NEW s \in Seq(Letter), NEW n \in 1 .. Len(s), NEW k \in 0 .. n
  PROVE  SubSeq(SubSeq(s, 1, n), 1, k) = SubSeq(s, 1, k)
<1>1. CASE k = 0
  BY <1>1, SubSeqEmpty
<1>2. CASE k # 0
  <2>1. /\ Len(s) \in Nat /\ n \in 1 .. Len(s) /\ 1 \in 1 .. Len(s)
        /\ 1 \in 1 .. n - 1 + 1 /\ k \in 1 .. n - 1 + 1 /\ 1 + 1 - 1 = 1 /\ 1 + k - 1 = k
    BY <1>2
  <2> QED
    BY <2>1, SubSeqOfSubSeq
<1> QED
  BY <1>1, <1>2

LEMMA HeadTyped ==
  ASSUME NEW s \in Seq(Letter), NEW k \in 0 .. Len(s)
  PROVE  SubSeq(s, 1, k) \in Seq(Letter) /\ Len(SubSeq(s, 1, k)) = k
<1>1. Len(s) \in Nat /\ 1 \in Int /\ k \in Int /\ (\A i \in 1 .. k : s[i] \in Letter)
      /\ k = IF 1 <= k THEN k - 1 + 1 ELSE 0
  BY SMT
<1> QED
  BY <1>1, SubSeqProperties

\* What a substitution makes of a text whose part up to the region is plain.
LEMMA SubstitutedIs ==
  ASSUME NEW s \in Seq(Letter), NEW p \in 1 .. Len(s), NEW e \in Change,
         NEW n \in p .. Len(s), p + Len(e.old) = n + 1, NEW rest \in Seq(Letter)
  PROVE  Substituted(SubSeq(s, 1, n) \o rest, p, e) = SubSeq(s, 1, p - 1) \o (e.new \o rest)
<1> DEFINE a == SubSeq(s, 1, n)
           low == SubSeq(s, 1, p - 1)
           new == e.new
<1>1. /\ Len(s) \in Nat /\ n \in 1 .. Len(s) /\ n \in 0 .. Len(s)
      /\ p - 1 \in 0 .. n /\ p - 1 \in 0 .. Len(s)
  BY SMT
<1>2. a \in Seq(Letter) /\ Len(a) = n /\ low \in Seq(Letter)
  BY <1>1, HeadTyped
<1>3. new \in Seq(Letter)
  BY DEF Change
<1>4. SubSeq(a, 1, p - 1) = low
  BY <1>1, HeadOfHead
<1>5. Substituted(a \o rest, p, e) = SubSeq(a \o rest, 1, p - 1) \o new \o SubSeq(a \o rest, n + 1, Len(a \o rest))
  BY DEF Substituted
<1> HIDE DEF a, low, new
<1>6. SubSeq(a \o rest, 1, p - 1) = low
  BY <1>1, <1>2, <1>4, HeadOfJoined
<1>7. SubSeq(a \o rest, n + 1, Len(a \o rest)) = rest
  BY <1>2, TailOfJoined
<1>8. (low \o new) \o rest = low \o (new \o rest)
  BY <1>2, <1>3, Regrouped, ZenonT(40)
<1> QED
  BY <1>5, <1>6, <1>7, <1>8 DEF a, low, new

LEMMA AppliedOnce ==
  ASSUME NEW s \in Seq(Letter), NEW list \in Seq(Change), RegionsFit(s, list)
  PROVE  Applied(s, list) = AllAtOnce(s, list) /\ Applied(s, list) \in Seq(Letter)
<1> PICK f : IsFrom(s, list, 1, f) /\ AllAtOnce(s, list) = f[1]
  BY AllAtOnceIs
<1> PICK d : IsDone(s, list, 1, d) /\ Applied(s, list) = d[1]
  BY AppliedIs
<1>0. PlainIsKept(s, list, f)
  BY FromPlain
<1> DEFINE SoFar(p) == d[p] = SubSeq(s, 1, p - 1) \o f[p]
           DoneAsFrom == {p \in 1 .. Len(s) + 1 : SoFar(p)}
<1>1. Len(s) \in Nat /\ Len(s) + 1 \in Nat /\ 1 \in Nat /\ 1 \in 1 .. Len(s) + 1
  BY SMT
<1>2. ASSUME NEW p \in 1 .. Len(s) + 1, p + 1 .. Len(s) + 1 \subseteq DoneAsFrom PROVE SoFar(p)
  <2>1. CASE p = Len(s) + 1
    <3>1. Here(s, list, p) = {} /\ d[p] = d[p + 1]
      BY <1>1, <2>1, DoneSteps
    <3>2. p + 1 = Len(s) + 2 /\ p + 1 \in 1 .. Len(s) + 2 /\ p - 1 = Len(s) /\ p > Len(s)
      BY <1>1, <2>1
    <3>3. d[p + 1] = s
      BY <3>2 DEF IsDone, DoneAt
    <3>4. f[p] = <<>>
      BY <3>2 DEF IsFrom, FromAt
    <3>5. SubSeq(s, 1, p - 1) = s
      BY <3>2, SubSeqFull
    <3> QED
      BY <3>1, <3>3, <3>4, <3>5, ConcatEmptySeq
  <2>2. CASE p \in 1 .. Len(s)
    <3>1. p + 1 \in p + 1 .. Len(s) + 1 /\ p + 1 \in 1 .. Len(s) + 1 /\ p + 1 - 1 = p /\ p \in Nat
          /\ p \in 1 .. p /\ p - 1 \in 0 .. Len(s) /\ ~ (p > Len(s)) /\ 1 \in 1 .. Len(s)
      BY <1>1, <2>2
    <3>2. d[p + 1] = SubSeq(s, 1, p) \o f[p + 1]
      <4>1. p + 1 \in DoneAsFrom
        BY <1>2, <3>1
      <4>2. SoFar(p + 1)
        BY <4>1
      <4> QED
        BY <3>1, <4>2
    <3>3. f[p] = FromAt(s, list, f, p)
      BY DEF IsFrom
    <3>4. ASSUME Here(s, list, p) = {}, d[p] = d[p + 1] PROVE SoFar(p)
      <4> DEFINE a == SubSeq(s, 1, p - 1)
                 b == <<s[p]>>
                 c == f[p + 1]
      <4>1. f[p] = b \o c
        BY <3>1, <3>3, <3>4 DEF FromAt
      <4>2. SubSeq(s, 1, p) = a \o b
        BY <3>1, SubSeqRecursiveSecond
      <4>3. a \in Seq(Letter) /\ b \in Seq(Letter) /\ c \in Seq(Letter)
        BY <2>2, <3>1, HeadTyped, FromTyped
      <4>4. d[p] = (a \o b) \o c
        BY <3>2, <3>4, <4>2
      <4> HIDE DEF a, b, c, DoneAsFrom
      <4>5. (a \o b) \o c = a \o (b \o c)
        BY <4>3, Regrouped, ZenonT(40)
      <4> QED
        BY <4>1, <4>4, <4>5 DEF a
    <3>5. ASSUME NEW i \in DOMAIN list, Here(s, list, p) = {i}, Begin(s, list, i) = p,
                 d[p] = Substituted(d[p + 1], p, list[i])
          PROVE  SoFar(p)
      <4> DEFINE e == list[i]
                 n == p + Len(e.old) - 1
                 rest == f[n + 1]
      <4>1. e \in Change
        OBVIOUS
      <4>2. /\ f[p] = e.new \o f[p + Len(e.old)]
            /\ Len(e.old) \in Nat \ {0} /\ p + Len(e.old) <= Len(s) + 1
        <5>1. Min({i}) = i
          <6>1. {i} \in SUBSET Nat /\ {i} # {}
            OBVIOUS
          <6> QED
            BY <6>1, MinIs
        <5>2. f[p] = e.new \o f[p + Len(e.old)]
          BY <3>1, <3>3, <3>5, <5>1 DEF FromAt
        <5> QED
          BY <3>5, <5>2 DEF RegionsFit
      <4>3. /\ n \in p .. Len(s) /\ n \in Nat /\ n + 1 = p + Len(e.old) /\ n + 1 \in p + 1 .. Len(s) + 1
            /\ n + 1 - 1 = n
        BY <1>1, <3>1, <4>2
      <4> HIDE DEF e, n
      <4>4. rest \in Seq(Letter)
        BY <3>1, <4>3, FromTyped
      <4>5. f[p + 1] = SubSeq(s, p + 1, n) \o rest
        <5>1. \A q \in p + 1 .. n + 1 - 1 : Here(s, list, q) = {}
          <6>1. ASSUME NEW q \in p + 1 .. n + 1 - 1 PROVE Here(s, list, q) = {}
            <7>1. q \in Nat /\ Begin(s, list, i) < q /\ q < Begin(s, list, i) + Len(list[i].old)
              BY <1>1, <3>1, <3>5, <4>3 DEF e
            <7> QED
              BY <7>1, NoneInside
          <6> QED
            BY <6>1
        <5> DEFINE m == p + 1
                   end == n + 1
        <5>2. m \in 1 .. Len(s) + 1 /\ end \in m .. Len(s) + 1 /\ NoneBegins(s, list, m, end)
          BY <3>1, <4>3, <5>1 DEF NoneBegins
        <5> HIDE DEF m, end, rest, SoFar, DoneAsFrom
        <5>3. f[m] = SubSeq(s, m, end - 1) \o f[end]
          BY <1>0, <5>2 DEF PlainIsKept
        <5>4. end - 1 = n
          BY <4>3 DEF end
        <5>5. f[m] = SubSeq(s, m, n) \o f[end]
          BY <5>3, <5>4
        <5> QED
          BY <5>5 DEF m, end, rest
      <4>6. SubSeq(s, 1, p) \o SubSeq(s, p + 1, n) = SubSeq(s, 1, n)
        <5>1. 1 \in 1 .. Len(s) + 1 /\ p \in 1 - 1 .. Len(s) /\ n \in p .. Len(s)
          BY <1>1, <3>1, <4>3
        <5> QED
          BY <5>1, ConcatAdjacentSubSeq
      <4>7. SubSeq(s, 1, p) \in Seq(Letter) /\ SubSeq(s, p + 1, n) \in Seq(Letter)
        <5>1. p \in 0 .. Len(s)
          BY <1>1, <3>1, <4>3
        <5>2. p + 1 \in Int /\ n \in Int /\ \A k \in p + 1 .. n : s[k] \in Letter
          BY <1>1, <3>1, <4>3
        <5> QED
          BY <5>1, <5>2, HeadTyped, SubSeqProperties
      <4> DEFINE a == SubSeq(s, 1, p)
                 b == SubSeq(s, p + 1, n)
      <4>8. d[p + 1] = a \o (b \o rest) /\ a \o b = SubSeq(s, 1, n) /\ a \in Seq(Letter) /\ b \in Seq(Letter)
        BY <3>2, <4>5, <4>6, <4>7
      <4> HIDE DEF a, b, rest, DoneAsFrom
      <4>9. (a \o b) \o rest = a \o (b \o rest)
        BY <4>4, <4>8, Regrouped
      <4>10. d[p + 1] = SubSeq(s, 1, n) \o rest
        BY <4>8, <4>9
      <4>11. Substituted(SubSeq(s, 1, n) \o rest, p, e) = SubSeq(s, 1, p - 1) \o (e.new \o rest)
        BY <2>2, <4>1, <4>3, <4>4, SubstitutedIs
      <4> QED
        BY <3>5, <4>2, <4>3, <4>10, <4>11 DEF e, rest
    <3> HIDE DEF SoFar, DoneAsFrom
    <3> QED
      BY <3>4, <3>5, DoneSteps
  <2>3. p = Len(s) + 1 \/ p \in 1 .. Len(s)
    BY <1>1
  <2> HIDE DEF SoFar, DoneAsFrom
  <2> QED
    BY <2>1, <2>2, <2>3
<1> HIDE DEF SoFar
<1>3. \A p \in 1 .. Len(s) + 1 : p + 1 .. Len(s) + 1 \subseteq DoneAsFrom => p \in DoneAsFrom
  BY <1>2
<1> HIDE DEF DoneAsFrom
<1>4. 1 .. Len(s) + 1 \subseteq DoneAsFrom
  BY <1>1, <1>3, Backwards
<1>5. d[1] = SubSeq(s, 1, 1 - 1) \o f[1]
  BY <1>1, <1>4 DEF DoneAsFrom, SoFar
<1>6. SubSeq(s, 1, 1 - 1) = <<>>
  BY SubSeqEmpty
<1>7. f[1] \in Seq(Letter)
  BY <1>1, FromTyped
<1> QED
  BY <1>5, <1>6, <1>7, ConcatEmptySeq

\* Insertions into an empty file.
LEMMA AppliedToNothing ==
  ASSUME NEW list \in Seq(Change), Applicable(<<>>, list)
  PROVE  Applied(<<>>, list) \in Seq(Letter)
<1> DEFINE s == <<>>
<1>0. s \in Seq(Letter) /\ Len(s) = 0 /\ Len(list) \in Nat /\ DOMAIN list = 1 .. Len(list)
  OBVIOUS
<1>1. \A i \in DOMAIN list : list[i].old = <<>> /\ list[i].new \in Seq(Letter)
  <2> SUFFICES ASSUME NEW i \in DOMAIN list PROVE list[i].old = <<>> /\ list[i].new \in Seq(Letter)
    OBVIOUS
  <2> DEFINE t == list[i].old
  <2>0. list[i] \in Change
    OBVIOUS
  <2>1. t \in Seq(Letter) /\ list[i].new \in Seq(Letter)
    BY <2>0 DEF Change
  <2>2. CountOf(s, t) = 1
    BY DEF Applicable
  <2> HIDE DEF s, t
  <2>3. t # <<>> => Matches(s, t) = {}
    BY <1>0, <2>1 DEF Matches
  <2>4. t # <<>> => CountOf(s, t) = 0
    BY <1>0, <2>1, <2>3, NoMatchNoCount
  <2> QED
    BY <2>1, <2>2, <2>4 DEF t
<1>2. IndexOf(s, <<>>) = 1
  <2>1. Matches(s, <<>>) \subseteq {1}
    BY <1>0 DEF Matches
  <2>2. SubSeq(s, 1, 0) = <<>>
    BY SubSeqEmpty
  <2>3. 1 \in Matches(s, <<>>)
    BY <1>0, <2>2 DEF Matches
  <2>4. Matches(s, <<>>) = {1}
    BY <2>1, <2>3
  <2>5. {1} \in SUBSET Nat /\ {1} # {}
    OBVIOUS
  <2> QED
    BY <2>4, <2>5, MinIs DEF IndexOf
<1> HIDE DEF s
<1>3. Here(s, list, 1) = DOMAIN list
  BY <1>1, <1>2 DEF Here
<1> PICK d : IsDone(s, list, 1, d) /\ Applied(s, list) = d[1]
  BY <1>0, AppliedIs
<1>4. d[2] = s /\ d[1] = AgainOf(s, list, d[2], 1)[Cardinality(DOMAIN list)]
  BY <1>0, <1>3 DEF IsDone, DoneAt
<1>5. Cardinality(DOMAIN list) = Len(list)
  <2>1. 1 \in Int /\ Len(list) \in Int /\ Len(list) = IF 1 > Len(list) THEN 0 ELSE Len(list) - 1 + 1
    BY <1>0
  <2>2. Cardinality(1 .. Len(list)) = Len(list)
    BY <2>1, FS_Interval
  <2> QED
    BY <1>0, <2>2
<1> DEFINE e == list[Min(Here(s, list, 1))]
           a == AgainOf(s, list, s, 1)
<1>6. IsAgain(s, 1, e, Len(list), a)
  <2>1. \E b : IsAgain(s, 1, e, Len(list), b)
    BY <1>0, AgainExists
  <2> QED
    BY <2>1 DEF AgainOf
<1>7. Len(list) # 0 => e.old = <<>> /\ e.new \in Seq(Letter)
  <2> SUFFICES ASSUME Len(list) # 0 PROVE e.old = <<>> /\ e.new \in Seq(Letter)
    OBVIOUS
  <2>1. DOMAIN list \in SUBSET Nat /\ DOMAIN list # {}
    BY <1>0
  <2>2. Min(DOMAIN list) \in DOMAIN list
    BY <2>1, MinIs
  <2> QED
    BY <1>1, <1>3, <2>2
<1> HIDE DEF e, a
<1> DEFINE Bad == {k \in Nat : k <= Len(list) /\ a[k] \notin Seq(Letter)}
<1>8. Bad = {}
  <2> SUFFICES ASSUME Bad # {} PROVE FALSE
    OBVIOUS
  <2>1. PICK k \in Bad : \A j \in Bad : k <= j
    <3>1. Bad \in SUBSET Nat
      OBVIOUS
    <3> QED
      BY <3>1, MinExists
  <2>2. k \in Nat /\ k <= Len(list) /\ a[k] \notin Seq(Letter)
    BY <2>1
  <2>3. k # 0
    <3>1. 0 \in 0 .. Len(list)
      BY <1>0
    <3>2. a[0] = s
      BY <1>6, <3>1 DEF IsAgain
    <3> QED
      BY <1>0, <2>2, <3>2
  <2>4. k \in 0 .. Len(list) /\ k - 1 \in Nat /\ k - 1 <= Len(list) /\ ~ (k <= k - 1) /\ Len(list) # 0
    BY <1>0, <2>2, <2>3
  <2> DEFINE r == a[k - 1]
  <2>5. r \in Seq(Letter)
    BY <2>1, <2>4
  <2>6. a[k] = Substituted(r, 1, e)
    BY <1>6, <2>3, <2>4 DEF IsAgain
  <2> HIDE DEF r
  <2>7. a[k] = SubSeq(r, 1, 0) \o e.new \o SubSeq(r, 1, Len(r))
    <3>1. e.old = <<>> /\ Len(<<>>) = 0 /\ 1 - 1 = 0 /\ 1 + 0 = 1
      BY <1>7, <2>4
    <3> QED
      BY <2>6, <3>1 DEF Substituted
  <2>8. SubSeq(r, 1, 0) = <<>> /\ SubSeq(r, 1, Len(r)) = r
    BY <2>5, SubSeqEmpty, SubSeqFull
  <2>9. e.new \in Seq(Letter)
    BY <1>7, <2>4
  <2>10. <<>> \o e.new = e.new
    BY <2>9, ConcatEmptySeq
  <2>11. e.new \o r \in Seq(Letter)
    BY <2>5, <2>9, ConcatProperties
  <2> QED
    BY <2>2, <2>7, <2>8, <2>10, <2>11
<1>9. d[1] = a[Len(list)]
  BY <1>4, <1>5 DEF a
<1>10. a[Len(list)] \in Seq(Letter)
  BY <1>0, <1>8
<1> QED
  BY <1>9, <1>10 DEF s

LEMMA AppliedTyped ==
  ASSUME NEW s \in Seq(Letter), NEW list \in Seq(Change), Applicable(s, list)
  PROVE  Applied(s, list) \in Seq(Letter)
<1>1. CASE s = <<>>
  BY <1>1, AppliedToNothing
<1>2. CASE s # <<>>
  BY <1>2, ApplicableFits, AppliedOnce
<1> QED
  BY <1>1, <1>2

-----------------------------------------------------------------------------
(* Tools: the file under the editors. *)

Inside(e) == edit[e] \in {"locked", "read", "truncated"}

EditsInv ==
  /\ edit \in [Editor -> {"idle", "locked", "read", "truncated", "done", "failed"}]
  /\ DOMAIN mutex = {LockOf[e] : e \in Editor}
  /\ original = [e \in Editor |-> original[e]] /\ replaced = [e \in Editor |-> replaced[e]]
  /\ \A e \in Editor : Inside(e) => mutex[LockOf[e]] = e
  /\ \A e \in Editor : Alone(e) =>
       /\ edit[e] = "read" => original[e] = text
       /\ edit[e] \in {"truncated", "done"} /\ original[e] # <<>> => original[e] = replaced[e]

\* What an edit that succeeds has read is what it has replaced: nothing that
\* another call of the process wrote is lost.
NoEditLost ==
  \A e \in Editor :
    edit[e] \in {"truncated", "done"} /\ original[e] # <<>> /\ Alone(e) => original[e] = replaced[e]

\* Only one editor of a process is inside.
LEMMA OneInside ==
  ASSUME EditsInv, NEW e \in Editor, NEW f \in Editor, Alone(e), Inside(e), Inside(f)
  PROVE  e = f
<1>1. LockOf[f] = LockOf[e]
  BY DEF Alone
<1> QED
  BY <1>1 DEF EditsInv

\* A step of an editor that is inside and leaves the lock alone, or hands it back.
LEMMA InsideStep ==
  ASSUME EditsInv, NEW e \in Editor, Inside(e), NEW after \in {"read", "truncated", "done", "failed"},
         edit' = [edit EXCEPT ![e] = after],
         mutex' = IF after \in {"done", "failed"} THEN [mutex EXCEPT ![LockOf[e]] = NoEditor] ELSE mutex,
         NEW said, original' = [original EXCEPT ![e] = said],
         NEW was, replaced' = [replaced EXCEPT ![e] = was],
         after = "read" => said = text',
         after \in {"truncated", "done"} /\ Alone(e) /\ said # <<>> => said = was,
         after \in {"read", "failed"} => text' = text
  PROVE  EditsInv'
<1>1. /\ edit \in [Editor -> {"idle", "locked", "read", "truncated", "done", "failed"}]
      /\ DOMAIN mutex = {LockOf[f] : f \in Editor}
      /\ original = [f \in Editor |-> original[f]] /\ replaced = [f \in Editor |-> replaced[f]]
      /\ \A f \in Editor : Inside(f) => mutex[LockOf[f]] = f
      /\ NoEditor \notin Editor
  BY ToolsAssumption DEF EditsInv
<1>2. /\ edit' \in [Editor -> {"idle", "locked", "read", "truncated", "done", "failed"}]
      /\ DOMAIN mutex' = {LockOf[f] : f \in Editor}
      /\ original' = [f \in Editor |-> original'[f]] /\ replaced' = [f \in Editor |-> replaced'[f]]
  BY <1>1
<1>3. /\ edit'[e] = after /\ original'[e] = said /\ replaced'[e] = was
      /\ \A f \in Editor : f # e => /\ edit'[f] = edit[f] /\ original'[f] = original[f]
                                    /\ replaced'[f] = replaced[f]
  BY <1>1
<1>4. ASSUME NEW f \in Editor, Inside(f)' PROVE mutex'[LockOf[f]] = f
  <2>1. CASE f = e
    <3>1. after \in {"read", "truncated"}
      BY <1>3, <1>4, <2>1 DEF Inside
    <3> QED
      BY <1>1, <2>1, <3>1
  <2>2. CASE f # e
    <3>1. Inside(f)
      BY <1>3, <1>4, <2>2 DEF Inside
    <3>2. LockOf[f] # LockOf[e]
      BY <1>1, <2>2, <3>1
    <3> QED
      BY <1>1, <3>1, <3>2
  <2> QED
    BY <2>1, <2>2
<1>5. ASSUME NEW f \in Editor, Alone(f)
      PROVE  /\ edit'[f] = "read" => original'[f] = text'
             /\ edit'[f] \in {"truncated", "done"} /\ original'[f] # <<>> => original'[f] = replaced'[f]
  <2>1. CASE f = e
    BY <1>3, <1>5, <2>1
  <2>2. CASE f # e
    <3>1. ~ Inside(f)
      BY <1>5, <2>2, OneInside
    <3>2. edit'[f] # "read"
      BY <1>3, <2>2, <3>1 DEF Inside
    <3> QED
      BY <1>3, <1>5, <2>2, <3>2 DEF EditsInv
  <2> QED
    BY <2>1, <2>2
<1>6. \A f : Alone(f)' <=> Alone(f)
  BY DEF Alone
<1> QED
  BY <1>2, <1>4, <1>5, <1>6 DEF EditsInv

LEMMA LockPathKeeps ==
  ASSUME EditsInv, NEW e \in Editor, LockPath(e)
  PROVE  EditsInv'
<1>1. /\ edit \in [Editor -> {"idle", "locked", "read", "truncated", "done", "failed"}]
      /\ DOMAIN mutex = {LockOf[f] : f \in Editor}
      /\ NoEditor \notin Editor
      /\ \A f \in Editor : Inside(f) => mutex[LockOf[f]] = f
  BY ToolsAssumption DEF EditsInv
<1>2. /\ edit[e] = "idle" /\ mutex[LockOf[e]] = NoEditor
      /\ mutex' = [mutex EXCEPT ![LockOf[e]] = e]
      /\ edit' = [edit EXCEPT ![e] = "locked"]
      /\ text' = text /\ original' = original /\ replaced' = replaced
  BY DEF LockPath
<1>3. ASSUME NEW f \in Editor, Inside(f)' PROVE mutex'[LockOf[f]] = f
  <2>1. CASE f = e
    BY <1>1, <1>2, <2>1
  <2>2. CASE f # e
    <3>1. Inside(f)
      BY <1>1, <1>2, <1>3, <2>2 DEF Inside
    <3>2. LockOf[f] # LockOf[e]
      BY <1>1, <1>2, <3>1
    <3> QED
      BY <1>1, <1>2, <3>1, <3>2
  <2> QED
    BY <2>1, <2>2
<1>4. ASSUME NEW f \in Editor
      PROVE  edit'[f] \in {"read", "truncated", "done"} => edit'[f] = edit[f]
  BY <1>1, <1>2
<1>5. \A f : Alone(f)' <=> Alone(f)
  BY DEF Alone
<1>6. edit' \in [Editor -> {"idle", "locked", "read", "truncated", "done", "failed"}]
  BY <1>1, <1>2
<1>7. DOMAIN mutex' = DOMAIN mutex
  BY <1>2
<1> QED
  BY <1>1, <1>2, <1>3, <1>4, <1>5, <1>6, <1>7 DEF EditsInv

THEOREM EditsInvariant == ToolsSpec => []EditsInv
<1>1. ToolsInit => EditsInv
  BY DEF ToolsInit, EditsInv, Inside
<1>2. EditsInv /\ [ToolsNext]_toolVars => EditsInv'
  <2> SUFFICES ASSUME EditsInv, [ToolsNext]_toolVars PROVE EditsInv'
    OBVIOUS
  <2>1. UNCHANGED editVars => EditsInv'
    BY DEF editVars, EditsInv, Inside, Alone
  <2>2. /\ edit \in [Editor -> {"idle", "locked", "read", "truncated", "done", "failed"}]
        /\ original = [f \in Editor |-> original[f]] /\ replaced = [f \in Editor |-> replaced[f]]
    BY DEF EditsInv
  <2>3. ASSUME NEW e \in Editor, EditRead(e) PROVE EditsInv'
    <3>1. /\ edit[e] = "locked" /\ original' = [original EXCEPT ![e] = text]
          /\ text' = text /\ replaced' = replaced
          /\ \/ edit' = [edit EXCEPT ![e] = "read"] /\ mutex' = mutex
             \/ /\ edit' = [edit EXCEPT ![e] = "failed"]
                /\ mutex' = [mutex EXCEPT ![LockOf[e]] = NoEditor]
      BY <2>3 DEF EditRead
    <3>2. Inside(e) /\ replaced' = [replaced EXCEPT ![e] = replaced[e]]
      BY <2>2, <3>1 DEF Inside
    <3>3. CASE edit' = [edit EXCEPT ![e] = "read"] /\ mutex' = mutex
      BY <3>1, <3>2, <3>3, InsideStep
    <3>4. CASE /\ edit' = [edit EXCEPT ![e] = "failed"]
               /\ mutex' = [mutex EXCEPT ![LockOf[e]] = NoEditor]
      BY <3>1, <3>2, <3>4, InsideStep
    <3> QED
      BY <3>1, <3>3, <3>4
  <2>4. ASSUME NEW e \in Editor, EditWrite(e) PROVE EditsInv'
    <3>1. /\ edit[e] = "read" /\ replaced' = [replaced EXCEPT ![e] = text]
          /\ edit' = [edit EXCEPT ![e] = "truncated"] /\ mutex' = mutex /\ original' = original
      BY <2>4 DEF EditWrite, Truncated
    <3>2. Inside(e) /\ original' = [original EXCEPT ![e] = original[e]]
      BY <2>2, <3>1 DEF Inside
    <3>3. Alone(e) => original[e] = text
      BY <3>1 DEF EditsInv
    <3> QED
      BY <3>1, <3>2, <3>3, InsideStep
  <2>5. ASSUME NEW e \in Editor, NEW content \in Texts, WriteTool(e, content) PROVE EditsInv'
    <3>1. /\ edit[e] = "locked" /\ replaced' = [replaced EXCEPT ![e] = text]
          /\ edit' = [edit EXCEPT ![e] = "truncated"] /\ mutex' = mutex
          /\ original' = [original EXCEPT ![e] = <<>>]
      BY <2>5 DEF WriteTool, Truncated
    <3>2. Inside(e)
      BY <3>1 DEF Inside
    <3> QED
      BY <3>1, <3>2, InsideStep
  <2>6. ASSUME NEW e \in Editor, WriteRest(e) PROVE EditsInv'
    <3>1. /\ edit[e] = "truncated" /\ edit' = [edit EXCEPT ![e] = "done"]
          /\ mutex' = [mutex EXCEPT ![LockOf[e]] = NoEditor]
          /\ original' = original /\ replaced' = replaced
      BY <2>6 DEF WriteRest
    <3>2. /\ Inside(e) /\ original' = [original EXCEPT ![e] = original[e]]
          /\ replaced' = [replaced EXCEPT ![e] = replaced[e]]
      BY <2>2, <3>1 DEF Inside
    <3>3. Alone(e) /\ original[e] # <<>> => original[e] = replaced[e]
      BY <3>1 DEF EditsInv
    <3> QED
      BY <3>1, <3>2, <3>3, InsideStep
  <2>7. CASE EditNext
    BY <2>3, <2>4, <2>5, <2>6, <2>7, LockPathKeeps DEF EditNext
  <2>8. ReadNext /\ UNCHANGED <<job, editVars, bashVars>> => UNCHANGED editVars
    OBVIOUS
  <2> QED
    BY <2>1, <2>7 DEF ToolsNext, toolVars
<1> QED
  BY <1>1, <1>2, PTL DEF ToolsSpec

(* However the calls of a process interleave, an edit replaces what it has   *)
(* read (withFileMutationQueue of fs_tools.go).                              *)
THEOREM ToolsNoEditLost == ToolsSpec => []NoEditLost
<1>1. EditsInv => NoEditLost
  BY DEF EditsInv, NoEditLost
<1> QED
  BY <1>1, EditsInvariant, PTL

\* What an edit is about to apply was found applicable to what it has read.
EditsChecked ==
  /\ text \in Seq(Letter)
  /\ original \in [Editor -> Seq(Letter)]
  /\ edits \in [Editor -> Seq(Change)]
  /\ \A e \in Editor : edit[e] \in {"read", "truncated", "done"} => Applicable(original[e], edits[e])

\* A step of one editor.
LEMMA EditsCheckedStep ==
  ASSUME EditsInv, EditsChecked, NEW e \in Editor, NEW after, edit' = [edit EXCEPT ![e] = after],
         NEW said \in Seq(Letter), original' = [original EXCEPT ![e] = said],
         NEW list \in Seq(Change), edits' = [edits EXCEPT ![e] = list],
         after \in {"read", "truncated", "done"} => Applicable(said, list),
         text' \in Seq(Letter)
  PROVE  EditsChecked'
<1>1. DOMAIN edit = Editor
  BY DEF EditsInv
<1>2. original' \in [Editor -> Seq(Letter)] /\ edits' \in [Editor -> Seq(Change)]
  BY DEF EditsChecked
<1>3. ASSUME NEW f \in Editor, edit'[f] \in {"read", "truncated", "done"}
      PROVE  Applicable(original'[f], edits'[f])
  <2>1. CASE f = e
    <3>1. edit'[e] = after /\ original'[e] = said /\ edits'[e] = list
      BY <1>1 DEF EditsChecked
    <3> QED
      BY <1>3, <2>1, <3>1
  <2>2. CASE f # e
    <3>1. edit'[f] = edit[f] /\ original'[f] = original[f] /\ edits'[f] = edits[f]
      BY <1>1, <2>2 DEF EditsChecked
    <3> QED
      BY <1>3, <3>1 DEF EditsChecked
  <2> QED
    BY <2>1, <2>2
<1> QED
  BY <1>2, <1>3 DEF EditsChecked

LEMMA OverwriteApplicable ==
  ASSUME NEW content
  PROVE  Applicable(<<>>, <<[old |-> <<>>, new |-> content]>>)
<1>1. CountOf(<<>>, <<>>) = 1
  BY DEF CountOf
<1>2. DOMAIN <<[old |-> <<>>, new |-> content]>> = {1}
  OBVIOUS
<1>3. <<[old |-> <<>>, new |-> content]>>[1].old = <<>>
  OBVIOUS
<1> QED
  BY <1>1, <1>2, <1>3 DEF Applicable

LEMMA EditsCheckedStays ==
  ASSUME EditsInv, EditsChecked, [ToolsNext]_toolVars
  PROVE  EditsChecked'
<1>1. /\ original = [f \in Editor |-> original[f]] /\ edits = [f \in Editor |-> edits[f]]
      /\ \A f \in Editor : original[f] \in Seq(Letter) /\ edits[f] \in Seq(Change)
      /\ text \in Seq(Letter) /\ <<>> \in Seq(Letter)
  BY DEF EditsChecked
<1>2. UNCHANGED editVars => EditsChecked'
  BY DEF editVars, EditsChecked
<1>3. ASSUME NEW e \in Editor, UNCHANGED <<original, edits>>
      PROVE  original' = [original EXCEPT ![e] = original[e]] /\ edits' = [edits EXCEPT ![e] = edits[e]]
  BY <1>1, <1>3
<1>4. ASSUME NEW e \in Editor, LockPath(e) PROVE EditsChecked'
  <2>1. edit' = [edit EXCEPT ![e] = "locked"] /\ UNCHANGED <<text, original, edits>>
    BY <1>4 DEF LockPath
  <2>2. original' = [original EXCEPT ![e] = original[e]] /\ edits' = [edits EXCEPT ![e] = edits[e]]
    BY <1>3, <2>1
  <2>3. "locked" \notin {"read", "truncated", "done"}
    OBVIOUS
  <2>4. original[e] \in Seq(Letter) /\ edits[e] \in Seq(Change) /\ text' \in Seq(Letter)
    BY <1>1, <2>1
  <2> QED
    BY <2>1, <2>2, <2>3, <2>4, EditsCheckedStep
<1>5. ASSUME NEW e \in Editor, EditRead(e) PROVE EditsChecked'
  <2>1. PICK list \in EditLists :
          /\ original' = [original EXCEPT ![e] = text] /\ edits' = [edits EXCEPT ![e] = list] /\ text' = text
          /\ \/ Applicable(text, list) /\ edit' = [edit EXCEPT ![e] = "read"]
             \/ edit' = [edit EXCEPT ![e] = "failed"]
    BY <1>5 DEF EditRead
  <2>2. list \in Seq(Change)
    BY ToolsAssumption DEF Change
  <2>3. CASE Applicable(text, list) /\ edit' = [edit EXCEPT ![e] = "read"]
    BY <1>1, <2>1, <2>2, <2>3, EditsCheckedStep
  <2>4. CASE edit' = [edit EXCEPT ![e] = "failed"]
    <3>1. "failed" \notin {"read", "truncated", "done"}
      OBVIOUS
    <3>2. text \in Seq(Letter) /\ text' \in Seq(Letter)
      BY <1>1, <2>1
    <3> QED
      BY <2>1, <2>2, <2>4, <3>1, <3>2, EditsCheckedStep
  <2> QED
    BY <2>1, <2>3, <2>4
<1>6. ASSUME NEW e \in Editor, EditWrite(e) PROVE EditsChecked'
  <2>1. edit[e] = "read" /\ edit' = [edit EXCEPT ![e] = "truncated"] /\ text' = <<>> /\ UNCHANGED <<original, edits>>
    BY <1>6 DEF EditWrite, Truncated
  <2>2. original' = [original EXCEPT ![e] = original[e]] /\ edits' = [edits EXCEPT ![e] = edits[e]]
    BY <1>3, <2>1
  <2>3. Applicable(original[e], edits[e])
    BY <2>1 DEF EditsChecked
  <2> QED
    BY <1>1, <2>1, <2>2, <2>3, EditsCheckedStep
<1>7. ASSUME NEW e \in Editor, NEW content \in Texts, WriteTool(e, content) PROVE EditsChecked'
  <2> DEFINE list == <<[old |-> <<>>, new |-> content]>>
  <2>1. /\ edit' = [edit EXCEPT ![e] = "truncated"] /\ text' = <<>>
        /\ original' = [original EXCEPT ![e] = <<>>] /\ edits' = [edits EXCEPT ![e] = list]
    BY <1>7 DEF WriteTool, Truncated
  <2>2. content \in Seq(Letter)
    BY ToolsAssumption
  <2>3. [old |-> <<>>, new |-> content] \in Change
    BY <1>1, <2>2 DEF Change
  <2>4. list \in Seq(Change)
    BY <2>3
  <2>5. Applicable(<<>>, list)
    BY OverwriteApplicable
  <2> HIDE DEF list
  <2> QED
    BY <1>1, <2>1, <2>4, <2>5, EditsCheckedStep
<1>8. ASSUME NEW e \in Editor, WriteRest(e) PROVE EditsChecked'
  <2>1. /\ edit[e] = "truncated" /\ edit' = [edit EXCEPT ![e] = "done"]
        /\ text' = Applied(original[e], edits[e]) /\ UNCHANGED <<original, edits>>
    BY <1>8 DEF WriteRest
  <2>2. original' = [original EXCEPT ![e] = original[e]] /\ edits' = [edits EXCEPT ![e] = edits[e]]
    BY <1>3, <2>1
  <2>3. Applicable(original[e], edits[e])
    BY <2>1 DEF EditsChecked
  <2>4. Applied(original[e], edits[e]) \in Seq(Letter)
    BY <1>1, <2>3, AppliedTyped
  <2> QED
    BY <1>1, <2>1, <2>2, <2>3, <2>4, EditsCheckedStep
<1>9. EditNext => EditsChecked'
  BY <1>4, <1>5, <1>6, <1>7, <1>8 DEF EditNext
<1> QED
  BY <1>2, <1>9 DEF ToolsNext, toolVars

(* The regions that are replaced one after another from the back come out as *)
(* if they had been replaced all at the same time, in the text that was in   *)
(* the file: EditTool.Execute (fs_tools.go:368-395).                         *)
THEOREM ToolsEditsExact == ToolsSpec => []EditsExact
<1>1. ToolsInit => EditsChecked
  <2> SUFFICES ASSUME ToolsInit PROVE EditsChecked
    OBVIOUS
  <2>1. <<>> \in Seq(Letter) /\ <<>> \in Seq(Change)
    OBVIOUS
  <2>2. text \in Seq(Letter)
    BY <2>1, ToolsAssumption DEF ToolsInit
  <2>3. /\ original = [e \in Editor |-> <<>>] /\ edits = [e \in Editor |-> <<>>]
        /\ \A e \in Editor : edit[e] = "idle"
    BY DEF ToolsInit
  <2> QED
    BY <2>1, <2>2, <2>3 DEF EditsChecked
<1>2. EditsInv /\ EditsChecked /\ [ToolsNext]_toolVars => EditsChecked'
  BY EditsCheckedStays
<1>3. EditsInv /\ EditsChecked => EditsExact
  <2> SUFFICES ASSUME EditsInv, EditsChecked, NEW e \in Editor,
                      edit[e] \in {"truncated", "done"}, original[e] # <<>>, Alone(e)
               PROVE  Applied(original[e], edits[e]) = AllAtOnce(replaced[e], edits[e])
    BY DEF EditsExact
  <2>1. original[e] = replaced[e]
    BY DEF EditsInv
  <2>2. original[e] \in Seq(Letter) /\ edits[e] \in Seq(Change) /\ Applicable(original[e], edits[e])
    BY DEF EditsChecked
  <2>3. RegionsFit(original[e], edits[e])
    BY <2>2, ApplicableFits
  <2>4. Applied(original[e], edits[e]) = AllAtOnce(original[e], edits[e])
    BY <2>2, <2>3, AppliedOnce
  <2> QED
    BY <2>1, <2>4
<1> QED
  BY <1>1, <1>2, <1>3, EditsInvariant, PTL DEF ToolsSpec

-----------------------------------------------------------------------------
\* Each store of the sum behaves as it does alone, and has its shape.
THEOREM StoresTyped == StoresSpec => []StoresTypeOK
<1>1. StoresInit => LogInit /\ TreeInit /\ RegistryInit /\ MemoryInit /\ AuthInit
  BY DEF StoresInit
<1>2. [StoresNext]_storesVars =>
        /\ [LogNext]_logVars /\ [TreeNext]_treeVars /\ [RegistryNext]_registryVars
        /\ [MemoryNext]_memoryVars /\ [AuthNext]_authVars
  BY DEF StoresNext, storesVars
<1>3. LogTypeOK /\ TreeTypeOK /\ RegistryTypeOK /\ MemoryTypeOK /\ AuthTypeOK => StoresTypeOK
  BY DEF StoresTypeOK
<1> QED
  BY <1>1, <1>2, <1>3, LogTyped, TreeTyped, RegistryTyped, MemoryTyped, AuthTypedAlways, PTL
     DEF StoresSpec, LogSpec, TreeSpec, RegistrySpec, MemorySpec, AuthSpec
=============================================================================
