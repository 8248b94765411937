--------------------------- MODULE SessionTreeProofs ---------------------------
(***************************************************************************)
(* Proofs about SessionTree: what a compaction keeps, whatever the turns   *)
(* are, wherever the user goes back to, and however often the conversation *)
(* is compacted.                                                           *)
(*                                                                         *)
(* The invariant speaks of each entry.  A tool result hangs at the message *)
(* with its call or at another result of it (Attached).  A compaction keeps  *)
(* a message that is no tool result, and all messages before that one are  *)
(* in its summary (Covering): those from where the last compaction left    *)
(* off are in the plan, those before it are in the earlier summary.        *)
(* Nothing changes in an entry that is in the log, so an action is seen    *)
(* through what it appends (Extends).                                      *)
(***************************************************************************)
EXTENDS SessionTree, SessionEntriesProofs

InPlace(s, i) ==
  /\ s[i].id = i
  /\ s[i].parent \in 0..(i - 1)
  /\ s[i].kept \in 0..(i - 1)
  /\ s[i].covers \subseteq 1..(i - 1)
  /\ s[i].role # "none" => IsMessage(s[i])

IsResult(entry) == entry.role = "toolResult"

Attached(s, i) ==
  IsResult(s[i]) =>
    /\ s[i].parent # 0 /\ IsMessage(s[s[i].parent])
    /\ s[i].of \in 1..(i - 1) /\ IsMessage(s[s[i].of])
    /\ \/ s[i].of = s[i].parent
       \/ IsResult(s[s[i].parent]) /\ s[i].of = s[s[i].parent].of

\* A message before what a summary of only the prefix of a turn keeps.
Passed(s, i) == \E c \in DOMAIN s : IsCompaction(s[c]) /\ s[c].covers = {} /\ i < s[c].kept

Covering(s, i) ==
  IsCompaction(s[i]) =>
    /\ s[i].kept # 0 /\ IsMessage(s[s[i].kept]) /\ ~ IsResult(s[s[i].kept])
    /\ \A j \in 1..(s[i].kept - 1) : IsMessage(s[j]) => j \in s[i].covers \/ Passed(s, j)

Fine(s, i) == InPlace(s, i) /\ Attached(s, i) /\ Covering(s, i)

Whole(s) == IsSeq(s) /\ \A i \in DOMAIN s : Fine(s, i)

TreeInv == keepTokens \in TokenBudgets /\ Whole(log)

-----------------------------------------------------------------------------
(* A log that grows. *)

Extends(r, s) ==
  /\ IsSeq(r) /\ Len(s) <= Len(r)
  /\ \A i \in DOMAIN s : r[i] = s[i]

LEMMA FineStays ==
  ASSUME NEW s, Whole(s), NEW r, Extends(r, s), NEW i \in DOMAIN s
  PROVE  Fine(r, i)
<1>1. /\ Len(s) \in Nat /\ DOMAIN s = 1..Len(s) /\ Len(r) \in Nat /\ DOMAIN r = 1..Len(r)
      /\ DOMAIN s \subseteq DOMAIN r /\ Fine(s, i) /\ r[i] = s[i] /\ i \in Nat
      /\ \A j \in DOMAIN s : r[j] = s[j]
  BY DEF Whole, Extends, IsSeq
<1>2. InPlace(r, i) /\ InPlace(s, i)
  BY <1>1 DEF Fine, InPlace
<1>3. Attached(r, i)
  <2> SUFFICES ASSUME IsResult(r[i]) PROVE Attached(r, i)
    BY DEF Attached
  <2>1. s[i].parent \in DOMAIN s /\ s[i].of \in DOMAIN s
    BY <1>1, <1>2 DEF Fine, Attached, InPlace
  <2>2. r[s[i].parent] = s[s[i].parent] /\ r[s[i].of] = s[s[i].of]
    BY <1>1, <2>1
  <2> QED
    BY <1>1, <2>2 DEF Fine, Attached
<1>4. Covering(r, i)
  <2> SUFFICES ASSUME IsCompaction(r[i]) PROVE Covering(r, i)
    BY DEF Covering
  <2>1. /\ s[i].kept \in DOMAIN s /\ s[i].kept \in Nat
        /\ \A j \in 1..(s[i].kept - 1) : j \in DOMAIN s
    BY <1>1, <1>2 DEF Fine, Covering, InPlace
  <2>2. \A j : Passed(s, j) => Passed(r, j)
    BY <1>1 DEF Passed
  <2>3. \A j \in 1..(s[i].kept - 1) : IsMessage(r[j]) => j \in r[i].covers \/ Passed(r, j)
    BY <1>1, <2>1, <2>2 DEF Fine, Covering
  <2> QED
    BY <1>1, <2>1, <2>3 DEF Fine, Covering
<1> QED
  BY <1>2, <1>3, <1>4 DEF Fine

LEMMA WholeGrows ==
  ASSUME NEW s, Whole(s), NEW r, Extends(r, s),
         \A i \in DOMAIN r \ DOMAIN s : Fine(r, i)
  PROVE  Whole(r)
  BY FineStays DEF Whole, Extends

LEMMA LeafIs ==
  ASSUME Whole(log)
  PROVE  /\ Leaf = Len(log) /\ Len(log) \in Nat /\ DOMAIN log = 1..Len(log)
         /\ log # <<>> => Leaf \in Ids(log)
<1>1. Len(log) \in Nat /\ DOMAIN log = 1..Len(log) /\ (log = <<>> <=> Len(log) = 0)
  BY DEF Whole, IsSeq
<1>2. CASE log = <<>>
  BY <1>1, <1>2 DEF Leaf, LastId, NoEntry
<1>3. CASE log # <<>>
  <2>1. Len(log) \in DOMAIN log /\ Leaf = log[Len(log)].id
    BY <1>1, <1>3 DEF Leaf, LastId, Last
  <2>2. log[Len(log)].id = Len(log)
    BY <2>1 DEF Whole, Fine, InPlace
  <2> QED
    BY <1>1, <2>1, <2>2 DEF Ids
<1> QED
  BY <1>2, <1>3

\* What one entry is appended to.
LEMMA AppendedExtends ==
  ASSUME Whole(log), NEW e
  PROVE  LET r == Append(log, e)
         IN /\ Extends(r, log) /\ r[NextId] = e /\ NextId \in Nat
            /\ DOMAIN r \ DOMAIN log = {NextId}
<1>1. /\ IsSeq(Append(log, e)) /\ Len(log) \in Nat /\ DOMAIN log = 1..Len(log)
      /\ DOMAIN Append(log, e) = 1..(Len(log) + 1)
      /\ \A i \in DOMAIN log : Append(log, e)[i] = log[i]
      /\ Append(log, e)[Len(log) + 1] = e
  BY Appended DEF Whole
<1>2. Len(Append(log, e)) = Len(log) + 1
  BY <1>1 DEF IsSeq
<1> QED
  BY <1>1, <1>2 DEF Extends, NextId

-----------------------------------------------------------------------------
(* A turn is appended. *)

\* The message with the calls of a tool result, in the shape of a turn.
Caller(shape, k) == Max({j \in 1..(k - 1) : shape[j][1] = "assistant"})

LEMMA CallerIs ==
  ASSUME NEW shape, shape \in Seq(Range(shape)), ResultsFollow(shape),
         NEW k \in DOMAIN shape, shape[k][1] = "toolResult"
  PROVE  /\ k - 1 \in DOMAIN shape
         /\ Caller(shape, k) \in 1..(k - 1)
         /\ \/ Caller(shape, k) = k - 1
            \/ shape[k - 1][1] = "toolResult" /\ Caller(shape, k) = Caller(shape, k - 1)
<1> DEFINE Calls(i) == {j \in 1..(i - 1) : shape[j][1] = "assistant"}
           Bad == {i \in DOMAIN shape : shape[i][1] = "toolResult" /\ Calls(i) = {}}
<1>1. Len(shape) \in Nat /\ DOMAIN shape = 1..Len(shape)
  OBVIOUS
<1>2. ASSUME NEW i \in DOMAIN shape, shape[i][1] = "toolResult"
      PROVE  /\ i - 1 \in DOMAIN shape /\ i \in Nat
             /\ shape[i - 1][1] = "assistant" => i - 1 \in Calls(i)
             /\ shape[i - 1][1] # "assistant" =>
                  shape[i - 1][1] = "toolResult" /\ Calls(i) = Calls(i - 1)
  <2>1. i > 1 /\ shape[i - 1][1] \in {"assistant", "toolResult"}
    BY <1>2 DEF ResultsFollow
  <2>2. i \in Nat /\ i - 1 \in DOMAIN shape /\ i - 1 \in 1..(i - 1)
    BY <1>1, <2>1
  <2>3. ASSUME shape[i - 1][1] # "assistant" PROVE Calls(i) = Calls(i - 1)
    <3>1. \A j \in 1..(i - 1) : j = i - 1 \/ j \in 1..((i - 1) - 1)
      BY <2>2
    <3>2. \A j \in 1..((i - 1) - 1) : j \in 1..(i - 1)
      BY <2>2
    <3> QED
      BY <2>3, <3>1, <3>2
  <2> QED
    BY <2>1, <2>2, <2>3
<1>3. Bad = {}
  <2> SUFFICES ASSUME Bad # {} PROVE FALSE
    OBVIOUS
  <2>1. PICK m \in Bad : \A i \in Bad : m <= i
    <3>1. Bad \in SUBSET Nat
      BY <1>1
    <3> QED
      BY <3>1, MinExists
  <2>2. m \in DOMAIN shape /\ shape[m][1] = "toolResult" /\ Calls(m) = {}
    BY <2>1
  <2> HIDE DEF Calls
  <2>3. /\ m - 1 \in DOMAIN shape /\ m \in Nat
        /\ shape[m - 1][1] = "toolResult" /\ Calls(m - 1) = {}
    BY <1>2, <2>2
  <2>4. m <= m - 1
    BY <2>1, <2>3
  <2> QED
    BY <2>3, <2>4
<1>4. Calls(k) # {} /\ Calls(k) \in SUBSET Nat /\ k \in Nat /\ \A x \in Calls(k) : x <= k - 1
  BY <1>1, <1>2, <1>3
<1>5. Caller(shape, k) = Max(Calls(k)) /\ Caller(shape, k - 1) = Max(Calls(k - 1))
  BY DEF Caller
<1>6. k - 1 \in Nat
  BY <1>1, <1>2
<1>7. Max(Calls(k)) \in Calls(k) /\ \A x \in Calls(k) : x <= Max(Calls(k))
  <2> HIDE DEF Calls
  <2> QED
    BY <1>4, <1>6, MaxIs
<1>8. Max(Calls(k)) \in 1..(k - 1)
  BY <1>7
<1>9. CASE shape[k - 1][1] = "assistant"
  <2>1. k - 1 <= Max(Calls(k))
    BY <1>2, <1>7, <1>9
  <2>2. Max(Calls(k)) = k - 1
    BY <1>4, <1>8, <2>1
  <2> QED
    BY <1>2, <1>5, <1>8, <2>2
<1>10. CASE shape[k - 1][1] # "assistant"
  <2>1. shape[k - 1][1] = "toolResult" /\ Calls(k) = Calls(k - 1)
    BY <1>2, <1>10
  <2> QED
    BY <1>2, <1>5, <1>8, <2>1
<1> QED
  BY <1>9, <1>10

LEMMA TurnEntriesAre ==
  ASSUME Whole(log), NEW shape \in TreeShapes
  PROVE  LET r == log \o TurnEntries(shape)
             n == Len(log)
         IN /\ Extends(r, log)
            /\ DOMAIN r = 1..(n + Len(shape) + 1) /\ n \in Nat /\ Len(shape) \in Nat
            /\ DOMAIN shape = 1..Len(shape)
            /\ \A k \in DOMAIN shape :
                 r[n + k] = Message(n + k, n + (k - 1), shape[k][1],
                                    IF shape[k][1] = "toolResult" THEN n + Caller(shape, k) ELSE NoEntry,
                                    shape[k][2], shape[k][3])
            /\ r[n + Len(shape) + 1] = Entry(n + Len(shape) + 1, n + Len(shape), "operation_finished")
<1> DEFINE n == Len(log)
           m == Len(shape)
           Said(k) == Message(n + k, n + (k - 1), shape[k][1],
                              IF shape[k][1] = "toolResult" THEN n + Caller(shape, k) ELSE NoEntry,
                              shape[k][2], shape[k][3])
           messages == [k \in 1..m |-> Said(k)]
           over == Entry(n + m + 1, n + m, "operation_finished")
           added == messages \o <<over>>
           r == log \o added
           S == Range(log) \cup {Said(k) : k \in 1..m} \cup {over}
<1>1. shape \in Seq(Range(shape)) /\ m \in Nat /\ DOMAIN shape = 1..m
  BY TreeAssumption
<1>2. n \in Nat /\ DOMAIN log = 1..n /\ Leaf = n /\ log \in Seq(Range(log))
  BY LeafIs DEF Whole, IsSeq
<1>3. TurnEntries(shape) = added
  BY <1>2 DEF TurnEntries, Caller
<1> HIDE DEF Said, over
<1>4. log \in Seq(S) /\ messages \in Seq(S) /\ Len(messages) = m /\ over \in S
  <2>1. Range(log) \subseteq S
    OBVIOUS
  <2>2. log \in Seq(S)
    BY <1>2 DEF Range
  <2> QED
    BY <1>1, <2>2
<1>5. /\ added \in Seq(S) /\ Len(added) = m + 1
      /\ \A k \in 1..m : added[k] = Said(k)
      /\ added[m + 1] = over
  <2>1. \A k \in 1..m : messages[k] = Said(k)
    OBVIOUS
  <2> HIDE DEF messages, S
  <2>2. <<over>> \in Seq(S) /\ Len(<<over>>) = 1 /\ <<over>>[1] = over
    BY <1>4
  <2> QED
    BY <1>1, <1>4, <2>1, <2>2
<1> HIDE DEF added, S
<1>6. /\ r \in Seq(S) /\ Len(r) = n + m + 1 /\ DOMAIN r = 1..(n + m + 1)
      /\ \A i \in 1..n : r[i] = log[i]
      /\ \A k \in 1..(m + 1) : r[n + k] = added[k]
  BY <1>1, <1>2, <1>4, <1>5
<1>7. \A k \in 1..m : r[n + k] = Said(k)
  BY <1>1, <1>5, <1>6
<1>8. r[n + m + 1] = over
  <2>1. m + 1 \in 1..(m + 1) /\ n + (m + 1) = n + m + 1
    BY <1>1, <1>2
  <2> QED
    BY <1>5, <1>6, <2>1
<1>9. Extends(r, log)
  <2>1. IsSeq(r)
    <3> HIDE DEF r
    <3> QED
      BY <1>6, OfItsRange
  <2> QED
    BY <1>1, <1>2, <1>6, <2>1 DEF Extends
<1> QED
  BY <1>1, <1>2, <1>3, <1>6, <1>7, <1>8, <1>9 DEF Said, over

LEMMA PlainFine ==
  ASSUME NEW s, NEW i \in Nat \ {0}, NEW parent \in 0..(i - 1), NEW type, type # "compaction",
         s[i] = Entry(i, parent, type)
  PROVE  Fine(s, i)
<1>1. /\ s[i].id = i /\ s[i].parent = parent /\ s[i].type = type /\ s[i].role = "none"
      /\ s[i].kept = 0 /\ s[i].covers = {}
  BY DEF Entry, NoEntry
<1>2. 0 \in 0..(i - 1)
  OBVIOUS
<1> QED
  BY <1>1, <1>2 DEF Fine, InPlace, Attached, Covering, IsResult, IsCompaction

LEMMA AppendTurnKeeps == TreeInv /\ AppendTurn => TreeInv'
<1> SUFFICES ASSUME TreeInv, AppendTurn PROVE TreeInv'
  OBVIOUS
<1>1. PICK shape \in TreeShapes : log' = log \o TurnEntries(shape) /\ UNCHANGED keepTokens
  BY DEF AppendTurn
<1> DEFINE r == log \o TurnEntries(shape)
           n == Len(log)
           m == Len(shape)
           Of(k) == IF shape[k][1] = "toolResult" THEN n + Caller(shape, k) ELSE NoEntry
<1>2. Whole(log)
  BY DEF TreeInv
<1>3. /\ Extends(r, log) /\ DOMAIN r = 1..(n + m + 1) /\ n \in Nat /\ m \in Nat /\ DOMAIN shape = 1..m
      /\ \A k \in DOMAIN shape :
           r[n + k] = Message(n + k, n + (k - 1), shape[k][1], Of(k), shape[k][2], shape[k][3])
      /\ r[n + m + 1] = Entry(n + m + 1, n + m, "operation_finished")
  BY <1>2, TurnEntriesAre
<1>4. DOMAIN log = 1..n
  BY <1>2, LeafIs
<1>5. shape \in Seq(Range(shape)) /\ ResultsFollow(shape)
  BY TreeAssumption
<1> HIDE DEF r, n, m, Of
<1>6. \A k \in DOMAIN shape :
        /\ r[n + k].id = n + k /\ r[n + k].parent = n + (k - 1) /\ r[n + k].type = "message"
        /\ r[n + k].role = shape[k][1] /\ r[n + k].of = Of(k)
        /\ r[n + k].kept = 0 /\ r[n + k].covers = {}
  BY <1>3, MessageIs DEF NoEntry
<1>7. ASSUME NEW k \in DOMAIN shape PROVE Fine(r, n + k)
  <2> DEFINE i == n + k
  <2>1. i \in Nat /\ i > 0 /\ n + (k - 1) \in 0..(i - 1) /\ k \in 1..m
    BY <1>3
  <2>2. InPlace(r, i)
    BY <1>6, <2>1 DEF InPlace, IsMessage
  <2>3. Covering(r, i)
    BY <1>6 DEF Covering, IsCompaction
  <2>4. Attached(r, i)
    <3> SUFFICES ASSUME IsResult(r[i]) PROVE Attached(r, i)
      BY DEF Attached
    <3>1. shape[k][1] = "toolResult"
      BY <1>6 DEF IsResult
    <3>2. /\ k - 1 \in DOMAIN shape
          /\ Caller(shape, k) \in 1..(k - 1)
          /\ \/ Caller(shape, k) = k - 1
             \/ shape[k - 1][1] = "toolResult" /\ Caller(shape, k) = Caller(shape, k - 1)
      BY <1>5, <3>1, CallerIs
    <3> DEFINE c == Caller(shape, k)
    <3>3. Of(k) = n + c
      BY <3>1 DEF Of
    <3>4. c \in 1..m /\ c \in Nat /\ c <= k - 1 /\ c >= 1
      <4> HIDE DEF c
      <4>1. c \in 1..(k - 1)
        BY <3>2 DEF c
      <4> QED
        BY <1>3, <2>1, <4>1
    <3> HIDE DEF c
    <3>5. /\ r[i].parent # 0 /\ IsMessage(r[r[i].parent])
      <4>1. r[i].parent = n + (k - 1) /\ r[n + (k - 1)].type = "message"
        BY <1>6, <3>2
      <4>2. k - 1 \in 1..m
        BY <1>3, <3>2
      <4>3. n + (k - 1) # 0
        BY <1>3, <4>2
      <4> QED
        BY <4>1, <4>3 DEF IsMessage
    <3>6. r[i].of = n + c /\ n + c \in 1..(i - 1)
      <4>1. r[i].of = n + c
        BY <1>6, <3>3
      <4>2. n + c \in 1..((n + k) - 1)
        BY <1>3, <2>1, <3>4
      <4> QED
        BY <4>1, <4>2
    <3>7. IsMessage(r[r[i].of])
      BY <1>3, <1>6, <3>4, <3>6 DEF IsMessage
    <3>8. CASE Caller(shape, k) = k - 1
      <4>1. r[i].of = r[i].parent
        BY <1>6, <3>6, <3>8 DEF c
      <4> QED
        BY <3>5, <3>6, <3>7, <4>1 DEF Attached
    <3>9. CASE shape[k - 1][1] = "toolResult" /\ Caller(shape, k) = Caller(shape, k - 1)
      <4>1. r[n + (k - 1)].role = "toolResult" /\ r[n + (k - 1)].of = Of(k - 1)
        BY <1>6, <3>2, <3>9
      <4>2. Of(k - 1) = n + c
        BY <3>9 DEF Of, c
      <4>3. r[i].parent = n + (k - 1)
        BY <1>6
      <4> QED
        BY <3>5, <3>6, <3>7, <4>1, <4>2, <4>3 DEF Attached, IsResult
    <3> QED
      BY <3>2, <3>8, <3>9
  <2> QED
    BY <2>2, <2>3, <2>4 DEF Fine
<1>8. Fine(r, n + m + 1)
  <2>1. n + m + 1 \in Nat \ {0} /\ n + m \in 0..((n + m + 1) - 1)
    BY <1>3
  <2> QED
    BY <1>3, <2>1, PlainFine
<1>9. \A i \in DOMAIN r \ DOMAIN log : Fine(r, i)
  <2> SUFFICES ASSUME NEW i \in DOMAIN r \ DOMAIN log PROVE Fine(r, i)
    OBVIOUS
  <2>1. i \in (n + 1)..(n + m + 1)
    BY <1>3, <1>4
  <2>2. i = n + m + 1 \/ (i - n \in 1..m /\ n + (i - n) = i)
    BY <1>3, <2>1
  <2> QED
    BY <1>3, <1>7, <1>8, <2>2
<1>10. Whole(r)
  BY <1>2, <1>3, <1>9, WholeGrows
<1> QED
  BY <1>1, <1>10 DEF TreeInv, r

LEMMA BranchKeeps == TreeInv /\ Branch => TreeInv'
<1> SUFFICES ASSUME TreeInv, Branch PROVE TreeInv'
  OBVIOUS
<1>1. PICK i \in DOMAIN log : log' = Append(log, Entry(NextId, log[i].id, "branch")) /\ UNCHANGED keepTokens
  BY DEF Branch
<1>2. Whole(log) /\ Len(log) \in Nat /\ DOMAIN log = 1..Len(log)
  BY LeafIs DEF TreeInv
<1>3. log[i].id = i
  BY <1>2 DEF Whole, Fine, InPlace
<1>4. /\ Extends(log', log) /\ log'[NextId] = Entry(NextId, log[i].id, "branch")
      /\ DOMAIN log' \ DOMAIN log = {NextId}
  BY <1>1, <1>2, AppendedExtends
<1>5. NextId \in Nat \ {0} /\ i \in 0..(NextId - 1)
  BY <1>2 DEF NextId
<1>6. Fine(log', NextId)
  BY <1>3, <1>4, <1>5, PlainFine
<1>7. Whole(log')
  BY <1>2, <1>4, <1>6, WholeGrows
<1> QED
  BY <1>1, <1>7 DEF TreeInv

-----------------------------------------------------------------------------
(* A compaction. *)

\* The file is compacted on from where the last compaction left off: what is
\* before that is in the summary of then.
LEMMA StartIs ==
  ASSUME Whole(log), log # <<>>
  PROVE  LET start == CompactionStart(log)
             c == LastCompaction(log)
         IN /\ start \in DOMAIN log
            /\ c = 0 => start = 1
            /\ c # 0 => /\ c \in DOMAIN log /\ IsCompaction(log[c])
                        /\ start = log[c].kept
<1> DEFINE compactions == {i \in DOMAIN log : IsCompaction(log[i])}
           c == LastCompaction(log)
<1>1. Len(log) \in Nat /\ DOMAIN log = 1..Len(log) /\ Len(log) # 0
  BY LeafIs DEF Whole, IsSeq
<1>2. CASE compactions = {}
  <2>1. c = 0
    BY <1>2 DEF LastCompaction
  <2>2. CompactionStart(log) = 1
    BY <2>1 DEF CompactionStart
  <2> QED
    BY <1>1, <2>1, <2>2
<1>3. CASE compactions # {}
  <2>1. c = Max(compactions)
    BY <1>3 DEF LastCompaction
  <2>2. compactions \in SUBSET Nat /\ \A x \in compactions : x <= Len(log)
    BY <1>1
  <2>3. c \in compactions
    BY <1>1, <1>3, <2>1, <2>2, MaxIs
  <2>4. c \in DOMAIN log /\ IsCompaction(log[c]) /\ c # 0
    BY <1>1, <2>3
  <2>5. log[c].kept \in 1..(c - 1) /\ log[c].kept \in DOMAIN log
    BY <1>1, <2>4 DEF Whole, Fine, InPlace, Covering
  <2>6. log[log[c].kept].id = log[c].kept /\ IsSeq(log)
    BY <2>5 DEF Whole, Fine, InPlace
  <2>7. \A i, j \in DOMAIN log : log[i].id = log[j].id => i = j
    BY DEF Whole, Fine, InPlace
  <2>8. PositionOf(log, log[c].kept) = log[c].kept
    BY <2>5, <2>6, <2>7, PositionIs
  <2>9. CompactionStart(log) = log[c].kept
    BY <2>4, <2>5, <2>8 DEF CompactionStart
  <2> QED
    BY <2>4, <2>5, <2>9
<1> QED
  BY <1>2, <1>3

\* What a plan takes the text of, and where it cuts.
Cuts(plan, start, end, cut) ==
  /\ start \in 1..cut /\ end \in start..cut /\ cut \in DOMAIN log
  /\ IsMessage(log[cut]) /\ ~ IsResult(log[cut])
  /\ plan.kept = cut /\ plan.previous = LastCompaction(log)
  /\ plan.messages = {i \in start..(end - 1) : IsMessage(log[i])}
  /\ plan.prefix = {i \in end..(cut - 1) : IsMessage(log[i])}

LEMMA PlanCuts ==
  ASSUME Whole(log), NEW start, NEW end, NEW cut \in DOMAIN log,
         start \in 1..cut, end \in start..cut, IsMessage(log[cut]), ~ IsResult(log[cut]),
         Plan(log, start, end, cut, LastCompaction(log)).ok
  PROVE  Cuts(Plan(log, start, end, cut, LastCompaction(log)), start, end, cut)
<1> DEFINE plan == Plan(log, start, end, cut, LastCompaction(log))
           Said(from, to) == {log[i].id : i \in {j \in from..(to - 1) : IsMessage(log[j])}}
<1>1. Len(log) \in Nat /\ DOMAIN log = 1..Len(log) /\ \A i \in DOMAIN log : log[i].id = i
  BY LeafIs DEF Whole, Fine, InPlace
<1>2. ~ NoPlan.ok
  BY DEF NoPlan
<1>3. /\ plan.kept = log[cut].id /\ plan.previous = LastCompaction(log)
      /\ plan.messages = Said(start, end) /\ plan.prefix = Said(end, cut)
  <2> HIDE DEF Said
  <2>1. plan # NoPlan
    BY <1>2
  <2> QED
    BY <2>1 DEF Plan, Said
<1>4. ASSUME NEW from \in Nat, NEW to \in Nat, from >= 1, to <= Len(log)
      PROVE  Said(from, to) = {i \in from..(to - 1) : IsMessage(log[i])}
  <2>1. \A i \in from..(to - 1) : log[i].id = i
    BY <1>1, <1>4
  <2> QED
    BY <2>1
<1>5. /\ start \in Nat /\ end \in Nat /\ cut \in Nat
      /\ start >= 1 /\ end >= 1 /\ end <= Len(log) /\ cut <= Len(log)
  BY <1>1
<1> HIDE DEF plan
<1>6. Said(start, end) = {i \in start..(end - 1) : IsMessage(log[i])}
  BY <1>4, <1>5
<1>7. Said(end, cut) = {i \in end..(cut - 1) : IsMessage(log[i])}
  BY <1>4, <1>5
<1> HIDE DEF Said
<1>8. plan.kept = cut
  BY <1>1, <1>3
<1>9. Cuts(plan, start, end, cut)
  BY <1>3, <1>6, <1>7, <1>8 DEF Cuts
<1> QED
  BY <1>9 DEF plan

LEMMA TurnPlanCuts ==
  ASSUME Whole(log), PrepareCompaction(log, KeepTurns).ok
  PROVE  \E end, cut : Cuts(PrepareCompaction(log, KeepTurns), CompactionStart(log), end, cut)
<1> DEFINE start == CompactionStart(log)
           users == {i \in start..Len(log) : log[i].role = "user"}
           After(i) == {j \in users : j >= i}
           late == {i \in users : Cardinality(After(i)) >= KeepTurns}
           cut == Max(late)
           plan == Plan(log, start, cut, cut, LastCompaction(log))
<1>1. ~ NoPlan.ok
  BY DEF NoPlan
<1>2. /\ ~ JustCompacted(log) /\ ~ (Cardinality(users) <= KeepTurns)
      /\ PrepareCompaction(log, KeepTurns) = plan
  BY <1>1 DEF PrepareCompaction
<1>3. Len(log) \in Nat /\ DOMAIN log = 1..Len(log) /\ KeepTurns \in Nat \ {0}
  BY LeafIs, TreeAssumption
<1>4. log # <<>>
  <2> SUFFICES ASSUME log = <<>> PROVE FALSE
    OBVIOUS
  <2>1. CompactionStart(log) = 1 /\ Len(log) = 0
    BY DEF CompactionStart, LastCompaction
  <2>2. users = {}
    BY <2>1
  <2>3. Cardinality(users) = 0
    BY <2>2, FS_EmptySet
  <2> HIDE DEF users, plan
  <2> QED
    BY <1>2, <1>3, <2>3
<1>5. Cardinality(users) \in Nat /\ users # {}
  <2>1. start \in Nat
    BY <1>3, <1>4, StartIs
  <2>2. IsFiniteSet(start..Len(log))
    BY <1>3, <2>1, FS_Interval
  <2>3. IsFiniteSet(users)
    BY <2>2, FS_Subset
  <2> HIDE DEF users, plan
  <2>4. Cardinality(users) \in Nat
    BY <2>3, FS_CardinalityType
  <2>5. users # {}
    <3>1. users = {} => Cardinality(users) = 0
      BY FS_EmptySet
    <3> QED
      BY <1>2, <1>3, <3>1
  <2> QED
    BY <2>4, <2>5
<1>6. start \in DOMAIN log /\ users \in SUBSET Nat /\ \A x \in users : x \in DOMAIN log /\ x >= start /\ x <= Len(log)
  BY <1>3, <1>4, StartIs
<1> HIDE DEF users, start
<1>7. Min(users) \in users /\ \A x \in users : Min(users) <= x
  BY <1>5, <1>6, MinIs
<1>8. After(Min(users)) = users
  BY <1>6, <1>7
<1>9. Min(users) \in late
  BY <1>2, <1>3, <1>5, <1>7, <1>8
<1> HIDE DEF After
<1>10. cut \in late
  <2>1. late \in SUBSET Nat /\ late # {} /\ \A x \in late : x <= Len(log)
    BY <1>6, <1>9
  <2> HIDE DEF late
  <2> QED
    BY <1>3, <2>1, MaxIs
<1>11. cut \in users
  BY <1>10
<1> HIDE DEF late, cut
<1>12. cut \in DOMAIN log /\ log[cut].role = "user" /\ start \in 1..cut /\ cut \in start..cut
  <2>1. log[cut].role = "user"
    BY <1>11 DEF users
  <2> QED
    BY <1>3, <1>6, <1>11, <2>1
<1>13. IsMessage(log[cut]) /\ ~ IsResult(log[cut])
  BY <1>12 DEF Whole, Fine, InPlace, IsResult
<1>14. Cuts(plan, start, cut, cut)
  BY <1>2, <1>12, <1>13, PlanCuts
<1> QED
  BY <1>2, <1>14 DEF start

LEMMA TokenPlanCuts ==
  ASSUME Whole(log), NEW budget, PrepareCompactionByTokens(log, budget).ok
  PROVE  \E end, cut : Cuts(PrepareCompactionByTokens(log, budget), CompactionStart(log), end, cut)
<1> DEFINE start == CompactionStart(log)
           cutPoints == {i \in start..Len(log) : IsMessage(log[i]) /\ log[i].role # "toolResult"}
           From(i) == MapThenSumSet(LAMBDA j : log[j].tokens, i..Len(log))
           full == {i \in start..Len(log) : log[i].tokens > 0 /\ From(i) >= budget}
           after == {i \in cutPoints : i >= Max(full)}
           cut == IF after = {} THEN Min(cutPoints) ELSE Min(after)
           opened == {i \in start..cut : log[i].role = "user"}
           splits == log[cut].role # "user" /\ opened # {}
           end == IF splits THEN Max(opened) ELSE cut
           plan == Plan(log, start, end, cut, LastCompaction(log))
<1>1. ~ NoPlan.ok
  BY DEF NoPlan
<1>2. cutPoints # {} /\ PrepareCompactionByTokens(log, budget) = plan
  BY <1>1 DEF PrepareCompactionByTokens
<1>3. Len(log) \in Nat /\ DOMAIN log = 1..Len(log)
  BY LeafIs
<1>4. log # <<>>
  <2> SUFFICES ASSUME log = <<>> PROVE FALSE
    OBVIOUS
  <2>1. CompactionStart(log) = 1 /\ Len(log) = 0
    BY DEF CompactionStart, LastCompaction
  <2>2. start..Len(log) = {}
    BY <2>1
  <2> QED
    BY <1>2, <2>2
<1>5. start \in DOMAIN log
  BY <1>4, StartIs
<1> HIDE DEF start
<1>6. cutPoints \in SUBSET Nat /\ \A x \in cutPoints : x \in DOMAIN log /\ start <= x
  BY <1>3, <1>5
<1>7. after \subseteq cutPoints
  OBVIOUS
<1>8. cut \in cutPoints
  <2> HIDE DEF cutPoints, full, after
  <2>1. CASE after = {}
    BY <1>2, <1>6, <2>1, MinIs
  <2>2. CASE after # {}
    <3>1. after \in SUBSET Nat
      BY <1>6, <1>7
    <3>2. Min(after) \in after
      BY <2>2, <3>1, MinIs
    <3> QED
      BY <1>7, <2>2, <3>2
  <2> QED
    BY <2>1, <2>2
<1>9. IsMessage(log[cut]) /\ ~ IsResult(log[cut])
  BY <1>8 DEF IsResult
<1> HIDE DEF cutPoints, after, cut
<1>10. cut \in DOMAIN log /\ start \in 1..cut /\ cut \in Nat
  BY <1>3, <1>5, <1>6, <1>8
<1>11. end \in start..cut
  <2>1. CASE splits
    <3>1. opened \in SUBSET Nat /\ opened # {} /\ \A x \in opened : x <= cut
      BY <1>10, <2>1
    <3>2. Max(opened) \in opened
      <4> HIDE DEF opened
      <4> QED
        BY <1>10, <3>1, MaxIs
    <3> QED
      BY <2>1, <3>2
  <2>2. CASE ~ splits
    BY <1>10, <2>2
  <2> QED
    BY <2>1, <2>2
<1> HIDE DEF end
<1>12. Cuts(plan, start, end, cut)
  BY <1>1, <1>2, <1>9, <1>10, <1>11, PlanCuts
<1> QED
  BY <1>2, <1>12 DEF start

\* Every message before what is kept is summarised, or passed over when only the
\* prefix of a turn is.
LEMMA CompactKeeps == TreeInv /\ Compact => TreeInv'
<1> SUFFICES ASSUME TreeInv, Compact PROVE TreeInv'
  OBVIOUS
<1> DEFINE plan == CurrentPlan
           start == CompactionStart(log)
           c == LastCompaction(log)
           covers == Summarised(log, plan)
           e == Compaction(NextId, Leaf, plan.kept, covers, plan.details)
           r == Append(log, e)
<1>1. Storable(plan) /\ log' = r /\ UNCHANGED keepTokens
  BY DEF Compact
<1>2. Whole(log) /\ Len(log) \in Nat /\ DOMAIN log = 1..Len(log) /\ Leaf = Len(log)
  BY LeafIs DEF TreeInv
<1>3. PICK end, cut : Cuts(plan, start, end, cut)
  <2>1. plan.ok
    BY <1>1 DEF Storable
  <2>2. CASE keepTokens > 0
    <3>1. plan = PrepareCompactionByTokens(log, keepTokens)
      BY <2>2 DEF CurrentPlan
    <3> QED
      BY <1>2, <2>1, <3>1, TokenPlanCuts
  <2>3. CASE ~ (keepTokens > 0)
    <3>1. plan = PrepareCompaction(log, KeepTurns)
      BY <2>3 DEF CurrentPlan
    <3> QED
      BY <1>2, <2>1, <3>1, TurnPlanCuts
  <2> QED
    BY <2>2, <2>3
<1> HIDE DEF plan, start, c
<1>4. /\ start \in 1..cut /\ end \in start..cut /\ cut \in DOMAIN log
      /\ IsMessage(log[cut]) /\ ~ IsResult(log[cut])
      /\ plan.kept = cut /\ plan.previous = c
      /\ plan.messages = {i \in start..(end - 1) : IsMessage(log[i])}
      /\ plan.prefix = {i \in end..(cut - 1) : IsMessage(log[i])}
  BY <1>3 DEF Cuts, c
<1>5. log # <<>>
  BY <1>2, <1>4
<1>6. /\ c = 0 => start = 1
      /\ c # 0 => c \in DOMAIN log /\ IsCompaction(log[c]) /\ start = log[c].kept
  BY <1>2, <1>5, StartIs DEF start, c
<1>7. /\ Extends(r, log) /\ r[NextId] = e /\ NextId = Len(log) + 1
      /\ DOMAIN r \ DOMAIN log = {NextId}
  BY <1>2, AppendedExtends DEF NextId
<1>8. /\ e.id = NextId /\ e.parent = Leaf /\ e.type = "compaction" /\ e.role = "none"
      /\ e.kept = cut /\ e.covers = covers
  BY <1>4, CompactionIs
<1>9. covers = IF ~ Asked(plan) THEN {}
               ELSE plan.messages \cup plan.prefix \cup (IF c = 0 THEN {} ELSE log[c].covers)
  BY <1>4 DEF Summarised, NoEntry
<1> HIDE DEF covers, e, r
<1>10. cut \in 1..Len(log) /\ start \in 1..Len(log) /\ end \in 1..Len(log)
  BY <1>2, <1>4
<1>11. covers \subseteq 1..Len(log)
  <2>1. plan.messages \subseteq 1..Len(log) /\ plan.prefix \subseteq 1..Len(log)
    BY <1>2, <1>4, <1>10
  <2>2. c # 0 => log[c].covers \subseteq 1..Len(log)
    <3> SUFFICES ASSUME c # 0 PROVE log[c].covers \subseteq 1..Len(log)
      OBVIOUS
    <3>1. c \in 1..Len(log) /\ log[c].covers \subseteq 1..(c - 1)
      BY <1>2, <1>6 DEF Whole, Fine, InPlace
    <3>2. 1..(c - 1) \subseteq 1..Len(log)
      BY <1>2, <3>1
    <3> QED
      BY <3>1, <3>2
  <2> QED
    BY <1>9, <2>1, <2>2
<1>12. InPlace(r, NextId)
  <2>1. NextId - 1 = Len(log)
    BY <1>2, <1>7
  <2>2. Leaf \in 0..Len(log) /\ cut \in 0..Len(log)
    BY <1>2, <1>10
  <2> QED
    BY <1>7, <1>8, <1>11, <2>1, <2>2 DEF InPlace
<1>13. Attached(r, NextId)
  BY <1>7, <1>8 DEF Attached, IsResult
<1>14. \A i \in DOMAIN log : r[i] = log[i]
  BY <1>7 DEF Extends
<1>15. ASSUME NEW j \in 1..(cut - 1), IsMessage(r[j])
       PROVE  j \in covers \/ Passed(r, j)
  <2>1. j \in DOMAIN log /\ j \in Nat /\ IsMessage(log[j]) /\ cut \in Nat /\ j < cut
    BY <1>2, <1>10, <1>14, <1>15
  <2>2. CASE ~ Asked(plan)
    <3>1. covers = {} /\ NextId \in DOMAIN r /\ IsCompaction(r[NextId])
      BY <1>7, <1>8, <1>9, <2>2 DEF IsCompaction
    <3> QED
      BY <1>7, <1>8, <2>1, <3>1 DEF Passed
  <2>3. CASE Asked(plan) /\ j >= start
    <3>1. j \in start..(end - 1) \/ j \in end..(cut - 1)
      BY <1>10, <2>1, <2>3
    <3> QED
      BY <1>4, <1>9, <2>1, <2>3, <3>1
  <2>4. CASE Asked(plan) /\ ~ (j >= start)
    <3>1. j < start /\ c # 0
      BY <1>6, <1>10, <2>1, <2>4
    <3>2. j \in 1..(log[c].kept - 1) /\ Covering(log, c) /\ IsCompaction(log[c])
      BY <1>2, <1>6, <1>10, <2>1, <3>1 DEF Whole, Fine
    <3>3. j \in log[c].covers \/ Passed(log, j)
      BY <2>1, <3>2 DEF Covering
    <3>4. Passed(log, j) => Passed(r, j)
      <4>1. DOMAIN log \subseteq DOMAIN r
        BY <1>2, <1>7 DEF Extends, IsSeq
      <4> QED
        BY <1>14, <4>1 DEF Passed
    <3> QED
      BY <1>9, <2>4, <3>1, <3>3, <3>4
  <2> QED
    BY <2>2, <2>3, <2>4
<1>16. Covering(r, NextId)
  <2>1. r[cut] = log[cut] /\ cut # 0
    BY <1>4, <1>10, <1>14
  <2> QED
    BY <1>4, <1>7, <1>8, <1>15, <2>1 DEF Covering
<1>17. Whole(r)
  <2>1. Fine(r, NextId)
    BY <1>12, <1>13, <1>16 DEF Fine
  <2> QED
    BY <1>2, <1>7, <2>1, WholeGrows
<1> QED
  BY <1>1, <1>17 DEF TreeInv, r, e, covers, plan

-----------------------------------------------------------------------------
(* Whatever the turns, the branches and the compactions are, the log is a    *)
(* tree whose tool results hang at their calls and whose compactions cover   *)
(* what is before the message they keep (AppendTurn, Branch and Compact).    *)
THEOREM TreeInvariant == TreeSpec => []TreeInv
<1>1. TreeInit => TreeInv
  BY DEF TreeInit, TreeInv, Whole, IsSeq
<1>2. TreeInv /\ [TreeNext]_treeVars => TreeInv'
  <2>1. TreeInv /\ UNCHANGED treeVars => TreeInv'
    BY DEF TreeInv, treeVars
  <2> QED
    BY <2>1, AppendTurnKeeps, BranchKeeps, CompactKeeps DEF TreeNext
<1> QED
  BY <1>1, <1>2, PTL DEF TreeSpec

(* The types of what is in the log. *)
THEOREM TreeTyped == TreeSpec => []TreeTypeOK
<1>1. TreeInv => TreeTypeOK
  BY DEF TreeInv, TreeTypeOK, Whole, Fine, InPlace
<1> QED
  BY <1>1, TreeInvariant, PTL

-----------------------------------------------------------------------------
(* The context. *)

LEMMA WholeTree ==
  ASSUME Whole(log)
  PROVE  /\ Tree(log) /\ \A i \in DOMAIN log : log[i].id = i /\ ParentAt(log, i) = log[i].parent
<1>1. /\ Len(log) \in Nat /\ DOMAIN log = 1..Len(log) /\ IsSeq(log)
      /\ \A i \in DOMAIN log : log[i].id = i /\ log[i].parent \in 0..(i - 1)
  BY LeafIs DEF Whole, Fine, InPlace
<1>2. Ids(log) = 1..Len(log)
  BY <1>1 DEF Ids
<1>3. Cardinality(Ids(log)) = Len(log)
  <2>1. Cardinality(1..Len(log)) = Len(log)
    BY <1>1, FS_Interval
  <2> QED
    BY <1>2, <2>1
<1>4. \A i, j \in DOMAIN log : log[i].id = log[j].id => i = j
  BY <1>1
<1>5. ASSUME NEW i \in DOMAIN log PROVE ParentAt(log, i) = log[i].parent
  <2>1. CASE log[i].parent = 0
    <3>1. 0 \notin Ids(log)
      BY <1>2
    <3> QED
      BY <1>1, <1>4, <2>1, <3>1, PositionIs DEF ParentAt
  <2>2. CASE log[i].parent # 0
    <3>1. log[i].parent \in DOMAIN log
      BY <1>1, <2>2
    <3>2. log[log[i].parent].id = log[i].parent
      BY <1>1, <3>1
    <3> QED
      BY <1>1, <1>4, <3>1, <3>2, PositionIs DEF ParentAt
  <2> QED
    BY <2>1, <2>2
<1> QED
  BY <1>1, <1>3, <1>4, <1>5 DEF Tree

Path == ActiveEntries(log, Leaf)

LEMMA PathIs ==
  ASSUME Whole(log), log # <<>>
  PROVE  /\ Path \in Seq(DOMAIN log) /\ Len(Path) \in Nat \ {0} /\ DOMAIN Path = 1..Len(Path)
         /\ log[Path[1]].parent = 0
         /\ \A k \in 1..(Len(Path) - 1) : log[Path[k + 1]].parent = Path[k]
         /\ \A j, k \in 1..Len(Path) : j < k => Path[j] < Path[k]
<1>1. /\ Path \in Seq(DOMAIN log) /\ Len(Path) \in Nat \ {0} /\ DOMAIN Path = 1..Len(Path)
      /\ ParentAt(log, Path[1]) = 0
      /\ \A k \in 1..(Len(Path) - 1) : ParentAt(log, Path[k + 1]) = Path[k]
      /\ \A j, k \in 1..Len(Path) : j < k => Path[j] < Path[k]
  <2>1. Tree(log) /\ Leaf \in Ids(log)
    BY LeafIs, WholeTree
  <2> QED
    BY <2>1, PathLinked DEF Path
<1> HIDE DEF Path
<1>2. Path[1] \in DOMAIN log /\ \A k \in 1..(Len(Path) - 1) : Path[k + 1] \in DOMAIN log
  BY <1>1
<1> QED
  BY <1>1, <1>2, WholeTree

\* The whole of a conversation, in three cases: no compaction is on its path,
\* what the last one keeps is not, or it begins there.
Uncompacted ==
  Context.summary = NoEntry /\ Context.messages = {i \in Range(Path) : IsMessage(log[i])}
AllOfIt ==
  Context.summary = NoEntry /\ Context.messages = {i \in DOMAIN log : IsMessage(log[i])}
Compacted(first, boundary) ==
  /\ first \in 1..Len(Path) /\ boundary \in 1..Len(Path)
  /\ IsCompaction(log[Path[boundary]]) /\ log[Path[boundary]].kept = Path[first]
  /\ Context.summary = Path[boundary]
  /\ Context.messages =
       {i \in {Path[k] : k \in (first..Len(Path)) \ {boundary}} : IsMessage(log[i])}

LEMMA ContextIs ==
  ASSUME Whole(log), log # <<>>
  PROVE  Uncompacted \/ AllOfIt \/ \E first, boundary : Compacted(first, boundary)
<1> DEFINE n == Len(Path)
           compactions == {k \in DOMAIN Path : IsCompaction(log[Path[k]])}
           boundary == Max(compactions)
           kept == {k \in 1..(boundary - 1) : log[Path[k]].id = log[Path[boundary]].kept}
           first == Min(kept)
<1>1. /\ n \in Nat \ {0} /\ DOMAIN Path = 1..n
      /\ \A k \in 1..n : Path[k] \in DOMAIN log /\ log[Path[k]].id = Path[k]
  <2>1. \A i \in DOMAIN log : log[i].id = i
    BY WholeTree
  <2> QED
    BY <2>1, PathIs
<1>2. Context = IF compactions = {}
                THEN [summary |-> NoEntry, messages |-> {i \in Range(Path) : IsMessage(log[i])}]
                ELSE IF kept = {}
                THEN [summary |-> NoEntry, messages |-> {i \in DOMAIN log : IsMessage(log[i])}]
                ELSE [summary |-> Path[boundary],
                      messages |-> {i \in {Path[k] : k \in (first..n) \ {boundary}} : IsMessage(log[i])}]
  BY DEF Context, ContextMessages, MessagesAt, Path
<1>3. CASE compactions = {}
  BY <1>2, <1>3 DEF Uncompacted
<1>4. CASE compactions # {} /\ kept = {}
  BY <1>2, <1>4 DEF AllOfIt
<1>5. CASE compactions # {} /\ kept # {}
  <2>1. boundary \in compactions
    <3>1. compactions \in SUBSET Nat /\ \A x \in compactions : x <= n
      BY <1>1
    <3> HIDE DEF compactions
    <3> QED
      BY <1>1, <1>5, <3>1, MaxIs
  <2> HIDE DEF boundary
  <2>2. first \in kept
    <3>1. kept \in SUBSET Nat
      BY <1>1, <2>1
    <3> HIDE DEF kept
    <3> QED
      BY <1>5, <3>1, MinIs
  <2> HIDE DEF first
  <2>3. /\ boundary \in 1..n /\ IsCompaction(log[Path[boundary]])
        /\ first \in 1..(boundary - 1) /\ log[Path[first]].id = log[Path[boundary]].kept
    BY <1>1, <2>1, <2>2
  <2>4. first \in 1..n
    BY <1>1, <2>3
  <2>5. log[Path[boundary]].kept = Path[first]
    BY <1>1, <2>3, <2>4
  <2>6. /\ Context.summary = Path[boundary]
        /\ Context.messages =
             {i \in {Path[k] : k \in (first..n) \ {boundary}} : IsMessage(log[i])}
    <3> HIDE DEF compactions, kept
    <3> QED
      BY <1>2, <1>5
  <2>7. Compacted(first, boundary)
    BY <2>3, <2>4, <2>5, <2>6 DEF Compacted
  <2> QED
    BY <2>7
<1> QED
  BY <1>3, <1>4, <1>5

LEMMA ContextIdsAre ==
  ASSUME Whole(log)
  PROVE  /\ ContextIds = Context.messages /\ Context.messages \subseteq DOMAIN log
         /\ log # <<>> => ActiveIds = Range(Path)
         /\ log = <<>> => ActiveIds = {} /\ Context.messages = {}
<1>1. \A i \in DOMAIN log : log[i].id = i
  BY WholeTree
<1>2. CASE log = <<>>
  <2>1. Path = <<>>
    <3>1. Len(log) = 0 /\ [i \in 1..0 |-> i] = <<>>
      BY <1>2
    <3> QED
      BY <3>1 DEF Path, ActiveEntries
  <2>2. DOMAIN Path = {} /\ Range(Path) = {}
    BY <2>1 DEF Range
  <2>3. Context = [summary |-> NoEntry, messages |-> {i \in Range(Path) : IsMessage(log[i])}]
    BY <2>2 DEF Context, ContextMessages, MessagesAt, Path
  <2>4. Context.messages = {}
    BY <2>2, <2>3
  <2>5. ActiveIds = {}
    BY <2>2 DEF ActiveIds, Path
  <2> QED
    BY <1>2, <2>4, <2>5 DEF ContextIds
<1>3. CASE log # <<>>
  <2>1. \A k \in DOMAIN Path : Path[k] \in DOMAIN log
    BY <1>3, PathIs
  <2>2. Range(Path) \subseteq DOMAIN log
    BY <2>1 DEF Range
  <2>3. ActiveIds = Range(Path)
    BY <1>1, <2>2 DEF ActiveIds, Path
  <2>4. Context.messages \subseteq DOMAIN log
    <3>1. DOMAIN Path = 1..Len(Path) /\ Len(Path) \in Nat
      BY <1>3, PathIs
    <3>2. ASSUME NEW first, NEW boundary, Compacted(first, boundary)
          PROVE  Context.messages \subseteq DOMAIN log
      <4>1. \A k \in first..Len(Path) : k \in DOMAIN Path
        BY <3>1, <3>2 DEF Compacted
      <4> QED
        BY <2>1, <3>2, <4>1 DEF Compacted
    <3>3. Uncompacted \/ AllOfIt => Context.messages \subseteq DOMAIN log
      BY <2>2 DEF Uncompacted, AllOfIt
    <3> QED
      BY <1>3, <3>2, <3>3, ContextIs
  <2>5. ContextIds = Context.messages
    BY <1>1, <2>4 DEF ContextIds
  <2> QED
    BY <1>3, <2>3, <2>4, <2>5
<1> QED
  BY <1>2, <1>3

\* Uncompacted or not, a result in the context has the message it hangs at there.
LEMMA ParentInContext ==
  ASSUME Whole(log), log # <<>>, NEW i \in Context.messages, IsResult(log[i])
  PROVE  log[i].parent \in Context.messages
<1>1. /\ i \in DOMAIN log /\ Fine(log, i) /\ Len(log) \in Nat /\ DOMAIN log = 1..Len(log)
  BY ContextIdsAre, LeafIs DEF Whole
<1> DEFINE q == log[i].parent
<1>2. q # 0 /\ IsMessage(log[q]) /\ q \in DOMAIN log
  BY <1>1 DEF Fine, Attached, InPlace
<1>3. /\ Len(Path) \in Nat \ {0} /\ DOMAIN Path = 1..Len(Path)
      /\ log[Path[1]].parent = 0
      /\ \A k \in 1..(Len(Path) - 1) : log[Path[k + 1]].parent = Path[k]
  BY PathIs
<1>4. ASSUME NEW k \in 1..Len(Path), i = Path[k]
      PROVE  k - 1 \in 1..Len(Path) /\ q = Path[k - 1]
  <2>1. k # 1
    BY <1>2, <1>3, <1>4
  <2>2. k - 1 \in 1..(Len(Path) - 1) /\ (k - 1) + 1 = k
    BY <1>3, <2>1
  <2>3. log[Path[(k - 1) + 1]].parent = Path[k - 1]
    BY <1>3, <2>2
  <2> QED
    BY <1>3, <1>4, <2>2, <2>3
<1> HIDE DEF q
<1>5. CASE Uncompacted
  <2>1. PICK k \in 1..Len(Path) : i = Path[k]
    BY <1>3, <1>5 DEF Uncompacted, Range
  <2>2. k - 1 \in DOMAIN Path /\ q = Path[k - 1]
    BY <1>3, <1>4, <2>1
  <2>3. q \in Range(Path)
    BY <2>2 DEF Range
  <2> QED
    BY <1>2, <1>5, <2>3 DEF Uncompacted, q
<1>6. CASE AllOfIt
  BY <1>2, <1>6 DEF AllOfIt, q
<1>7. ASSUME NEW first, NEW boundary, Compacted(first, boundary)
      PROVE  q \in Context.messages
  <2>1. /\ first \in 1..Len(Path) /\ boundary \in 1..Len(Path)
        /\ IsCompaction(log[Path[boundary]]) /\ log[Path[boundary]].kept = Path[first]
        /\ Context.messages =
             {j \in {Path[k] : k \in (first..Len(Path)) \ {boundary}} : IsMessage(log[j])}
    BY <1>7 DEF Compacted
  <2>2. PICK k \in (first..Len(Path)) \ {boundary} : i = Path[k]
    BY <2>1
  <2>3. k \in 1..Len(Path) /\ k \in Nat /\ first \in Nat /\ first <= k
    BY <1>3, <2>1
  <2>4. k # first
    <3>1. Path[boundary] \in DOMAIN log
      BY <2>1, PathIs
    <3>2. ~ IsResult(log[Path[first]])
      BY <2>1, <3>1 DEF Whole, Fine, Covering
    <3> QED
      BY <2>2, <3>2
  <2>5. k - 1 \in first..Len(Path) /\ q = Path[k - 1]
    BY <1>3, <1>4, <2>2, <2>3, <2>4
  <2>6. k - 1 # boundary
    BY <1>2, <2>1, <2>5 DEF q, IsMessage, IsCompaction
  <2> QED
    BY <1>2, <2>1, <2>5, <2>6 DEF q
<1> QED
  BY <1>5, <1>6, <1>7, ContextIs DEF q

(* Whatever was compacted, a tool result is only in the context with the     *)
(* message that holds its call (PrepareCompaction,                           *)
(* PrepareCompactionByTokens and ContextMessages).                           *)
THEOREM TreeResultsKeepTheirCalls == TreeSpec => []ResultsKeepTheirCalls
<1>1. TreeInv => ResultsKeepTheirCalls
  <2> SUFFICES ASSUME TreeInv PROVE ResultsKeepTheirCalls
    OBVIOUS
  <2> DEFINE C == Context.messages
             Bad == {i \in C : IsResult(log[i]) /\ log[i].of \notin C}
  <2>1. Whole(log) /\ ContextIds = C /\ C \subseteq DOMAIN log
    BY ContextIdsAre DEF TreeInv
  <2>2. DOMAIN log \subseteq Nat
    BY <2>1, LeafIs
  <2> HIDE DEF C
  <2>3. Bad = {}
    <3> SUFFICES ASSUME Bad # {} PROVE FALSE
      OBVIOUS
    <3>1. PICK m \in Bad : \A i \in Bad : m <= i
      <4>1. Bad \in SUBSET Nat
        BY <2>1, <2>2
      <4> QED
        BY <4>1, MinExists
    <3>2. m \in C /\ m \in DOMAIN log /\ IsResult(log[m]) /\ log[m].of \notin C /\ log # <<>>
      BY <2>1
    <3> DEFINE q == log[m].parent
    <3>3. q \in C
      BY <2>1, <3>2, ParentInContext DEF C
    <3>4. q \in 0..(m - 1) /\ m \in Nat /\ q \in Nat
      BY <2>1, <2>2, <3>2, <3>3 DEF Whole, Fine, InPlace
    <3>5. log[m].of = q \/ (IsResult(log[q]) /\ log[m].of = log[q].of)
      BY <2>1, <3>2 DEF Whole, Fine, Attached
    <3> HIDE DEF q
    <3>6. q \in Bad
      BY <3>2, <3>3, <3>5
    <3> QED
      BY <3>1, <3>4, <3>6
  <2> QED
    BY <2>1, <2>3 DEF ResultsKeepTheirCalls, IsResult
<1> QED
  BY <1>1, TreeInvariant, PTL

(* However often a conversation is compacted, each message on its path is    *)
(* given to the provider or is in the summary it is given instead, but for   *)
(* those before the prefix of a turn that was all there was to summarise     *)
(* (compactConversation, ContextMessages).                                   *)
THEOREM TreeNothingForgotten == TreeSpec => []NothingForgotten
<1>1. TreeInv => NothingForgotten
  <2> SUFFICES ASSUME TreeInv PROVE NothingForgotten
    OBVIOUS
  <2> DEFINE known == ContextIds \cup (IF Context.summary = NoEntry THEN {} ELSE log[Context.summary].covers)
  <2>1. /\ Whole(log) /\ ContextIds = Context.messages
        /\ log # <<>> => ActiveIds = Range(Path)
        /\ log = <<>> => ActiveIds = {}
    BY ContextIdsAre DEF TreeInv
  <2> SUFFICES ASSUME NEW i \in ActiveIds, IsMessage(log[i]) PROVE i \in known \/ Passed(log, i)
    BY DEF NothingForgotten, Passed, PrefixOnly
  <2>2. log # <<>> /\ i \in Range(Path)
    BY <2>1
  <2>3. /\ Path \in Seq(DOMAIN log) /\ Len(Path) \in Nat \ {0} /\ DOMAIN Path = 1..Len(Path)
        /\ \A j, k \in 1..Len(Path) : j < k => Path[j] < Path[k]
    BY <2>1, <2>2, PathIs
  <2>4. PICK k \in 1..Len(Path) : i = Path[k]
    BY <2>2, <2>3 DEF Range
  <2>5. i \in DOMAIN log /\ DOMAIN log = 1..Len(log) /\ Len(log) \in Nat
    BY <2>1, <2>3, <2>4, LeafIs
  <2>6. CASE Uncompacted
    BY <2>1, <2>2, <2>6 DEF Uncompacted
  <2>7. CASE AllOfIt
    BY <2>1, <2>5, <2>7 DEF AllOfIt
  <2>8. ASSUME NEW first, NEW boundary, Compacted(first, boundary)
        PROVE  i \in known \/ Passed(log, i)
    <3>1. /\ first \in 1..Len(Path) /\ boundary \in 1..Len(Path)
          /\ IsCompaction(log[Path[boundary]]) /\ log[Path[boundary]].kept = Path[first]
          /\ Context.summary = Path[boundary]
          /\ Context.messages =
               {j \in {Path[l] : l \in (first..Len(Path)) \ {boundary}} : IsMessage(log[j])}
      BY <2>8 DEF Compacted
    <3>2. k # boundary
      BY <2>4, <3>1 DEF IsMessage, IsCompaction
    <3>3. CASE k >= first
      <4>1. k \in (first..Len(Path)) \ {boundary}
        BY <2>3, <3>1, <3>2, <3>3
      <4> QED
        BY <2>1, <2>4, <3>1, <4>1
    <3>4. CASE ~ (k >= first)
      <4>1. k < first
        BY <2>3, <3>1, <3>4
      <4>2. Path[k] < Path[first] /\ Path[first] \in DOMAIN log /\ Path[boundary] \in DOMAIN log
        BY <2>3, <3>1, <4>1
      <4>3. i \in 1..(log[Path[boundary]].kept - 1)
        BY <2>4, <2>5, <3>1, <4>2
      <4>4. i \in log[Path[boundary]].covers \/ Passed(log, i)
        BY <2>1, <3>1, <4>2, <4>3 DEF Whole, Fine, Covering
      <4>5. Context.summary # NoEntry
        BY <2>5, <3>1, <4>2 DEF NoEntry
      <4> QED
        BY <3>1, <4>4, <4>5
    <3> QED
      BY <3>3, <3>4
  <2> QED
    BY <2>1, <2>2, <2>6, <2>7, <2>8, ContextIs
<1> QED
  BY <1>1, TreeInvariant, PTL
=============================================================================
