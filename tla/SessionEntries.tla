---------------------------- MODULE SessionEntries ----------------------------
(***************************************************************************)
(* What a session file says (internal/session/session.go): the entries of  *)
(* a JSONL log form a tree, the path from the leaf to the root is the      *)
(* conversation, and a compaction on that path stands for what precedes    *)
(* the entry it keeps first.  These are the pure operators the handles of  *)
(* SessionLog and the single handle of SessionTree are built from.         *)
(*                                                                         *)
(* An entry is reduced to what decides these computations.  Message text   *)
(* is its size in tokens, and `ops' the files its tool calls touch, as     *)
(* pairs <<"read" or "write", path>>.  `covers' is not in the code: it is  *)
(* the set of messages whose text went into a summary.                     *)
(***************************************************************************)
EXTENDS Naturals, Sequences, SequencesExt, FiniteSetsExt

NoEntry == 0                      \* the empty ID: no parent, no leaf

Entry(id, parent, type) ==
  [id |-> id, parent |-> parent, type |-> type, role |-> "none", of |-> NoEntry,
   tokens |-> 0, ops |-> {}, kept |-> NoEntry, covers |-> {}, details |-> {}]

Message(id, parent, role, of, tokens, ops) ==
  [Entry(id, parent, "message") EXCEPT
     !.role = role, !.of = of, !.tokens = tokens, !.ops = ops]

Compaction(id, parent, kept, covers, details) ==
  [Entry(id, parent, "compaction") EXCEPT
     !.kept = kept, !.covers = covers, !.details = details]

IsMessage(entry) == entry.type = "message"
IsCompaction(entry) == entry.type = "compaction"

Ids(entries) == {entries[i].id : i \in DOMAIN entries}

\* byID: the last entry with that ID.
PositionOf(entries, id) ==
  LET at == {i \in DOMAIN entries : entries[i].id = id}
  IN IF at = {} THEN 0 ELSE Max(at)

LastId(entries) == IF entries = <<>> THEN NoEntry ELSE Last(entries).id

\* The positions on the path from the root to the leaf, or all of them when
\* two entries have the same ID.  A parent that is not in the log ends it.
ActiveEntries(entries, leaf) ==
  LET n == Len(entries)
      start == IF PositionOf(entries, leaf) # 0 THEN PositionOf(entries, leaf) ELSE n
      path[k \in 1..n] ==
        IF k = 1 THEN <<start>>
        ELSE LET below == path[k - 1]
                 parent == PositionOf(entries, entries[Head(below)].parent)
             IN IF parent \in Range(below) \cup {0} THEN below ELSE <<parent>> \o below
  IN IF n = 0 \/ Cardinality(Ids(entries)) # n
     THEN [i \in 1..n |-> i]
     ELSE path[n]

MessagesAt(entries, positions) == {i \in positions : IsMessage(entries[i])}

\* The latest compaction on the path counts if the entry it keeps is before
\* it on the path; otherwise the whole file is the context.  Its messages are
\* given in the order of their positions.
ContextMessages(entries, leaf) ==
  LET path == ActiveEntries(entries, leaf)
      compactions == {k \in DOMAIN path : IsCompaction(entries[path[k]])}
      boundary == Max(compactions)
      kept == {k \in 1..(boundary - 1) :
                 entries[path[k]].id = entries[path[boundary]].kept}
  IN IF compactions = {}
     THEN [summary |-> NoEntry, messages |-> MessagesAt(entries, Range(path))]
     ELSE IF kept = {}
     THEN [summary |-> NoEntry, messages |-> MessagesAt(entries, DOMAIN entries)]
     ELSE [summary |-> path[boundary],
           messages |-> MessagesAt(entries,
                          {path[k] : k \in (Min(kept) .. Len(path)) \ {boundary}})]

-----------------------------------------------------------------------------
(* Planning a compaction: over the whole file, in file order. *)

NoPlan == [ok |-> FALSE]

Plan(entries, start, summaryEnd, cut, previous) ==
  LET Messages(from, to) == {entries[i].id : i \in {j \in from..(to - 1) : IsMessage(entries[j])}}
      Touched(kind) ==
        UNION {{op[2] : op \in {o \in entries[i].ops : o[1] = kind}} :
                 i \in {j \in start..(cut - 1) : entries[j].role = "assistant"}}
      before == {i \in 1..(start - 1) : IsCompaction(entries[i])}
      earlier == IF before = {} THEN {} ELSE entries[Max(before)].details
      written == Touched("write") \cup {op[2] : op \in {o \in earlier : o[1] = "write"}}
      read == Touched("read") \cup {op[2] : op \in {o \in earlier : o[1] = "read"}}
      plan == [ok       |-> TRUE,
               kept     |-> entries[cut].id,
               messages |-> Messages(start, summaryEnd),
               prefix   |-> Messages(summaryEnd, cut),
               previous |-> previous,
               details  |-> {<<"read", f>> : f \in read \ written}
                              \cup {<<"write", f>> : f \in written}]
  IN IF plan.messages = {} /\ plan.prefix = {} THEN NoPlan ELSE plan

LastCompaction(entries) ==
  LET at == {i \in DOMAIN entries : IsCompaction(entries[i])}
  IN IF at = {} THEN 0 ELSE Max(at)

\* Where the last compaction left off.
CompactionStart(entries) ==
  LET c == LastCompaction(entries)
      kept == IF c = 0 THEN 0 ELSE PositionOf(entries, entries[c].kept)
  IN IF kept = 0 THEN 1 ELSE kept

JustCompacted(entries) == entries # <<>> /\ IsCompaction(Last(entries))

PrepareCompaction(entries, keepRecentTurns) ==
  LET start == CompactionStart(entries)
      users == {i \in start..Len(entries) : entries[i].role = "user"}
      From(i) == {j \in users : j >= i}
      cut == Max({i \in users : Cardinality(From(i)) >= keepRecentTurns})
  IN IF JustCompacted(entries) \/ Cardinality(users) <= keepRecentTurns
     THEN NoPlan
     ELSE Plan(entries, start, cut, cut, LastCompaction(entries))

\* mutant: the cut may fall on a tool result
PrepareCompactionAnywhere(entries, keepRecentTokens) ==
  LET start == CompactionStart(entries)
      From(i) == MapThenSumSet(LAMBDA j : entries[j].tokens, i..Len(entries))
      full == {i \in start..Len(entries) : entries[i].tokens > 0 /\ From(i) >= keepRecentTokens}
  IN IF JustCompacted(entries) \/ full = {} THEN NoPlan
     ELSE Plan(entries, start, Max(full), Max(full), LastCompaction(entries))

\* The cut is the first entry that is no tool result, at or after the newest
\* entry from which on the budget is used up.  A turn that it splits is
\* handed over as a prefix of its own.
PrepareCompactionByTokens(entries, keepRecentTokens) ==
  LET start == CompactionStart(entries)
      cutPoints == {i \in start..Len(entries) :
                      IsMessage(entries[i]) /\ entries[i].role # "toolResult"}
      From(i) == MapThenSumSet(LAMBDA j : entries[j].tokens, i..Len(entries))
      full == {i \in start..Len(entries) : entries[i].tokens > 0 /\ From(i) >= keepRecentTokens}
      after == {i \in cutPoints : i >= Max(full)}
      cut == IF after = {} THEN Min(cutPoints) ELSE Min(after)
      opened == {i \in start..cut : entries[i].role = "user"}
      splits == entries[cut].role # "user" /\ opened # {}
      summaryEnd == IF splits THEN Max(opened) ELSE cut
  IN IF JustCompacted(entries) \/ cutPoints = {} \/ full = {}
     THEN NoPlan
     ELSE Plan(entries, start, summaryEnd, cut, LastCompaction(entries))

\* compactConversation: the provider is asked when there are messages before
\* the split turn or an earlier summary; the summary that is stored is its
\* answer and the list of files, and an empty one is refused.
Asked(plan) == plan.messages # {} \/ plan.previous # NoEntry
Storable(plan) == plan.ok /\ (Asked(plan) \/ plan.details # {})

SummarisedAnew(entries, plan) ==   \* mutant: the earlier summary is dropped
  IF ~Asked(plan) THEN {} ELSE plan.messages \cup plan.prefix

Summarised(entries, plan) ==
  IF ~Asked(plan) THEN {}
  ELSE plan.messages \cup plan.prefix
         \cup (IF plan.previous = NoEntry THEN {} ELSE entries[plan.previous].covers)
=============================================================================
