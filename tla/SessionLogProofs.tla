---------------------------- MODULE SessionLogProofs ----------------------------
(***************************************************************************)
(* Proofs about SessionLog, for any number of turns, compactions, branches *)
(* and failed writes.                                                      *)
(*                                                                         *)
(* Paths are those of SessionEntriesProofs.  The set of a path only grows  *)
(* when the log does (PathGrows).                                          *)
(*                                                                         *)
(* The log (LogInv).  A handle is flushed before it writes single lines,   *)
(* and then all it knows is in the file or lost; before that it keeps what *)
(* it appends and publishes all of it into a file that was not there.  So  *)
(* an entry hangs at one before it, or at one whose write failed.          *)
(*                                                                         *)
(* The conversation (TurnInv).  The later messages of a turn hang at the   *)
(* ones before them (Chained), and the first at the entry that was last    *)
(* when the turn took the lock (Follows).                                  *)
(***************************************************************************)
EXTENDS SessionLog, SessionEntriesProofs

-----------------------------------------------------------------------------
\* Where an entry of s says that it hangs: at the root, at an earlier entry, or
\* at one of the lost.
Rooted(s, lost) ==
  \A i \in DOMAIN s :
    \/ s[i].parent = NoEntry \/ s[i].parent \in lost \ Ids(s)
    \/ \E j \in DOMAIN s : j < i /\ s[j].id = s[i].parent

\* No two entries of s have the same ID, and none has one that is still to come.
Numbered(s, next) ==
  /\ \A i \in DOMAIN s : s[i].id \in 1..(next - 1) /\ s[i].parent \in 0..(next - 1)
  /\ \A i, j \in DOMAIN s : s[i].id = s[j].id => i = j
  /\ IsFiniteSet(Ids(s)) /\ Cardinality(Ids(s)) = Len(s)

Sound(s, lost, next) == IsSeq(s) /\ Rooted(s, lost) /\ Numbered(s, next)

\* What a handle has read or appended is sound, its leaf is in it, and once it
\* is flushed it is in the file, but for what failed.
Fits(h, stored, lost, next) ==
  /\ Sound(h.entries, lost, next)
  /\ h.leaf \in {NoEntry} \cup Ids(h.entries)
  /\ h.flushed \in BOOLEAN
  /\ h.flushed => Ids(h.entries) \subseteq stored \cup lost

Filed ==
  /\ Sound(file, failed, nextId)
  /\ nextId \in Nat \ {0}
  /\ exists \in BOOLEAN /\ (~exists => file = <<>>)

Handled ==
  /\ DOMAIN handle = Actor
  /\ \A a \in Actor : Fits(handle[a], Ids(file), failed, nextId)

\* A compaction that is summarised hangs at what was the last entry.
Planned ==
  /\ DOMAIN plan = Actor
  /\ \A a \in Turn \cup Compactor :
       at[a] = "summarising" =>
         /\ exists
         /\ {"id", "parent"} \subseteq DOMAIN plan[a]
         /\ plan[a].parent \in {NoEntry} \cup Ids(file)

Place == {"idle", "run", "summarising", "reload", "saving", "clearing",
          "done", "described", "over", "failed"}
Saving(t) == at[t] \in {"saving", "clearing"}

Placed ==
  /\ at \in [Actor -> Place]
  /\ pathLock \in Turn \cup {NoOne}
  /\ \A t \in Turn : pathLock = t <=> Saving(t)
  /\ compacting \in Turn \cup Compactor \cup {NoOne}

LogInv == Filed /\ Handled /\ Planned /\ Placed

-----------------------------------------------------------------------------
LEMMA AppendedRooted ==
  ASSUME NEW s, IsSeq(s), NEW lost, NEW more, Rooted(s, lost), lost \subseteq more, NEW e,
         e.parent \in {NoEntry} \cup Ids(s) \cup more, e.parent # e.id,
         \A i \in DOMAIN s : s[i].parent # e.id
  PROVE  Rooted(Append(s, e), more)
<1> DEFINE r == Append(s, e)
<1>1. /\ Len(s) \in Nat /\ DOMAIN s = 1 .. Len(s) /\ DOMAIN r = 1 .. Len(s) + 1
      /\ \A i \in DOMAIN s : r[i] = s[i]
      /\ r[Len(s) + 1] = e
  BY Appended
<1>4. Ids(r) = Ids(s) \cup {e.id}
  BY AppendedIds
<1> HIDE DEF r
<1> SUFFICES ASSUME NEW i \in DOMAIN r
             PROVE  \/ r[i].parent = NoEntry \/ r[i].parent \in more \ Ids(r)
                    \/ \E j \in DOMAIN r : j < i /\ r[j].id = r[i].parent
  BY DEF Rooted, r
<1>2. CASE i \in DOMAIN s
  BY <1>1, <1>2, <1>4 DEF Rooted
<1>3. CASE i = Len(s) + 1
  <2>1. r[i] = e /\ \A j \in DOMAIN s : j < i
    BY <1>1, <1>3
  <2>2. ASSUME e.parent \in Ids(s)
        PROVE  \E j \in DOMAIN r : j < i /\ r[j].id = r[i].parent
    <3>1. PICK j \in DOMAIN s : s[j].id = e.parent
      BY <2>2 DEF Ids
    <3> QED
      BY <1>1, <2>1, <3>1
  <2> QED
    BY <1>4, <2>1, <2>2
<1> QED
  BY <1>1, <1>2, <1>3

\* What was lost stays lost.
LEMMA MoreLost ==
  ASSUME NEW s, NEW lost, NEW more, Rooted(s, lost), lost \subseteq more
  PROVE  Rooted(s, more)
  BY DEF Rooted

\* ParentsExist is Rooted of the file.
LEMMA RootedParents ==
  ASSUME IsSeq(file), Rooted(file, failed)
  PROVE  ParentsExist
<1> SUFFICES ASSUME NEW i \in DOMAIN file
             PROVE  file[i].parent \in {NoEntry} \cup Ids(SubSeq(file, 1, i - 1)) \cup failed
  BY DEF ParentsExist
<1>1. i \in Nat /\ i >= 1 /\ i <= Len(file) /\ DOMAIN file = 1 .. Len(file) /\ Len(file) \in Nat
  BY DEF IsSeq
<1>2. ASSUME NEW j \in DOMAIN file, j < i
      PROVE  file[j].id \in Ids(SubSeq(file, 1, i - 1))
  <2>1. /\ DOMAIN SubSeq(file, 1, i - 1) = 1 .. (i - 1)
        /\ SubSeq(file, 1, i - 1)[j] = file[j]
    BY <1>1, <1>2 DEF IsSeq
  <2> QED
    BY <1>1, <1>2, <2>1 DEF Ids
<1> QED
  BY <1>2 DEF Rooted

-----------------------------------------------------------------------------
\* A fresh entry is appended.
LEMMA AppendedSound ==
  ASSUME NEW s, NEW lost, NEW n, Sound(s, lost, n), NEW more, lost \subseteq more, n \in Nat \ {0},
         NEW e, e.id = n, e.parent \in {NoEntry} \cup Ids(s) \cup more, e.parent \in 0..(n - 1)
  PROVE  Sound(Append(s, e), more, n + 1)
<1> DEFINE r == Append(s, e)
<1>1. /\ IsSeq(s) /\ IsSeq(r)
      /\ Len(s) \in Nat /\ DOMAIN s = 1 .. Len(s) /\ DOMAIN r = 1 .. Len(s) + 1
      /\ \A i \in DOMAIN s : r[i] = s[i]
      /\ r[Len(s) + 1] = e
  BY Appended DEF Sound
<1>2. Ids(r) = Ids(s) \cup {n}
  BY AppendedIds, <1>1
<1>3. Rooted(r, more)
  <2>1. \A i \in DOMAIN s : s[i].parent # e.id
    BY DEF Sound, Numbered
  <2>2. e.parent # e.id
    OBVIOUS
  <2> QED
    BY <2>1, <2>2, AppendedRooted DEF Sound
<1>4. Len(r) = Len(s) + 1
  BY <1>1 DEF IsSeq
<1>5. n \notin Ids(s)
  BY DEF Sound, Numbered, Ids
<1>6. IsFiniteSet(Ids(r)) /\ Cardinality(Ids(r)) = Len(r)
  <2>1. IsFiniteSet(Ids(s)) /\ Cardinality(Ids(s)) = Len(s)
    BY DEF Sound, Numbered
  <2>2. /\ IsFiniteSet(Ids(s) \cup {n})
        /\ Cardinality(Ids(s) \cup {n}) = Cardinality(Ids(s)) + 1
    BY <1>5, <2>1, FS_AddElement
  <2> HIDE DEF r
  <2> QED
    BY <1>2, <1>4, <2>1, <2>2
<1>7. \A i \in DOMAIN r : r[i].id \in 1..(n + 1 - 1) /\ r[i].parent \in 0..(n + 1 - 1)
  <2> SUFFICES ASSUME NEW i \in DOMAIN r
               PROVE  r[i].id \in 1..(n + 1 - 1) /\ r[i].parent \in 0..(n + 1 - 1)
    OBVIOUS
  <2>1. CASE i \in DOMAIN s
    BY <1>1, <2>1 DEF Sound, Numbered
  <2>2. CASE i = Len(s) + 1
    BY <1>1, <2>2
  <2> QED
    BY <1>1, <2>1, <2>2
<1>8. \A i, j \in DOMAIN r : r[i].id = r[j].id => i = j
  <2>1. \A i \in DOMAIN s : r[i].id = s[i].id /\ s[i].id # n
    BY <1>1 DEF Sound, Numbered
  <2>2. \A i, j \in DOMAIN s : s[i].id = s[j].id => i = j
    BY DEF Sound, Numbered
  <2>3. \A i \in DOMAIN r : i \in DOMAIN s \/ i = Len(s) + 1
    BY <1>1
  <2> HIDE DEF r
  <2> QED
    BY <1>1, <2>1, <2>2, <2>3
<1> HIDE DEF r
<1>9. Sound(r, more, n + 1)
  BY <1>1, <1>3, <1>6, <1>7, <1>8 DEF Sound, Numbered
<1> QED
  BY <1>9 DEF r

\* What is sound stays so when more is lost and more IDs are given out.
LEMMA SoundMore ==
  ASSUME NEW s, NEW lost, NEW n \in Nat, Sound(s, lost, n),
         NEW more, lost \subseteq more, NEW m \in Nat, n <= m
  PROVE  Sound(s, more, m)
<1>1. Rooted(s, more)
  BY MoreLost DEF Sound
<1>2. Numbered(s, m)
  BY DEF Sound, Numbered
<1> QED
  BY <1>1, <1>2 DEF Sound

LEMMA FitsMore ==
  ASSUME NEW h, NEW stored, NEW lost, NEW n \in Nat, Fits(h, stored, lost, n),
         NEW after, stored \subseteq after, NEW more, lost \subseteq more,
         NEW m \in Nat, n <= m
  PROVE  Fits(h, after, more, m)
<1>1. Sound(h.entries, more, m)
  BY SoundMore DEF Fits
<1> QED
  BY <1>1 DEF Fits

\* The handle that reads the file fits it; so does one that has read nothing.
LEMMA OpenedFits ==
  ASSUME Filed
  PROVE  /\ Fits(Opened, Ids(file), failed, nextId)
         /\ Fits(NoHandle, Ids(file), failed, nextId)
<1>1. Opened.entries = file /\ Opened.leaf = LastId(file) /\ Opened.flushed = TRUE
  BY DEF Opened
<1>2. LastId(file) \in {NoEntry} \cup Ids(file)
  <2>1. file = <<>> \/ Len(file) \in DOMAIN file
    BY DEF Filed, Sound, IsSeq
  <2> QED
    BY <2>1 DEF LastId, Last, Ids
<1>3. Fits(Opened, Ids(file), failed, nextId)
  BY <1>1, <1>2 DEF Fits, Filed
<1>4. /\ NoHandle.entries = <<>> /\ NoHandle.leaf = NoEntry /\ NoHandle.flushed = FALSE
  BY DEF NoHandle
<1>5. Sound(<<>>, failed, nextId)
  <2>1. DOMAIN <<>> = {} /\ Len(<<>>) = 0 /\ Ids(<<>>) = {}
    BY DEF Ids
  <2>2. IsSeq(<<>>)
    BY DEF IsSeq
  <2> QED
    BY <2>1, <2>2, FS_EmptySet DEF Sound, Rooted, Numbered
<1> QED
  BY <1>3, <1>4, <1>5 DEF Fits

\* What can become of an entry e that goes through the handle h.
Waits(h, ext) ==
  /\ ~h.flushed /\ ~ext.flushed
  /\ UNCHANGED <<exists, file, failed>>
Lost(h, ext, e) ==
  /\ ext.flushed = h.flushed
  /\ failed' = failed \cup {e.id} /\ UNCHANGED <<exists, file>>
Published(h, ext, e) ==
  /\ ~h.flushed /\ ~exists
  /\ exists' /\ file' = Append(h.entries, e) /\ UNCHANGED failed
Logged(h, ext, e) ==
  /\ h.flushed
  /\ exists' /\ file' = Append(file, e) /\ UNCHANGED failed

LEMMA AppendEntryDoes ==
  ASSUME Handled, NEW a \in Actor, NEW e, NEW ok, AppendEntry(a, e, ok)
  PROVE  LET h == handle[a]
             ext == handle'[a]
         IN /\ ok \in BOOLEAN /\ nextId' = nextId + 1
            /\ DOMAIN handle' = Actor /\ \A b \in Actor \ {a} : handle'[b] = handle[b]
            /\ ext.entries = Append(h.entries, e) /\ ext.leaf = e.id
            /\ ext.flushed \in BOOLEAN /\ (h.flushed => ext.flushed)
            /\ \/ Waits(h, ext) \/ (~ok /\ Lost(h, ext, e))
               \/ Published(h, ext, e) \/ Logged(h, ext, e)
<1> DEFINE h == handle[a]
           ext == Extend(h, e, ok)
<1>1. /\ ok \in BOOLEAN /\ nextId' = nextId + 1
      /\ handle' = [handle EXCEPT ![a] = ext]
  BY DEF AppendEntry
<1>2. /\ DOMAIN handle' = Actor /\ handle'[a] = ext
      /\ \A b \in Actor \ {a} : handle'[b] = handle[b]
  BY <1>1 DEF Handled
<1>3. /\ ext.entries = Append(h.entries, e) /\ ext.leaf = e.id
      /\ ext.flushed = (h.flushed \/ (ok /\ Publishes(h, e)))
  BY DEF Extend
<1>4. h.flushed \in BOOLEAN
  BY DEF Handled, Fits
<1> HIDE DEF ext, h
<1> SUFFICES Waits(h, ext) \/ (~ok /\ Lost(h, ext, e)) \/ Published(h, ext, e) \/ Logged(h, ext, e)
  BY <1>1, <1>2, <1>3, <1>4 DEF h
<1>5. CASE Pending(h, e)
  <2>1. exists' = exists /\ file' = file /\ failed' = failed
    BY <1>5 DEF AppendEntry, h
  <2>2. ~h.flushed /\ ~ext.flushed
    BY <1>3, <1>5 DEF Pending
  <2> QED
    BY <2>1, <2>2 DEF Waits
<1>6. CASE ~Pending(h, e) /\ ~ok
  <2>1. exists' = exists /\ file' = file /\ failed' = failed \cup {e.id}
    BY <1>6 DEF AppendEntry, h
  <2>2. ext.flushed = h.flushed
    BY <1>3, <1>4, <1>6
  <2> QED
    BY <1>6, <2>1, <2>2 DEF Lost
<1>7. CASE ~Pending(h, e) /\ ok /\ Publishes(h, e)
  <2>1. exists' = TRUE /\ file' = Append(h.entries, e) /\ failed' = failed
    BY <1>7 DEF AppendEntry, Written, h
  <2>2. ~exists /\ ~h.flushed
    BY <1>7 DEF AppendEntry, Publishes, h
  <2> QED
    BY <2>1, <2>2 DEF Published
<1>8. CASE ~Pending(h, e) /\ ok /\ ~Publishes(h, e)
  <2>1. exists' = TRUE /\ file' = Append(file, e) /\ failed' = failed
    BY <1>8 DEF AppendEntry, Written, h
  <2>2. h.flushed
    BY <1>8 DEF Pending
  <2> QED
    BY <2>1, <2>2 DEF Logged
<1> QED
  BY <1>1, <1>5, <1>6, <1>7, <1>8

\* Whatever became of an entry, the file and all handles are as they should be,
\* and nothing left the file.
LEMMA AppendEntryKeeps ==
  ASSUME Filed, Handled, NEW a \in Actor, NEW e, NEW ok, AppendEntry(a, e, ok),
         e.id = nextId, e.parent \in {NoEntry} \cup Ids(handle[a].entries)
  PROVE  /\ Filed' /\ Handled'
         /\ Ids(file) \subseteq Ids(file)' /\ (exists => exists')
<1> DEFINE h == handle[a]
           ext == handle'[a]
<1>1. /\ nextId' = nextId + 1 /\ nextId \in Nat \ {0}
      /\ DOMAIN handle' = Actor /\ \A b \in Actor \ {a} : handle'[b] = handle[b]
      /\ ext.entries = Append(h.entries, e) /\ ext.leaf = nextId /\ ext.flushed \in BOOLEAN
  BY AppendEntryDoes DEF Filed
<1>2. \/ Waits(h, ext) \/ Lost(h, ext, e) \/ Published(h, ext, e) \/ Logged(h, ext, e)
  BY AppendEntryDoes
<1>3. /\ Fits(h, Ids(file), failed, nextId)
      /\ Sound(h.entries, failed, nextId) /\ Sound(file, failed, nextId)
  BY DEF Handled, Filed, Fits
<1>4. e.parent \in 0..(nextId - 1)
  BY <1>1, <1>3 DEF Sound, Numbered, Ids, NoEntry
<1> HIDE DEF h, ext
<1>5. Ids(ext.entries) = Ids(h.entries) \cup {nextId}
  BY <1>1, <1>3, AppendedIds DEF Sound
<1>6. ASSUME NEW more, failed \subseteq more
      PROVE  Sound(ext.entries, more, nextId')
  BY <1>1, <1>3, <1>4, <1>6, AppendedSound DEF h
<1>7. ASSUME failed \subseteq failed', Ids(file) \subseteq Ids(file'),
             ext.flushed => Ids(h.entries) \cup {nextId} \subseteq Ids(file') \cup failed'
      PROVE  Handled'
  <2>1. Fits(ext, Ids(file'), failed', nextId')
    BY <1>1, <1>5, <1>6, <1>7 DEF Fits
  <2>2. \A b \in Actor : Fits(handle[b], Ids(file'), failed', nextId')
    BY <1>1, <1>7, FitsMore DEF Handled
  <2>3. \A b \in Actor : Fits(handle'[b], Ids(file'), failed', nextId')
    BY <1>1, <2>1, <2>2 DEF ext
  <2> QED
    BY <1>1, <2>3 DEF Handled
<1>8. CASE Waits(h, ext)
  <2>1. Sound(file, failed, nextId')
    BY <1>1, <1>3, SoundMore
  <2> QED
    BY <1>1, <1>7, <1>8, <2>1 DEF Filed, Waits
<1>9. CASE Lost(h, ext, e)
  <2>1. Sound(file, failed', nextId')
    BY <1>1, <1>3, <1>9, SoundMore DEF Lost
  <2>2. h.flushed => Ids(h.entries) \subseteq Ids(file) \cup failed
    BY <1>3 DEF Fits
  <2> QED
    BY <1>1, <1>7, <1>9, <2>1, <2>2 DEF Filed, Lost
<1>10. CASE Published(h, ext, e)
  <2>1. Ids(file) = {}
    BY <1>10 DEF Published, Filed, Ids
  <2>2. file' = ext.entries
    BY <1>1, <1>10 DEF Published
  <2>3. Sound(file', failed', nextId')
    BY <1>6, <1>10, <2>2 DEF Published
  <2> QED
    BY <1>1, <1>5, <1>7, <1>10, <2>1, <2>2, <2>3 DEF Filed, Published
<1>11. CASE Logged(h, ext, e)
  <2>1. Ids(h.entries) \subseteq Ids(file) \cup failed
    BY <1>3, <1>11 DEF Logged, Fits
  <2>2. e.parent \in {NoEntry} \cup Ids(file) \cup failed
    BY <2>1 DEF h
  <2>3. Sound(file', failed', nextId')
    BY <1>1, <1>3, <1>4, <1>11, <2>2, AppendedSound DEF Logged
  <2>4. Ids(file') = Ids(file) \cup {nextId}
    BY <1>3, <1>11, AppendedIds DEF Logged, Sound
  <2> QED
    BY <1>1, <1>7, <1>11, <2>1, <2>3, <2>4 DEF Filed, Logged
<1> QED
  BY <1>2, <1>8, <1>9, <1>10, <1>11

-----------------------------------------------------------------------------
\* What an entry through a handle leaves of the rest: the compactions that are
\* under way still hang in the file.
LEMMA PlansKept ==
  ASSUME Planned, Ids(file) \subseteq Ids(file)', exists => exists', plan' = plan,
         \A a \in Turn \cup Compactor : at'[a] = "summarising" => at[a] = "summarising"
  PROVE  Planned'
<1>1. DOMAIN plan' = Actor
  BY DEF Planned
<1>2. \A a \in Turn \cup Compactor :
        at'[a] = "summarising" =>
          /\ exists'
          /\ {"id", "parent"} \subseteq DOMAIN plan'[a]
          /\ plan'[a].parent \in {NoEntry} \cup Ids(file)'
  BY DEF Planned
<1> QED
  BY <1>1, <1>2 DEF Planned

\* One actor moves: who holds the lock is still who saves.
LEMMA Moved ==
  ASSUME Placed, NEW a \in Actor, NEW place \in Place, Go(a, place),
         compacting' \in Turn \cup Compactor \cup {NoOne},
         \/ /\ pathLock' = pathLock
            /\ a \in Turn => (Saving(a) <=> place \in {"saving", "clearing"})
         \/ /\ a \in Turn /\ Saving(a) /\ place \notin {"saving", "clearing"}
            /\ pathLock' = NoOne
         \/ /\ a \in Turn /\ pathLock = NoOne /\ place = "saving"
            /\ pathLock' = a
  PROVE  Placed'
<1>1. at' \in [Actor -> Place] /\ \A b \in Actor : at'[b] = IF b = a THEN place ELSE at[b]
  BY DEF Placed, Go
<1>2. NoOne \notin Turn /\ Turn \subseteq Actor
  BY LogAssumption DEF Actor
<1>3. pathLock' \in Turn \cup {NoOne}
  BY DEF Placed
<1>4. ASSUME NEW t \in Turn
      PROVE  pathLock' = t <=> at'[t] \in {"saving", "clearing"}
  BY <1>1, <1>2 DEF Placed, Saving
<1> QED
  BY <1>1, <1>3, <1>4 DEF Placed, Saving

\* The file, the IDs, and the plans stay; a handle is read again, or stays.
LEMMA HandleRead ==
  ASSUME Filed, Handled, NEW a \in Actor, NEW h \in {Opened, NoHandle, handle[a]},
         handle' = [handle EXCEPT ![a] = h],
         UNCHANGED <<exists, file, nextId, failed>>
  PROVE  Filed' /\ Handled'
<1>1. Filed'
  BY DEF Filed
<1>2. Fits(h, Ids(file), failed, nextId)
  BY OpenedFits DEF Handled
<1>3. DOMAIN handle' = Actor /\ \A b \in Actor : handle'[b] = IF b = a THEN h ELSE handle[b]
  BY DEF Handled
<1>4. \A b \in Actor : Fits(handle'[b], Ids(file)', failed', nextId')
  BY <1>2, <1>3 DEF Handled
<1> QED
  BY <1>1, <1>3, <1>4 DEF Handled

-----------------------------------------------------------------------------
LEMMA LogStarts == LogInit => LogInv
<1> SUFFICES ASSUME LogInit PROVE LogInv
  OBVIOUS
<1>1. Sound(<<>>, {}, 1)
  <2>1. DOMAIN <<>> = {} /\ Len(<<>>) = 0 /\ Ids(<<>>) = {}
    BY DEF Ids
  <2>2. IsSeq(<<>>)
    BY DEF IsSeq
  <2> QED
    BY <2>1, <2>2, FS_EmptySet DEF Sound, Rooted, Numbered
<1>2. Filed
  <2>1. file = <<>> /\ failed = {} /\ nextId = 1 /\ exists = FALSE
    BY DEF LogInit
  <2>2. Sound(file, failed, nextId)
    BY <1>1, <2>1
  <2>3. nextId \in Nat \ {0}
    BY <2>1
  <2> QED
    BY <2>1, <2>2, <2>3 DEF Filed
<1>3. Handled
  BY <1>2, OpenedFits DEF LogInit, Handled
<1>4. Planned
  BY DEF LogInit, Planned, Actor
<1>5. Placed
  BY LogAssumption DEF LogInit, Placed, Place, Saving, Actor
<1> QED
  BY <1>2, <1>3, <1>4, <1>5 DEF LogInv

LEMMA OpenTurnKeeps == \A t \in Turn : LogInv /\ OpenTurn(t) => LogInv'
<1> SUFFICES ASSUME NEW t \in Turn, LogInv, OpenTurn(t) PROVE LogInv'
  OBVIOUS
<1> USE DEF LogInv
<1>1. t \in Actor
  BY DEF Actor
<1>2. Filed' /\ Handled'
  <2>1. OpenOrCreate \in {Opened, NoHandle}
    BY DEF OpenOrCreate
  <2> QED
    BY <1>1, <2>1, HandleRead DEF OpenTurn
<1>3. Placed'
  BY <1>1, Moved DEF OpenTurn, Placed, Place, Saving
<1>4. Planned'
  BY <1>1, PlansKept DEF OpenTurn, Go, Placed, Actor
<1> QED
  BY <1>2, <1>3, <1>4

LEMMA ToolEntryKeeps == \A t \in Turn : LogInv /\ ToolEntry(t) => LogInv'
<1> SUFFICES ASSUME NEW t \in Turn, LogInv, ToolEntry(t) PROVE LogInv'
  OBVIOUS
<1> USE DEF LogInv
<1>1. t \in Actor
  BY DEF Actor
<1>2. handle[t].leaf \in {NoEntry} \cup Ids(handle[t].entries)
  BY <1>1 DEF Handled, Fits
<1>3. PICK ok \in BOOLEAN :
        \/ AppendEntry(t, [Entry(nextId, handle[t].leaf, "working_note") EXCEPT !.role = "text"], ok)
        \/ AppendEntry(t, Message(nextId, handle[t].leaf, "bashExecution", NoEntry, 1, {}), ok)
  BY DEF ToolEntry
<1>4. /\ Filed' /\ Handled'
      /\ Ids(file) \subseteq Ids(file)' /\ (exists => exists')
  <2>1. CASE AppendEntry(t, [Entry(nextId, handle[t].leaf, "working_note") EXCEPT !.role = "text"], ok)
    <3> DEFINE note == [Entry(nextId, handle[t].leaf, "working_note") EXCEPT !.role = "text"]
    <3>1. note.id = nextId /\ note.parent = handle[t].leaf
      BY EntryIs
    <3>2. AppendEntry(t, note, ok)
      BY <2>1
    <3> HIDE DEF note
    <3> QED
      BY <1>1, <1>2, <3>1, <3>2, AppendEntryKeeps
  <2>2. CASE AppendEntry(t, Message(nextId, handle[t].leaf, "bashExecution", NoEntry, 1, {}), ok)
    BY <1>1, <1>2, <2>2, MessageIs, AppendEntryKeeps
  <2> QED
    BY <1>3, <2>1, <2>2
<1>5. Placed'
  BY DEF ToolEntry, Placed, Saving
<1>6. Planned'
  BY <1>4, PlansKept DEF ToolEntry
<1> QED
  BY <1>4, <1>5, <1>6

LEMMA BeginSaveKeeps == \A t \in Turn : LogInv /\ BeginSave(t) => LogInv'
<1> SUFFICES ASSUME NEW t \in Turn, LogInv, BeginSave(t) PROVE LogInv'
  OBVIOUS
<1> USE DEF LogInv
<1>1. t \in Actor
  BY DEF Actor
<1>2. Filed' /\ Handled'
  BY <1>1, HandleRead DEF BeginSave
<1>3. Placed'
  BY <1>1, Moved DEF BeginSave, Placed, Place
<1>4. Planned'
  BY <1>1, PlansKept DEF BeginSave, Go, Placed, Actor
<1> QED
  BY <1>2, <1>3, <1>4

LEMMA SaveMessageKeeps == \A t \in Turn : LogInv /\ SaveMessage(t) => LogInv'
<1> SUFFICES ASSUME NEW t \in Turn, LogInv, SaveMessage(t) PROVE LogInv'
  OBVIOUS
<1> USE DEF LogInv
<1>1. t \in Actor /\ Saving(t)
  BY DEF Actor, SaveMessage, Saving
<1>2. handle[t].leaf \in {NoEntry} \cup Ids(handle[t].entries)
  BY <1>1 DEF Handled, Fits
<1>3. PICK ok \in BOOLEAN :
        /\ AppendEntry(t, Message(nextId, handle[t].leaf, Head(unsaved[t]), NoEntry, 1, {}), ok)
        /\ Release(t, ok, "failed")
  BY DEF SaveMessage
<1>4. /\ Filed' /\ Handled'
      /\ Ids(file) \subseteq Ids(file)' /\ (exists => exists')
  BY <1>1, <1>2, <1>3, MessageIs, AppendEntryKeeps
<1>5. Placed'
  BY <1>1, <1>3, Moved DEF Release, SaveMessage, Placed, Place
<1>6. \A a \in Turn \cup Compactor : at'[a] = "summarising" => at[a] = "summarising"
  BY <1>1, <1>3 DEF Release, Go, Placed, Actor
<1>7. Planned'
  BY <1>4, <1>6, PlansKept DEF SaveMessage
<1> QED
  BY <1>4, <1>5, <1>7

LEMMA SaveOutcomeKeeps == \A t \in Turn : LogInv /\ SaveOutcome(t) => LogInv'
<1> SUFFICES ASSUME NEW t \in Turn, LogInv, SaveOutcome(t) PROVE LogInv'
  OBVIOUS
<1> USE DEF LogInv
<1>1. t \in Actor /\ Saving(t)
  BY DEF Actor, SaveOutcome, Saving
<1>2. handle[t].leaf \in {NoEntry} \cup Ids(handle[t].entries)
  BY <1>1 DEF Handled, Fits
<1>3. PICK ok \in BOOLEAN :
        /\ AppendEntry(t, Entry(nextId, handle[t].leaf, "operation_finished"), ok)
        /\ \/ Go(t, "clearing") /\ UNCHANGED pathLock
           \/ Go(t, IF ok THEN "done" ELSE "failed") /\ pathLock' = NoOne
  BY DEF SaveOutcome
<1>4. /\ Filed' /\ Handled'
      /\ Ids(file) \subseteq Ids(file)' /\ (exists => exists')
  BY <1>1, <1>2, <1>3, EntryIs, AppendEntryKeeps
<1>5. Placed'
  BY <1>1, <1>3, Moved DEF SaveOutcome, Placed, Place
<1>6. \A a \in Turn \cup Compactor : at'[a] = "summarising" => at[a] = "summarising"
  BY <1>1, <1>3 DEF Go, Placed, Actor
<1>7. Planned'
  BY <1>4, <1>6, PlansKept DEF SaveOutcome
<1> QED
  BY <1>4, <1>5, <1>7

LEMMA ClearNoteKeeps == \A t \in Turn : LogInv /\ ClearNote(t) => LogInv'
<1> SUFFICES ASSUME NEW t \in Turn, LogInv, ClearNote(t) PROVE LogInv'
  OBVIOUS
<1> USE DEF LogInv
<1>1. t \in Actor /\ Saving(t)
  BY DEF Actor, ClearNote, Saving
<1>2. handle[t].leaf \in {NoEntry} \cup Ids(handle[t].entries)
  BY <1>1 DEF Handled, Fits
<1>3. PICK ok \in BOOLEAN :
        /\ AppendEntry(t, Entry(nextId, handle[t].leaf, "working_note"), ok)
        /\ Go(t, IF ok THEN "done" ELSE "failed")
  BY DEF ClearNote
<1>4. /\ Filed' /\ Handled'
      /\ Ids(file) \subseteq Ids(file)' /\ (exists => exists')
  BY <1>1, <1>2, <1>3, EntryIs, AppendEntryKeeps
<1>5. Placed'
  BY <1>1, <1>3, Moved DEF ClearNote, Placed, Place
<1>6. \A a \in Turn \cup Compactor : at'[a] = "summarising" => at[a] = "summarising"
  BY <1>1, <1>3 DEF Go, Placed, Actor
<1>7. Planned'
  BY <1>4, <1>6, PlansKept DEF ClearNote
<1> QED
  BY <1>4, <1>5, <1>7

LEMMA DetectBoundaryKeeps == \A t \in Turn : LogInv /\ DetectBoundary(t) => LogInv'
<1> SUFFICES ASSUME NEW t \in Turn, LogInv, DetectBoundary(t) PROVE LogInv'
  OBVIOUS
<1> USE DEF LogInv
<1>1. t \in Actor /\ ~Saving(t)
  BY DEF Actor, DetectBoundary, Saving
<1>2. handle[t].leaf \in {NoEntry} \cup Ids(handle[t].entries)
  BY <1>1 DEF Handled, Fits
<1>3. PICK ok \in BOOLEAN : AppendEntry(t, Entry(nextId, handle[t].leaf, "custom"), ok)
  BY DEF DetectBoundary
<1>4. /\ Filed' /\ Handled'
      /\ Ids(file) \subseteq Ids(file)' /\ (exists => exists')
  BY <1>1, <1>2, <1>3, EntryIs, AppendEntryKeeps
<1>5. PICK place \in {"described", "over"} : Go(t, place)
  BY DEF DetectBoundary
<1>6. Placed'
  BY <1>1, <1>5, Moved DEF DetectBoundary, Placed, Place
<1>7. \A a \in Turn \cup Compactor : at'[a] = "summarising" => at[a] = "summarising"
  BY <1>1, <1>5 DEF Go, Placed, Actor
<1>8. Planned'
  BY <1>4, <1>7, PlansKept DEF DetectBoundary
<1> QED
  BY <1>4, <1>6, <1>8

LEMMA ReloadKeeps == \A t \in Turn : LogInv /\ Reload(t) => LogInv'
<1> SUFFICES ASSUME NEW t \in Turn, LogInv, Reload(t) PROVE LogInv'
  OBVIOUS
<1> USE DEF LogInv
<1>1. t \in Actor
  BY DEF Actor
<1>2. Filed' /\ Handled'
  BY <1>1, HandleRead DEF Reload
<1>3. Placed'
  BY <1>1, Moved DEF Reload, Placed, Place, Saving
<1>4. Planned'
  BY <1>1, PlansKept DEF Reload, Go, Placed, Actor
<1> QED
  BY <1>2, <1>3, <1>4

LEMMA CheckIdleKeeps == \A c \in Turn \cup Compactor : LogInv /\ CheckIdle(c) => LogInv'
<1> SUFFICES ASSUME NEW c \in Turn \cup Compactor, LogInv, CheckIdle(c) PROVE LogInv'
  OBVIOUS
<1> USE DEF LogInv
<1>1. c \in Actor
  BY DEF Actor
<1>2. Filed' /\ Handled'
  BY DEF CheckIdle, Filed, Handled
<1>3. Placed'
  BY <1>1, Moved DEF CheckIdle, Placed, Place, Saving
<1>4. Planned'
  BY <1>1, PlansKept DEF CheckIdle, Go, Placed, Actor
<1> QED
  BY <1>2, <1>3, <1>4

LEMMA BeginCompactionKeeps ==
  \A a \in Turn \cup Compactor : LogInv /\ BeginCompaction(a) => LogInv'
<1> SUFFICES ASSUME NEW a \in Turn \cup Compactor, LogInv, BeginCompaction(a) PROVE LogInv'
  OBVIOUS
<1> USE DEF LogInv
<1>1. a \in Actor
  BY DEF Actor
<1>2. Filed' /\ Handled'
  BY DEF BeginCompaction, Filed, Handled
<1>3. Placed'
  BY <1>1, Moved DEF BeginCompaction, Placed, Place, Saving
<1>4. PICK kept, covers, details :
        plan' = [plan EXCEPT ![a] = Compaction(NoEntry, LastId(file), kept, covers, details)]
  BY DEF BeginCompaction
<1>5. LET p == Compaction(NoEntry, LastId(file), kept, covers, details)
      IN /\ {"id", "parent"} \subseteq DOMAIN p
         /\ p.parent \in {NoEntry} \cup Ids(file)
  BY OpenedFits, CompactionIs DEF Fits, Opened
<1>6. DOMAIN plan' = Actor /\ exists' /\ file' = file
  BY <1>4 DEF Planned, BeginCompaction
<1>7. \A b \in Turn \cup Compactor :
        at'[b] = "summarising" =>
          /\ {"id", "parent"} \subseteq DOMAIN plan'[b]
          /\ plan'[b].parent \in {NoEntry} \cup Ids(file)
  BY <1>1, <1>4, <1>5 DEF Planned, Placed, BeginCompaction, Go, Actor
<1>8. Planned'
  BY <1>6, <1>7 DEF Planned
<1> QED
  BY <1>2, <1>3, <1>8

LEMMA AppendCompactionKeeps ==
  \A a \in Turn \cup Compactor : LogInv /\ AppendCompaction(a) => LogInv'
<1> SUFFICES ASSUME NEW a \in Turn \cup Compactor, LogInv, AppendCompaction(a) PROVE LogInv'
  OBVIOUS
<1> USE DEF LogInv
<1> DEFINE e == [plan[a] EXCEPT !.id = nextId]
<1>1. a \in Actor /\ nextId \in Nat \ {0} /\ nextId' = nextId + 1
  BY DEF Actor, AppendCompaction, Filed
<1>2. /\ exists /\ {"id", "parent"} \subseteq DOMAIN plan[a]
      /\ plan[a].parent \in {NoEntry} \cup Ids(file)
  BY DEF Planned, AppendCompaction
<1>3. e.id = nextId /\ e.parent = plan[a].parent
  BY <1>2
<1> HIDE DEF e
<1>4. \/ file' = Append(file, e) /\ failed' = failed
      \/ file' = file /\ failed' = failed \cup {nextId}
  BY DEF AppendCompaction, e
<1>5. Sound(file, failed, nextId)
  BY DEF Filed
<1>6. Sound(file', failed', nextId')
  <2>1. CASE file' = Append(file, e) /\ failed' = failed
    <3>1. e.parent \in 0..(nextId - 1)
      BY <1>1, <1>2, <1>3, <1>5 DEF Sound, Numbered, Ids, NoEntry
    <3> QED
      BY <1>1, <1>2, <1>3, <1>5, <2>1, <3>1, AppendedSound
  <2>2. CASE file' = file /\ failed' = failed \cup {nextId}
    BY <1>1, <1>5, <2>2, SoundMore
  <2> QED
    BY <1>4, <2>1, <2>2
<1>7. Ids(file) \subseteq Ids(file') /\ failed \subseteq failed'
  BY <1>4, <1>5, AppendedIds DEF Sound
<1>8. exists' = exists /\ handle' = handle
  BY DEF AppendCompaction
<1>9. Filed'
  BY <1>1, <1>2, <1>6, <1>8 DEF Filed
<1>10. Handled'
  BY <1>1, <1>7, <1>8, FitsMore DEF Handled
<1>11. PICK place \in {"reload", "done"} : Go(a, place)
  BY DEF AppendCompaction
<1>12. Placed'
  BY <1>1, <1>11, Moved DEF AppendCompaction, Placed, Place, Saving
<1>13. \A b \in Turn \cup Compactor :
         at'[b] = "summarising" => at[b] = "summarising" /\ plan'[b] = plan[b]
  BY <1>1, <1>11 DEF Planned, Placed, AppendCompaction, Go, Actor
<1>14. DOMAIN plan' = Actor
  BY DEF Planned, AppendCompaction
<1>15. Planned'
  BY <1>2, <1>7, <1>8, <1>13, <1>14 DEF Planned
<1> QED
  BY <1>9, <1>10, <1>12, <1>15

LEMMA AbandonCompactionKeeps ==
  \A a \in Turn \cup Compactor : LogInv /\ AbandonCompaction(a) => LogInv'
<1> SUFFICES ASSUME NEW a \in Turn \cup Compactor, LogInv, AbandonCompaction(a) PROVE LogInv'
  OBVIOUS
<1> USE DEF LogInv
<1>1. a \in Actor
  BY DEF Actor
<1>2. Filed' /\ Handled'
  BY DEF AbandonCompaction, Filed, Handled
<1>3. PICK place \in {"run", "failed", "done"} : Go(a, place)
  BY DEF AbandonCompaction
<1>4. Placed'
  BY <1>1, <1>3, Moved DEF AbandonCompaction, Placed, Place, Saving
<1>5. \A b \in Turn \cup Compactor :
        at'[b] = "summarising" => at[b] = "summarising" /\ plan'[b] = plan[b]
  BY <1>1, <1>3 DEF Planned, Placed, AbandonCompaction, Go, Actor
<1>6. DOMAIN plan' = Actor
  BY DEF Planned, AbandonCompaction
<1>7. Planned'
  BY <1>5, <1>6 DEF Planned, AbandonCompaction
<1> QED
  BY <1>2, <1>4, <1>7

LEMMA OpenBranchKeeps == \A b \in Brancher : LogInv /\ OpenBranch(b) => LogInv'
<1> SUFFICES ASSUME NEW b \in Brancher, LogInv, OpenBranch(b) PROVE LogInv'
  OBVIOUS
<1> USE DEF LogInv
<1>1. b \in Actor
  BY DEF Actor
<1>2. Filed' /\ Handled'
  BY <1>1, HandleRead DEF OpenBranch
<1>3. Placed'
  BY <1>1, Moved DEF OpenBranch, Placed, Place, Saving
<1>4. Planned'
  BY <1>1, PlansKept DEF OpenBranch, Go, Placed, Actor
<1> QED
  BY <1>2, <1>3, <1>4

LEMMA BranchAtKeeps == \A b \in Brancher : LogInv /\ BranchAt(b) => LogInv'
<1> SUFFICES ASSUME NEW b \in Brancher, LogInv, BranchAt(b) PROVE LogInv'
  OBVIOUS
<1> USE DEF LogInv
<1>1. b \in Actor
  BY DEF Actor
<1>2. PICK target \in Ids(handle[b].entries), ok \in BOOLEAN :
        AppendEntry(b, Entry(nextId, target, "branch"), ok)
  BY DEF BranchAt
<1>3. /\ Filed' /\ Handled'
      /\ Ids(file) \subseteq Ids(file)' /\ (exists => exists')
  BY <1>1, <1>2, EntryIs, AppendEntryKeeps
<1>4. Placed'
  BY <1>1, Moved DEF BranchAt, Placed, Place, Saving
<1>5. \A a \in Turn \cup Compactor : at'[a] = "summarising" => at[a] = "summarising"
  BY <1>1 DEF BranchAt, Go, Placed, Actor
<1>6. Planned'
  BY <1>3, <1>5, PlansKept DEF BranchAt
<1> QED
  BY <1>3, <1>4, <1>6

-----------------------------------------------------------------------------
LEMMA LogSteps == LogInv /\ [LogNext]_logVars => LogInv'
<1> SUFFICES ASSUME LogInv, [LogNext]_logVars PROVE LogInv'
  OBVIOUS
<1>1. CASE \E t \in Turn : OpenTurn(t)
  BY <1>1, OpenTurnKeeps
<1>2. CASE \E t \in Turn : ToolEntry(t)
  BY <1>2, ToolEntryKeeps
<1>3. CASE \E t \in Turn : BeginSave(t)
  BY <1>3, BeginSaveKeeps
<1>4. CASE \E t \in Turn : SaveMessage(t)
  BY <1>4, SaveMessageKeeps
<1>5. CASE \E t \in Turn : SaveOutcome(t)
  BY <1>5, SaveOutcomeKeeps
<1>6. CASE \E t \in Turn : ClearNote(t)
  BY <1>6, ClearNoteKeeps
<1>7. CASE \E t \in Turn : DetectBoundary(t)
  BY <1>7, DetectBoundaryKeeps
<1>8. CASE \E t \in Turn : Reload(t)
  BY <1>8, ReloadKeeps
<1>9. CASE \E a \in Turn \cup Compactor : CheckIdle(a)
  BY <1>9, CheckIdleKeeps
<1>10. CASE \E a \in Turn \cup Compactor : BeginCompaction(a)
  BY <1>10, BeginCompactionKeeps
<1>11. CASE \E a \in Turn \cup Compactor : AppendCompaction(a)
  BY <1>11, AppendCompactionKeeps
<1>12. CASE \E a \in Turn \cup Compactor : AbandonCompaction(a)
  BY <1>12, AbandonCompactionKeeps
<1>13. CASE \E b \in Brancher : OpenBranch(b)
  BY <1>13, OpenBranchKeeps
<1>14. CASE \E b \in Brancher : BranchAt(b)
  BY <1>14, BranchAtKeeps
<1>15. CASE UNCHANGED logVars
  BY <1>15 DEF logVars, LogInv, Filed, Handled, Planned, Placed, Saving
<1> QED
  BY <1>1, <1>2, <1>3, <1>4, <1>5, <1>6, <1>7, <1>8, <1>9, <1>10, <1>11, <1>12, <1>13,
     <1>14, <1>15 DEF LogNext

\* What the handles and the file of a session always are: distinct IDs below
\* the next one, entries that hang together, the path lock with who saves.
THEOREM LogInvariant == LogSpec => []LogInv
  BY LogStarts, LogSteps, PTL DEF LogSpec

\* The session file has one entry per ID, and the path lock (session/lock.go)
\* is held by exactly the turn that saves, for any number of turns.
THEOREM LogTyped == LogSpec => []LogTypeOK
<1>1. LogInv => LogTypeOK
  BY DEF LogInv, Filed, Sound, Numbered, Placed, Place, Saving, LogTypeOK
<1> QED
  BY <1>1, LogInvariant, PTL

\* No path of a session ends before the root but at an entry whose write failed.
THEOREM LogParentsExist == LogSpec => []ParentsExist
<1>1. LogInv => ParentsExist
  BY RootedParents DEF LogInv, Filed, Sound
<1> QED
  BY <1>1, LogInvariant, PTL
-----------------------------------------------------------------------------
(* The conversation: what the saved turns have on their paths. *)

LEMMA SoundTree ==
  ASSUME NEW s, NEW lost, NEW n, Sound(s, lost, n)
  PROVE  Tree(s)
<1>1. /\ IsSeq(s) /\ Cardinality(Ids(s)) = Len(s)
      /\ \A i, j \in DOMAIN s : s[i].id = s[j].id => i = j
  BY DEF Sound, Numbered
<1>2. ASSUME NEW i \in DOMAIN s
      PROVE  ParentAt(s, i) \in 0..(i - 1)
  <2>1. i \in Nat /\ i >= 1
    BY <1>1 DEF IsSeq
  <2>2. CASE s[i].parent = NoEntry
    <3>1. NoEntry \notin Ids(s)
      BY DEF Sound, Numbered, Ids, NoEntry
    <3> QED
      BY <1>1, <2>1, <2>2, <3>1, PositionIs DEF ParentAt
  <2>3. CASE s[i].parent \in lost \ Ids(s)
    BY <1>1, <2>1, <2>3, PositionIs DEF ParentAt
  <2>4. CASE \E j \in DOMAIN s : j < i /\ s[j].id = s[i].parent
    <3>1. PICK j \in DOMAIN s : j < i /\ s[j].id = s[i].parent
      BY <2>4
    <3>2. j \in Nat /\ j >= 1
      BY <1>1 DEF IsSeq
    <3>3. ParentAt(s, i) = j
      BY <1>1, <3>1, PositionIs DEF ParentAt
    <3> QED
      BY <2>1, <3>1, <3>2, <3>3
  <2> QED
    BY <2>2, <2>3, <2>4 DEF Sound, Rooted
<1> QED
  BY <1>1, <1>2 DEF Tree

\* The IDs on the path from an entry.
PathIds(s, id) == {s[i].id : i \in PathFrom(s, id)}

LEMMA PathHas ==
  ASSUME NEW s, Tree(s), NEW id \in Ids(s)
  PROVE  /\ id \in PathIds(s, id) /\ PathIds(s, id) \subseteq Ids(s)
         /\ \A k \in PathIds(s, id) : PathIds(s, k) \subseteq PathIds(s, id)
<1>1. /\ PathFrom(s, id) \subseteq DOMAIN s
      /\ PositionOf(s, id) \in PathFrom(s, id)
      /\ Closed(s, PathFrom(s, id))
  BY PathLeast
<1>2. s[PositionOf(s, id)].id = id
  BY PositionIs DEF Tree
<1>3. ASSUME NEW k \in PathIds(s, id)
      PROVE  PathIds(s, k) \subseteq PathIds(s, id)
  <2>1. PICK i \in PathFrom(s, id) : s[i].id = k
    BY DEF PathIds
  <2>2. k \in Ids(s) /\ PositionOf(s, k) = i
    BY <1>1, <2>1, PositionIs DEF Tree, Ids
  <2>3. PathFrom(s, k) \subseteq PathFrom(s, id)
    BY <1>1, <2>2, PathLeast
  <2> QED
    BY <2>3 DEF PathIds
<1> QED
  BY <1>1, <1>2, <1>3 DEF PathIds, Ids

\* The path from an entry goes on through the entry that it hangs at.
LEMMA PathUp ==
  ASSUME NEW s, Tree(s), NEW i \in DOMAIN s, s[i].parent \in Ids(s), NEW id \in Ids(s),
         i \in PathFrom(s, id)
  PROVE  PositionOf(s, s[i].parent) \in PathFrom(s, id)
<1>1. Closed(s, PathFrom(s, id))
  BY PathLeast
<1>2. PositionOf(s, s[i].parent) \in DOMAIN s
  BY PositionIs DEF Tree
<1>3. 0 \notin DOMAIN s
  BY DEF Tree, IsSeq
<1> QED
  BY <1>1, <1>2, <1>3 DEF Closed, ParentAt

LEMMA PathOverParent ==
  ASSUME NEW s, Tree(s), NEW i \in DOMAIN s, s[i].parent \in Ids(s)
  PROVE  PathIds(s, s[i].parent) \subseteq PathIds(s, s[i].id)
<1>1. s[i].id \in Ids(s) /\ PositionOf(s, s[i].id) = i
  BY PositionIs DEF Tree, Ids
<1>2. i \in PathFrom(s, s[i].id)
  BY <1>1, PathLeast
<1>3. PositionOf(s, s[i].parent) \in PathFrom(s, s[i].id)
  BY <1>1, <1>2, PathUp
<1>4. s[PositionOf(s, s[i].parent)].id = s[i].parent
  BY PositionIs DEF Tree
<1>5. s[i].parent \in PathIds(s, s[i].id)
  BY <1>3, <1>4 DEF PathIds
<1> QED
  BY <1>1, <1>5, PathHas

\* What is on the path from an entry stays on it when the log grows.
LEMMA PathGrows ==
  ASSUME NEW s, Tree(s), NEW e, Tree(Append(s, e)), e.id \notin Ids(s),
         \A i \in DOMAIN s : s[i].parent # e.id, NEW id \in Ids(s)
  PROVE  PathIds(s, id) \subseteq PathIds(Append(s, e), id)
<1> DEFINE r == Append(s, e)
           U == PathFrom(r, id) \cap DOMAIN s
<1>1. /\ Len(s) \in Nat /\ DOMAIN s = 1 .. Len(s) /\ DOMAIN r = 1 .. Len(s) + 1
      /\ \A i \in DOMAIN s : r[i] = s[i]
      /\ r[Len(s) + 1] = e
  BY Appended DEF Tree
<1>2. Ids(r) = Ids(s) \cup {e.id}
  BY AppendedIds DEF Tree
<1> HIDE DEF r
<1>3. Tree(r)
  BY DEF r
<1>4. ASSUME NEW k, k # e.id
      PROVE  PositionOf(r, k) = PositionOf(s, k)
  <2>1. CASE k \in Ids(s)
    <3>1. PositionOf(s, k) \in DOMAIN s /\ s[PositionOf(s, k)].id = k
      BY <2>1, PositionIs DEF Tree
    <3>2. PositionOf(s, k) \in DOMAIN r /\ r[PositionOf(s, k)].id = k
      BY <1>1, <3>1
    <3> QED
      BY <1>3, <3>2, PositionIs DEF Tree
  <2>2. CASE k \notin Ids(s)
    <3>1. k \notin Ids(r)
      BY <1>2, <1>4, <2>2
    <3> QED
      BY <1>3, <2>2, <3>1, PositionIs DEF Tree
  <2> QED
    BY <2>1, <2>2
<1>5. PositionOf(s, id) \in U
  <2>1. PositionOf(r, id) \in PathFrom(r, id) /\ PositionOf(r, id) = PositionOf(s, id)
    BY <1>2, <1>3, <1>4, PathLeast
  <2>2. PositionOf(s, id) \in DOMAIN s
    BY PositionIs DEF Tree
  <2> QED
    BY <2>1, <2>2
<1>6. Closed(s, U)
  <2> SUFFICES ASSUME NEW i \in U PROVE ParentAt(s, i) \in U \cup {0}
    BY DEF Closed
  <2>1. ParentAt(r, i) = ParentAt(s, i)
    BY <1>1, <1>4 DEF ParentAt
  <2>2. ParentAt(r, i) \in PathFrom(r, id) \cup {0}
    BY <1>2, <1>3, PathLeast DEF Closed
  <2>3. ParentAt(s, i) \in DOMAIN s \cup {0}
    <3>1. ParentAt(s, i) \in 0..(i - 1) /\ i \in 1..Len(s)
      BY <1>1 DEF Tree
    <3> QED
      BY <1>1, <3>1
  <2> QED
    BY <2>1, <2>2, <2>3
<1>7. PathFrom(s, id) \subseteq U
  BY <1>5, <1>6, PathLeast
<1>8. PathIds(s, id) \subseteq PathIds(r, id)
  BY <1>1, <1>7 DEF PathIds
<1> QED
  BY <1>8 DEF r

-----------------------------------------------------------------------------
\* In s every later message of a turn hangs at the one before it, which is there.
Chained(s, history) ==
  \A t \in Turn : \A k \in DOMAIN history[t], i \in DOMAIN s :
    k > 1 /\ s[i].id = history[t][k] =>
      s[i].parent = history[t][k - 1] /\ history[t][k - 1] \in Ids(s)

Chains ==
  /\ Chained(file, messages)
  /\ \A a \in Actor : Chained(handle[a].entries, messages)

Remembered ==
  /\ messages \in [Turn -> Seq(Nat)]
  /\ DOMAIN seen = Turn
  /\ \A t \in Turn : \A k \in DOMAIN messages[t] : messages[t][k] < nextId
  /\ \A t \in Turn : at[t] \in {"idle", "run", "summarising", "reload"} => messages[t] = <<>>

\* The entry id has all that the turn saw on its path.
Follows(t, id) == id \in Ids(file) /\ seen[t] \subseteq PathIds(file, id)

\* While a turn is saved its handle has all of its messages, and so has the file
\* once the handle is flushed; the next message hangs at the one before it, the
\* first one where what the turn saw is.
InSave(t) ==
  at[t] = "saving" =>
    /\ \A k \in DOMAIN messages[t] :
         /\ messages[t][k] \in Ids(handle[t].entries)
         /\ handle[t].flushed => messages[t][k] \in Ids(file)
    /\ messages[t] # <<>> => handle[t].leaf = messages[t][Len(messages[t])]
    /\ messages[t] = <<>> => seen[t] = {} \/ (handle[t].flushed /\ Follows(t, handle[t].leaf))

\* A saved turn has what it saw on the path of its first message.
Uncut(t) ==
  messages[t] # <<>> /\ messages[t][1] \in Ids(file) =>
    seen[t] = {} \/ Follows(t, messages[t][1])

\* A handle that has published nothing has only turns that saw nothing.
Unpublished(t) ==
  \A a \in Actor :
    ~handle[a].flushed /\ messages[t] # <<>> /\ messages[t][1] \in Ids(handle[a].entries)
      => seen[t] = {}

TurnInv ==
  /\ Remembered /\ Chains
  /\ \A t \in Turn : InSave(t) /\ Uncut(t) /\ Unpublished(t)

\* The file grew: what was on a path is still on it.
Grew ==
  /\ Ids(file) \subseteq Ids(file')
  /\ \A id \in Ids(file) : PathIds(file, id) \subseteq PathIds(file', id)

LEMMA FollowsGrew ==
  ASSUME Grew, NEW t, NEW id, Follows(t, id), seen'[t] = seen[t]
  PROVE  id \in Ids(file') /\ seen'[t] \subseteq PathIds(file', id)
  BY DEF Grew, Follows

LEMMA FileGrew ==
  ASSUME Filed, Filed', NEW e, e.id = nextId, file' = Append(file, e)
  PROVE  Grew /\ Ids(file') = Ids(file) \cup {e.id}
<1>1. Tree(file) /\ Tree(Append(file, e))
  BY SoundTree DEF Filed
<1>2. e.id \notin Ids(file) /\ \A i \in DOMAIN file : file[i].parent # e.id
  BY DEF Filed, Sound, Numbered, Ids
<1>3. Ids(file') = Ids(file) \cup {e.id}
  BY <1>1, AppendedIds DEF Tree
<1>4. \A id \in Ids(file) : PathIds(file, id) \subseteq PathIds(file', id)
  BY <1>1, <1>2, PathGrows
<1> QED
  BY <1>3, <1>4 DEF Grew

\* Chains are kept when IDs that are not in them are given to messages.
LEMMA ChainedKept ==
  ASSUME NEW s, NEW before, NEW after, Chained(s, before), NEW n, n \notin Ids(s),
         \A t \in Turn : \A k \in DOMAIN after[t] :
           after[t][k] # n =>
             /\ k \in DOMAIN before[t] /\ before[t][k] = after[t][k]
             /\ k > 1 => before[t][k - 1] = after[t][k - 1]
  PROVE  Chained(s, after)
<1> SUFFICES ASSUME NEW t \in Turn, NEW k \in DOMAIN after[t], NEW i \in DOMAIN s,
                    k > 1, s[i].id = after[t][k]
             PROVE  s[i].parent = after[t][k - 1] /\ after[t][k - 1] \in Ids(s)
  BY DEF Chained
<1>1. after[t][k] # n
  BY DEF Ids
<1>2. k \in DOMAIN before[t] /\ before[t][k] = after[t][k] /\ before[t][k - 1] = after[t][k - 1]
  BY <1>1
<1>3. s[i].parent = before[t][k - 1] /\ before[t][k - 1] \in Ids(s)
  BY <1>2 DEF Chained
<1> QED
  BY <1>2, <1>3

LEMMA ChainedAppended ==
  ASSUME NEW s, IsSeq(s), NEW history, Chained(s, history), NEW e,
         \A t \in Turn : \A k \in DOMAIN history[t] :
           k > 1 /\ history[t][k] = e.id =>
             e.parent = history[t][k - 1] /\ history[t][k - 1] \in Ids(s)
  PROVE  Chained(Append(s, e), history)
<1> DEFINE r == Append(s, e)
<1>1. /\ Len(s) \in Nat /\ DOMAIN s = 1 .. Len(s) /\ DOMAIN r = 1 .. Len(s) + 1
      /\ \A i \in DOMAIN s : r[i] = s[i]
      /\ r[Len(s) + 1] = e
  BY Appended
<1>2. Ids(r) = Ids(s) \cup {e.id}
  BY AppendedIds
<1> HIDE DEF r
<1>3. ASSUME NEW t \in Turn, NEW k \in DOMAIN history[t], NEW i \in DOMAIN r,
             k > 1, r[i].id = history[t][k]
      PROVE  r[i].parent = history[t][k - 1] /\ history[t][k - 1] \in Ids(r)
  <2>1. CASE i \in DOMAIN s
    <3>1. s[i].id = history[t][k] /\ r[i] = s[i]
      BY <1>1, <1>3, <2>1
    <3>2. s[i].parent = history[t][k - 1] /\ history[t][k - 1] \in Ids(s)
      BY <1>3, <2>1, <3>1 DEF Chained
    <3> QED
      BY <1>2, <3>1, <3>2
  <2>2. CASE i \notin DOMAIN s
    <3>1. r[i] = e
      BY <1>1, <2>2
    <3> QED
      BY <1>2, <1>3, <3>1
  <2> QED
    BY <2>1, <2>2
<1>4. Chained(r, history)
  BY <1>3 DEF Chained
<1> QED
  BY <1>4 DEF r

\* An entry that goes through a handle keeps the chains if it hangs right.
LEMMA ChainsKept ==
  ASSUME LogInv, LogInv', Chains, NEW a \in Actor, NEW e, NEW ok, AppendEntry(a, e, ok),
         e.id = nextId,
         \A t \in Turn : \A k \in DOMAIN messages'[t] :
           messages'[t][k] # nextId =>
             /\ k \in DOMAIN messages[t] /\ messages[t][k] = messages'[t][k]
             /\ k > 1 => messages[t][k - 1] = messages'[t][k - 1],
         \A t \in Turn : \A k \in DOMAIN messages'[t] :
           k > 1 /\ messages'[t][k] = nextId =>
             /\ e.parent = messages'[t][k - 1]
             /\ messages'[t][k - 1] \in Ids(handle[a].entries)
             /\ handle[a].flushed => messages'[t][k - 1] \in Ids(file)
  PROVE  Chains'
<1> DEFINE h == handle[a]
           ext == handle'[a]
<1>1. /\ \A b \in Actor \ {a} : handle'[b] = handle[b]
      /\ ext.entries = Append(h.entries, e)
      /\ Waits(h, ext) \/ Lost(h, ext, e) \/ Published(h, ext, e) \/ Logged(h, ext, e)
  BY AppendEntryDoes DEF LogInv
<1> HIDE DEF h, ext
<1>2. /\ IsSeq(file) /\ nextId \notin Ids(file)
      /\ \A b \in Actor : IsSeq(handle[b].entries) /\ nextId \notin Ids(handle[b].entries)
  <2>1. Sound(file, failed, nextId) /\ \A b \in Actor : Sound(handle[b].entries, failed, nextId)
    BY DEF LogInv, Filed, Handled, Fits
  <2>2. ASSUME NEW s, Sound(s, failed, nextId)
        PROVE  IsSeq(s) /\ nextId \notin Ids(s)
    <3>1. nextId \in Nat
      BY DEF LogInv, Filed
    <3> QED
      BY <2>2, <3>1 DEF Sound, Numbered, Ids
  <2> QED
    BY <2>1, <2>2
<1>3. /\ Chained(file, messages')
      /\ \A b \in Actor : Chained(handle[b].entries, messages')
  BY <1>2, ChainedKept DEF Chains
<1>4. Chained(ext.entries, messages')
  BY <1>1, <1>2, <1>3, ChainedAppended DEF h
<1>5. Chained(file', messages')
  <2>1. CASE Logged(h, ext, e)
    BY <1>2, <1>3, <2>1, ChainedAppended DEF Logged, h
  <2>2. CASE Published(h, ext, e)
    BY <1>1, <1>4, <2>2 DEF Published
  <2>3. CASE Waits(h, ext) \/ Lost(h, ext, e)
    BY <1>3, <2>3 DEF Waits, Lost
  <2> QED
    BY <1>1, <2>1, <2>2, <2>3
<1>6. \A b \in Actor : Chained(handle'[b].entries, messages')
  BY <1>1, <1>3, <1>4 DEF ext
<1> QED
  BY <1>5, <1>6 DEF Chains

\* And the file grows by it.
LEMMA AppendEntryGrows ==
  ASSUME LogInv, LogInv', NEW a \in Actor, NEW e, NEW ok, AppendEntry(a, e, ok), e.id = nextId
  PROVE  Grew
<1> DEFINE h == handle[a]
           ext == handle'[a]
<1>1. Waits(h, ext) \/ Lost(h, ext, e) \/ Published(h, ext, e) \/ Logged(h, ext, e)
  BY AppendEntryDoes DEF LogInv
<1> HIDE DEF h, ext
<1>2. CASE Waits(h, ext) \/ Lost(h, ext, e)
  BY <1>2 DEF Waits, Lost, Grew
<1>3. CASE Published(h, ext, e)
  <2>1. Ids(file) = {}
    BY <1>3 DEF Published, LogInv, Filed, Ids
  <2> QED
    BY <2>1 DEF Grew
<1>4. CASE Logged(h, ext, e)
  BY <1>4, FileGrew DEF Logged, LogInv
<1> QED
  BY <1>1, <1>2, <1>3, <1>4

\* The shapes of steps.  One: nothing is written and no handle is read.
LEMMA QuietKeeps ==
  ASSUME TurnInv, UNCHANGED <<file, handle, messages, seen, nextId>>,
         \A t \in Turn : at'[t] = "saving" => at[t] = "saving",
         \A t \in Turn : at'[t] \in {"idle", "run", "summarising", "reload"} =>
           at[t] \in {"idle", "run", "summarising", "reload"}
  PROVE  TurnInv'
<1>1. Remembered' /\ Chains'
  BY DEF TurnInv, Remembered, Chains
<1>2. \A t \in Turn : InSave(t)' /\ Uncut(t)' /\ Unpublished(t)'
  BY DEF TurnInv, InSave, Uncut, Unpublished, Follows
<1> QED
  BY <1>1, <1>2 DEF TurnInv

\* Two: a handle reads the file, or is new.
LEMMA ReadKeeps ==
  ASSUME LogInv, TurnInv, NEW a \in Actor, NEW h \in {Opened, NoHandle},
         handle' = [handle EXCEPT ![a] = h],
         UNCHANGED <<file, messages, seen, nextId>>,
         \A t \in Turn : at'[t] = "saving" => at[t] = "saving" /\ t # a,
         \A t \in Turn : at'[t] \in {"idle", "run", "summarising", "reload"} =>
           at[t] \in {"idle", "run", "summarising", "reload"}
  PROVE  TurnInv'
<1>1. handle'[a] = h /\ \A b \in Actor \ {a} : handle'[b] = handle[b]
  BY DEF LogInv, Handled
<1>2. /\ Opened.entries = file /\ Opened.flushed = TRUE
      /\ NoHandle.entries = <<>>
      /\ DOMAIN <<>> = {} /\ Ids(<<>>) = {}
  BY DEF Opened, NoHandle, Ids
<1>3. Remembered'
  BY DEF TurnInv, Remembered
<1>4. Chains'
  <2>1. Chained(h.entries, messages)
    BY <1>2 DEF TurnInv, Chains, Chained
  <2>2. \A b \in Actor : Chained(handle'[b].entries, messages)
    BY <1>1, <2>1 DEF TurnInv, Chains
  <2> QED
    BY <2>2 DEF TurnInv, Chains
<1>5. ASSUME NEW t \in Turn
      PROVE  InSave(t)' /\ Uncut(t)' /\ Unpublished(t)'
  <2>1. InSave(t)'
    <3>1. at'[t] = "saving" => at[t] = "saving" /\ handle'[t] = handle[t]
      BY <1>1 DEF Actor
    <3> QED
      BY <3>1 DEF TurnInv, InSave, Follows
  <2>2. Uncut(t)'
    BY DEF TurnInv, Uncut, Follows
  <2>3. Unpublished(t)'
    <3> SUFFICES ASSUME NEW b \in Actor, ~handle'[b].flushed, messages[t] # <<>>,
                        messages[t][1] \in Ids(handle'[b].entries)
                 PROVE  seen[t] = {}
      BY DEF Unpublished
    <3>1. b # a
      BY <1>1, <1>2
    <3> QED
      BY <1>1, <3>1 DEF TurnInv, Unpublished
  <2> QED
    BY <2>1, <2>2, <2>3
<1> QED
  BY <1>3, <1>4, <1>5 DEF TurnInv

\* Three: an entry that is no message of a saved turn goes through a handle.
LEMMA OtherEntryKeeps ==
  ASSUME LogInv, LogInv', TurnInv, NEW a \in Actor, NEW e, NEW ok, AppendEntry(a, e, ok),
         e.id = nextId, UNCHANGED <<messages, seen>>,
         \A t \in Turn : at'[t] = "saving" => at[t] = "saving" /\ t # a,
         \A t \in Turn : at'[t] \in {"idle", "run", "summarising", "reload"} =>
           at[t] \in {"idle", "run", "summarising", "reload"}
  PROVE  TurnInv'
<1> DEFINE h == handle[a]
           ext == handle'[a]
<1>1. /\ nextId' = nextId + 1 /\ nextId \in Nat
      /\ \A b \in Actor \ {a} : handle'[b] = handle[b]
      /\ ext.entries = Append(h.entries, e)
      /\ h.flushed => ext.flushed
      /\ Waits(h, ext) \/ Lost(h, ext, e) \/ Published(h, ext, e) \/ Logged(h, ext, e)
  BY AppendEntryDoes DEF LogInv, Filed
<1>2. IsSeq(h.entries) /\ Ids(ext.entries) = Ids(h.entries) \cup {nextId}
  BY <1>1, AppendedIds DEF LogInv, Handled, Fits, Sound
<1> HIDE DEF h, ext
<1>3. \A t \in Turn : \A k \in DOMAIN messages[t] : messages[t][k] \in Nat /\ messages[t][k] < nextId
  BY DEF TurnInv, Remembered
<1>4. \A t \in Turn : \A k \in DOMAIN messages[t] : messages[t][k] # nextId
  BY <1>1, <1>3
<1>5. Grew
  BY AppendEntryGrows
<1>6. Remembered'
  <2>1. \A t \in Turn : \A k \in DOMAIN messages[t] : messages[t][k] < nextId'
    BY <1>1, <1>3
  <2> QED
    BY <2>1 DEF TurnInv, Remembered
<1>7. Chains'
  BY <1>4, ChainsKept DEF TurnInv
<1>8. ASSUME NEW t \in Turn
      PROVE  InSave(t)' /\ Uncut(t)' /\ Unpublished(t)'
  <2>1. messages[t] # <<>> => 1 \in DOMAIN messages[t]
    BY DEF TurnInv, Remembered
  <2>2. InSave(t)'
    <3>1. at'[t] = "saving" => at[t] = "saving" /\ handle'[t] = handle[t]
      BY <1>1 DEF Actor
    <3>2. \A id : Follows(t, id) => Follows(t, id)'
      BY <1>5, FollowsGrew DEF Follows
    <3> QED
      BY <1>5, <3>1, <3>2 DEF TurnInv, InSave, Grew
  <2>3. Uncut(t)'
    <3> SUFFICES ASSUME messages[t] # <<>>, messages[t][1] \in Ids(file')
                 PROVE  seen[t] = {} \/ Follows(t, messages[t][1])'
      BY DEF Uncut
    <3>1. CASE messages[t][1] \in Ids(file)
      <4>1. seen[t] = {} \/ Follows(t, messages[t][1])
        BY <3>1 DEF TurnInv, Uncut
      <4> QED
        BY <1>5, <4>1, FollowsGrew DEF Follows
    <3>2. CASE messages[t][1] \notin Ids(file)
      <4>1. ~Logged(h, ext, e)
        <5>1. ASSUME Logged(h, ext, e) PROVE Ids(file') = Ids(file) \cup {nextId}
          BY <5>1, FileGrew DEF Logged, LogInv
        <5> QED
          BY <1>4, <2>1, <3>2, <5>1
      <4>2. Published(h, ext, e)
        BY <1>1, <3>2, <4>1 DEF Waits, Lost
      <4>3. messages[t][1] \in Ids(h.entries) /\ ~h.flushed
        BY <1>1, <1>2, <1>4, <2>1, <4>2 DEF Published
      <4> QED
        BY <4>3 DEF TurnInv, Unpublished, h
    <3> QED
      BY <3>1, <3>2
  <2>4. Unpublished(t)'
    <3> SUFFICES ASSUME NEW b \in Actor, ~handle'[b].flushed, messages[t] # <<>>,
                        messages[t][1] \in Ids(handle'[b].entries)
                 PROVE  seen[t] = {}
      BY DEF Unpublished
    <3>1. CASE b # a
      BY <1>1, <3>1 DEF TurnInv, Unpublished
    <3>2. CASE b = a
      <4>1. ~h.flushed /\ messages[t][1] \in Ids(h.entries)
        BY <1>1, <1>2, <1>4, <2>1, <3>2 DEF ext
      <4> QED
        BY <4>1 DEF TurnInv, Unpublished, h
    <3> QED
      BY <3>1, <3>2
  <2> QED
    BY <2>2, <2>3, <2>4
<1> QED
  BY <1>6, <1>7, <1>8 DEF TurnInv

-----------------------------------------------------------------------------
LEMMA TurnStarts == LogInit => TurnInv
<1> SUFFICES ASSUME LogInit PROVE TurnInv
  OBVIOUS
<1>1. /\ file = <<>> /\ messages = [t \in Turn |-> <<>>] /\ DOMAIN seen = Turn
      /\ \A t \in Turn : at[t] = "idle"
      /\ \A a \in Actor : handle[a].entries = <<>>
  BY DEF LogInit, NoHandle, Actor
<1>2. DOMAIN <<>> = {}
  OBVIOUS
<1>3. Remembered
  BY <1>1 DEF Remembered
<1>4. Chains
  BY <1>1, <1>2 DEF Chains, Chained
<1>5. \A t \in Turn : InSave(t) /\ Uncut(t) /\ Unpublished(t)
  BY <1>1 DEF InSave, Uncut, Unpublished
<1> QED
  BY <1>3, <1>4, <1>5 DEF TurnInv

\* What the conversation has when a turn takes the lock is on the path from the
\* last entry.
LEMMA DialogueOnPath ==
  /\ ActiveDialogue \subseteq PathIds(file, LastId(file))
  /\ file = <<>> => ActiveDialogue = {}
<1>1. ActiveDialogue \subseteq PathIds(file, LastId(file))
  BY DEF ActiveDialogue, PathIds, PathFrom
<1>2. ASSUME file = <<>> PROVE ActiveDialogue = {}
  <2>1. Len(file) = 0
    BY <1>2
  <2>2. ActiveEntries(file, LastId(file)) = [i \in 1..0 |-> i]
    BY <2>1 DEF ActiveEntries
  <2>3. Range([i \in 1..0 |-> i]) = {}
    BY DEF Range
  <2> QED
    BY <2>2, <2>3 DEF ActiveDialogue
<1> QED
  BY <1>1, <1>2

LEMMA BeginSaveTurn ==
  ASSUME LogInv, TurnInv, NEW t \in Turn, BeginSave(t)
  PROVE  TurnInv'
<1> DEFINE h == IF exists THEN Opened ELSE handle[t]
<1>1. /\ at[t] = "run" /\ messages[t] = <<>> /\ t \in Actor
      /\ handle'[t] = h /\ \A b \in Actor \ {t} : handle'[b] = handle[b]
      /\ seen' = [seen EXCEPT ![t] = ActiveDialogue]
      /\ at' = [at EXCEPT ![t] = "saving"]
      /\ UNCHANGED <<file, messages, nextId>>
  BY DEF BeginSave, Go, LogInv, Handled, TurnInv, Remembered, Actor
<1>2. /\ Opened.entries = file /\ Opened.flushed = TRUE /\ Opened.leaf = LastId(file)
  BY DEF Opened
<1>3. /\ DOMAIN seen' = Turn /\ seen'[t] = ActiveDialogue
      /\ \A u \in Turn \ {t} : seen'[u] = seen[u] /\ at'[u] = at[u]
      /\ at'[t] = "saving"
  BY <1>1 DEF TurnInv, Remembered, LogInv, Placed, Actor
<1>4. Remembered'
  BY <1>1, <1>3 DEF TurnInv, Remembered
<1>5. Chains'
  <2>1. Chained(h.entries, messages)
    BY <1>1, <1>2 DEF TurnInv, Chains
  <2>2. \A b \in Actor : Chained(handle'[b].entries, messages)
    BY <1>1, <2>1 DEF TurnInv, Chains
  <2> QED
    BY <1>1, <2>2 DEF TurnInv, Chains
<1>6. ASSUME NEW u \in Turn, u # t
      PROVE  InSave(u)' /\ Uncut(u)' /\ Unpublished(u)'
  <2>1. InSave(u)'
    <3>1. at'[u] = at[u] /\ handle'[u] = handle[u] /\ seen'[u] = seen[u]
      BY <1>1, <1>3, <1>6 DEF Actor
    <3> QED
      BY <1>1, <3>1 DEF TurnInv, InSave, Follows
  <2>2. Uncut(u)'
    BY <1>1, <1>3, <1>6 DEF TurnInv, Uncut, Follows
  <2>3. Unpublished(u)'
    <3> SUFFICES ASSUME NEW b \in Actor, ~handle'[b].flushed, messages[u] # <<>>,
                        messages[u][1] \in Ids(handle'[b].entries)
                 PROVE  seen[u] = {}
      BY <1>1, <1>3, <1>6 DEF Unpublished
    <3>1. handle'[b] = handle[b]
      BY <1>1, <1>2
    <3> QED
      BY <3>1 DEF TurnInv, Unpublished
  <2> QED
    BY <2>1, <2>2, <2>3
<1>7. InSave(t)'
  <2>1. CASE file = <<>>
    <3>1. seen'[t] = {}
      BY <1>3, <2>1, DialogueOnPath
    <3> QED
      BY <1>1, <3>1 DEF InSave
  <2>2. CASE file # <<>>
    <3>1. exists /\ LastId(file) \in Ids(file)
      <4>1. Len(file) \in DOMAIN file
        BY <2>2 DEF LogInv, Filed, Sound, IsSeq
      <4> QED
        BY <2>2, <4>1 DEF LogInv, Filed, LastId, Last, Ids
    <3>2. seen'[t] \subseteq PathIds(file, LastId(file))
      BY <1>3, DialogueOnPath
    <3>3. handle'[t].flushed /\ handle'[t].leaf = LastId(file)
      BY <1>1, <1>2, <3>1
    <3> QED
      BY <1>1, <3>1, <3>2, <3>3 DEF InSave, Follows
  <2> QED
    BY <2>1, <2>2
<1>8. Uncut(t)' /\ Unpublished(t)'
  BY <1>1 DEF Uncut, Unpublished
<1> QED
  BY <1>4, <1>5, <1>6, <1>7, <1>8 DEF TurnInv

LEMMA SaveMessageTurn ==
  ASSUME LogInv, LogInv', TurnInv, NEW t \in Turn, SaveMessage(t)
  PROVE  TurnInv'
<1> DEFINE e == Message(nextId, handle[t].leaf, Head(unsaved[t]), NoEntry, 1, {})
<1>1. PICK ok \in BOOLEAN : AppendEntry(t, e, ok) /\ Release(t, ok, "failed")
  BY DEF SaveMessage
<1>2. e.id = nextId /\ e.parent = handle[t].leaf
  BY MessageIs
<1> HIDE DEF e
<1> DEFINE h == handle[t]
           ext == handle'[t]
           n == Len(messages[t])
<1>3. /\ t \in Actor /\ at[t] = "saving"
      /\ messages \in [Turn -> Seq(Nat)]
      /\ messages' = [messages EXCEPT ![t] = Append(messages[t], nextId)]
      /\ seen' = seen /\ DOMAIN seen = Turn
  BY DEF SaveMessage, TurnInv, Remembered, Actor
<1>4. /\ ok \in BOOLEAN
      /\ nextId' = nextId + 1 /\ nextId \in Nat
      /\ \A b \in Actor \ {t} : handle'[b] = handle[b]
      /\ ext.entries = Append(h.entries, e) /\ ext.leaf = nextId
      /\ ext.flushed \in BOOLEAN /\ (h.flushed => ext.flushed)
      /\ Waits(h, ext) \/ (~ok /\ Lost(h, ext, e)) \/ Published(h, ext, e) \/ Logged(h, ext, e)
  BY <1>1, <1>2, <1>3, AppendEntryDoes DEF LogInv, Filed
<1>5. IsSeq(h.entries) /\ Ids(ext.entries) = Ids(h.entries) \cup {nextId}
  BY <1>2, <1>3, <1>4, AppendedIds DEF LogInv, Handled, Fits, Sound
<1>6. /\ n \in Nat /\ DOMAIN messages[t] = 1..n /\ messages[t] \in Seq(Nat)
      /\ messages'[t] \in Seq(Nat) /\ DOMAIN messages'[t] = 1..(n + 1) /\ Len(messages'[t]) = n + 1
      /\ \A k \in 1..n : messages'[t][k] = messages[t][k]
      /\ messages'[t][n + 1] = nextId
      /\ messages[t] = <<>> <=> n = 0
      /\ messages'[t] # <<>>
      /\ \A u \in Turn \ {t} : messages'[u] = messages[u]
  <2>1. messages[t] \in Seq(Nat)
    BY <1>3
  <2>2. messages'[t] = Append(messages[t], nextId) /\ \A u \in Turn \ {t} : messages'[u] = messages[u]
    BY <1>3
  <2> QED
    BY <1>4, <2>1, <2>2
<1>7. \A u \in Turn : \A k \in DOMAIN messages[u] :
        messages[u][k] \in Nat /\ messages[u][k] < nextId /\ messages[u][k] # nextId
  BY <1>4 DEF TurnInv, Remembered
<1> HIDE DEF h, ext, n
<1>8. Grew
  BY <1>1, <1>2, <1>3, AppendEntryGrows
<1>9. \A k \in 1..n : messages[t][k] \in Ids(h.entries) /\ (h.flushed => messages[t][k] \in Ids(file))
  BY <1>3, <1>6 DEF TurnInv, InSave, h
<1>10. n # 0 => h.leaf = messages[t][n]
  BY <1>3, <1>6 DEF TurnInv, InSave, h, n
<1>11. \A u \in Turn : \A k \in DOMAIN messages'[u] :
         /\ messages'[u][k] # nextId =>
              /\ k \in DOMAIN messages[u] /\ messages[u][k] = messages'[u][k]
              /\ k > 1 => messages[u][k - 1] = messages'[u][k - 1]
         /\ messages'[u][k] = nextId => u = t /\ k = n + 1
  <2> SUFFICES ASSUME NEW u \in Turn, NEW k \in DOMAIN messages'[u]
               PROVE  /\ messages'[u][k] # nextId =>
                           /\ k \in DOMAIN messages[u] /\ messages[u][k] = messages'[u][k]
                           /\ k > 1 => messages[u][k - 1] = messages'[u][k - 1]
                      /\ messages'[u][k] = nextId => u = t /\ k = n + 1
    OBVIOUS
  <2>1. CASE u # t
    BY <1>6, <1>7, <2>1
  <2>2. CASE u = t
    <3>1. k \in 1..(n + 1) /\ n \in Nat
      BY <1>6, <2>2
    <3>2. CASE k = n + 1
      BY <1>6, <2>2, <3>2
    <3>3. CASE k # n + 1
      <4>1. k \in 1..n /\ (k > 1 => k - 1 \in 1..n)
        BY <3>1, <3>3
      <4> QED
        BY <1>6, <1>7, <2>2, <4>1
    <3> QED
      BY <3>2, <3>3
  <2> QED
    BY <2>1, <2>2
<1>12. Chains'
  <2>1. ASSUME NEW u \in Turn, NEW k \in DOMAIN messages'[u], k > 1, messages'[u][k] = nextId
        PROVE  /\ e.parent = messages'[u][k - 1]
               /\ messages'[u][k - 1] \in Ids(h.entries)
               /\ h.flushed => messages'[u][k - 1] \in Ids(file)
    <3>1. u = t /\ k = n + 1 /\ n # 0
      BY <1>6, <1>11, <2>1
    <3>2. k - 1 = n /\ n \in 1..n
      BY <1>6, <3>1
    <3>3. messages'[u][k - 1] = messages[t][n]
      BY <1>6, <3>1, <3>2
    <3> QED
      BY <1>2, <1>9, <1>10, <3>1, <3>2, <3>3 DEF h
  <2>2. \A u \in Turn : \A k \in DOMAIN messages'[u] :
          messages'[u][k] # nextId =>
            /\ k \in DOMAIN messages[u] /\ messages[u][k] = messages'[u][k]
            /\ k > 1 => messages[u][k - 1] = messages'[u][k - 1]
    BY <1>11
  <2>3. Chains /\ t \in Actor
    BY <1>3 DEF TurnInv
  <2> QED
    BY <1>1, <1>2, <2>1, <2>2, <2>3, ChainsKept DEF h
<1>13. \A u \in Turn : at'[u] = IF u = t THEN IF ok THEN "saving" ELSE "failed" ELSE at[u]
  BY <1>1, <1>3 DEF Release, Go, LogInv, Placed, Actor
<1>14. Remembered'
  <2>1. messages' \in [Turn -> Seq(Nat)]
    BY <1>3, <1>4
  <2>2. \A u \in Turn : \A k \in DOMAIN messages'[u] : messages'[u][k] < nextId'
    <3> SUFFICES ASSUME NEW u \in Turn, NEW k \in DOMAIN messages'[u]
                 PROVE  messages'[u][k] < nextId'
      OBVIOUS
    <3>1. CASE messages'[u][k] = nextId
      BY <1>4, <3>1
    <3>2. CASE messages'[u][k] # nextId
      <4>1. messages'[u][k] \in Nat /\ messages'[u][k] < nextId
        BY <1>7, <1>11, <3>2
      <4> QED
        BY <1>4, <4>1
    <3> QED
      BY <3>1, <3>2
  <2>3. \A u \in Turn : at'[u] \in {"idle", "run", "summarising", "reload"} => messages'[u] = <<>>
    BY <1>6, <1>13 DEF TurnInv, Remembered
  <2> QED
    BY <1>3, <2>1, <2>2, <2>3 DEF Remembered
<1>15. InSave(t)'
  <2> SUFFICES ASSUME ok
               PROVE  /\ \A k \in 1..(n + 1) :
                           /\ messages'[t][k] \in Ids(ext.entries)
                           /\ ext.flushed => messages'[t][k] \in Ids(file')
                      /\ ext.leaf = messages'[t][n + 1]
    BY <1>6, <1>13 DEF InSave, ext
  <2>1. Waits(h, ext) \/ Published(h, ext, e) \/ Logged(h, ext, e)
    BY <1>4
  <2>2. ext.flushed => nextId \in Ids(file') /\ \A k \in 1..n : messages[t][k] \in Ids(file')
    <3>1. CASE Waits(h, ext)
      BY <3>1 DEF Waits
    <3>2. CASE Published(h, ext, e)
      <4>1. file' = ext.entries
        BY <1>4, <3>2 DEF Published
      <4> QED
        BY <1>5, <1>9, <4>1
    <3>3. CASE Logged(h, ext, e)
      <4>1. Ids(file') = Ids(file) \cup {nextId}
        BY <1>2, <3>3, FileGrew DEF Logged, LogInv
      <4> QED
        BY <1>9, <3>3, <4>1 DEF Logged
    <3> QED
      BY <2>1, <3>1, <3>2, <3>3
  <2>3. \A k \in 1..(n + 1) : k = n + 1 \/ k \in 1..n
    BY <1>6
  <2> QED
    BY <1>4, <1>5, <1>6, <1>9, <2>2, <2>3
<1>16. ASSUME NEW u \in Turn, u # t
       PROVE  InSave(u)'
  <2>1. at'[u] = at[u] /\ handle'[u] = handle[u] /\ messages'[u] = messages[u] /\ seen'[u] = seen[u]
    BY <1>3, <1>4, <1>6, <1>13, <1>16 DEF Actor
  <2>2. \A id : Follows(u, id) => Follows(u, id)'
    BY <1>8, <2>1, FollowsGrew DEF Follows
  <2> QED
    BY <1>8, <2>1, <2>2 DEF TurnInv, InSave, Grew
<1>17. n = 0 => seen[t] = {} \/ (h.flushed /\ Follows(t, h.leaf))
  BY <1>3, <1>6 DEF TurnInv, InSave, h
<1>18. ASSUME NEW u \in Turn
       PROVE  Uncut(u)'
  <2> SUFFICES ASSUME messages'[u] # <<>>, messages'[u][1] \in Ids(file')
               PROVE  seen[u] = {} \/ seen[u] \subseteq PathIds(file', messages'[u][1])
    BY <1>3 DEF Uncut, Follows
  <2>1. 1 \in DOMAIN messages'[u]
    BY <1>14 DEF Remembered
  <2>2. CASE messages'[u][1] = nextId
    <3>1. u = t /\ n = 0
      <4>1. u = t /\ 1 = n + 1
        BY <1>11, <2>1, <2>2
      <4> QED
        BY <1>6, <4>1
    <3>2. CASE h.flushed /\ Follows(t, h.leaf)
      <4>1. CASE Logged(h, ext, e)
        <5>1. Tree(file') /\ IsSeq(file)
          BY SoundTree DEF LogInv, Filed, Sound
        <5>2. file' = Append(file, e)
          BY <4>1 DEF Logged
        <5>3. Len(file) + 1 \in DOMAIN file' /\ file'[Len(file) + 1] = e
          BY <5>1, <5>2, Appended
        <5>4. h.leaf \in Ids(file') /\ seen[t] \subseteq PathIds(file', h.leaf)
          BY <1>3, <1>8, <3>2, FollowsGrew
        <5>5. PathIds(file', h.leaf) \subseteq PathIds(file', nextId)
          BY <1>2, <5>1, <5>3, <5>4, PathOverParent DEF h
        <5> QED
          BY <1>3, <2>2, <3>1, <5>4, <5>5
      <4>2. CASE ~Logged(h, ext, e)
        <5>1. file' = file
          BY <1>4, <3>2, <4>2 DEF Waits, Lost, Published
        <5>2. nextId \notin Ids(file)
          BY <1>4 DEF LogInv, Filed, Sound, Numbered, Ids
        <5> QED
          BY <2>2, <5>1, <5>2
      <4> QED
        BY <4>1, <4>2
    <3> QED
      BY <1>17, <3>1, <3>2
  <2>3. CASE messages'[u][1] # nextId
    <3>1. /\ 1 \in DOMAIN messages[u] /\ messages[u] # <<>>
          /\ messages'[u][1] = messages[u][1]
      BY <1>11, <2>1, <2>3
    <3>2. CASE messages[u][1] \in Ids(file)
      <4>1. seen[u] = {} \/ Follows(u, messages[u][1])
        BY <3>1, <3>2 DEF TurnInv, Uncut
      <4> QED
        BY <1>3, <1>8, <3>1, <4>1, FollowsGrew
    <3>3. CASE messages[u][1] \notin Ids(file)
      <4>1. ~Logged(h, ext, e)
        <5>1. ASSUME Logged(h, ext, e) PROVE Ids(file') = Ids(file) \cup {nextId}
          BY <1>2, <5>1, FileGrew DEF Logged, LogInv
        <5> QED
          BY <2>3, <3>1, <3>3, <5>1
      <4>2. Published(h, ext, e)
        BY <1>4, <3>1, <3>3, <4>1 DEF Waits, Lost
      <4>3. messages[u][1] \in Ids(h.entries) /\ ~h.flushed
        BY <1>4, <1>5, <2>3, <3>1, <4>2 DEF Published
      <4> QED
        BY <1>3, <3>1, <4>3 DEF TurnInv, Unpublished, h
    <3> QED
      BY <3>2, <3>3
  <2> QED
    BY <2>2, <2>3
<1>19. ASSUME NEW u \in Turn
       PROVE  Unpublished(u)'
  <2> SUFFICES ASSUME NEW b \in Actor, ~handle'[b].flushed, messages'[u] # <<>>,
                      messages'[u][1] \in Ids(handle'[b].entries)
               PROVE  seen[u] = {}
    BY <1>3 DEF Unpublished
  <2>1. 1 \in DOMAIN messages'[u]
    BY <1>14 DEF Remembered
  <2>2. CASE messages'[u][1] = nextId
    <3>1. u = t /\ n = 0
      <4>1. u = t /\ 1 = n + 1
        BY <1>11, <2>1, <2>2
      <4> QED
        BY <1>6, <4>1
    <3>2. b = t
      <4>1. ASSUME b # t PROVE nextId \notin Ids(handle'[b].entries)
        <5>1. Sound(handle[b].entries, failed, nextId)
          BY DEF LogInv, Handled, Fits
        <5>2. nextId \notin Ids(handle[b].entries)
          BY <1>4, <5>1 DEF Sound, Numbered, Ids
        <5> QED
          BY <1>4, <4>1, <5>2
      <4> QED
        BY <2>2, <4>1
    <3>3. ~h.flushed
      BY <1>4, <3>2 DEF ext
    <3> QED
      BY <1>17, <3>1, <3>3
  <2>3. CASE messages'[u][1] # nextId
    <3>1. /\ messages[u] # <<>> /\ messages'[u][1] = messages[u][1]
      BY <1>11, <2>1, <2>3
    <3>2. ~handle[b].flushed /\ messages[u][1] \in Ids(handle[b].entries)
      <4>1. CASE b = t
        BY <1>4, <1>5, <2>3, <3>1, <4>1 DEF h, ext
      <4>2. CASE b # t
        BY <1>4, <3>1, <4>2
      <4> QED
        BY <4>1, <4>2
    <3> QED
      BY <3>1, <3>2 DEF TurnInv, Unpublished
  <2> QED
    BY <2>2, <2>3
<1> QED
  BY <1>12, <1>14, <1>15, <1>16, <1>18, <1>19 DEF TurnInv

LEMMA AppendCompactionTurn ==
  ASSUME LogInv, LogInv', TurnInv, NEW a \in Turn \cup Compactor, AppendCompaction(a)
  PROVE  TurnInv'
<1> DEFINE e == [plan[a] EXCEPT !.id = nextId]
<1>1. /\ nextId \in Nat /\ nextId' = nextId + 1
      /\ UNCHANGED <<handle, messages, seen>>
      /\ file' = Append(file, e) \/ file' = file
  BY DEF AppendCompaction, LogInv, Filed
<1>2. e.id = nextId
  BY DEF LogInv, Planned, AppendCompaction
<1> HIDE DEF e
<1>3. \A t \in Turn : \A k \in DOMAIN messages[t] : messages[t][k] \in Nat /\ messages[t][k] < nextId
  BY DEF TurnInv, Remembered
<1>4. \A t \in Turn : \A k \in DOMAIN messages[t] : messages[t][k] # nextId
  BY <1>1, <1>3
<1>5. Grew /\ Ids(file') \subseteq Ids(file) \cup {nextId}
  <2>1. CASE file' = Append(file, e)
    BY <1>2, <2>1, FileGrew DEF LogInv
  <2>2. CASE file' = file
    BY <2>2 DEF Grew
  <2> QED
    BY <1>1, <2>1, <2>2
<1>6. \A t \in Turn : at'[t] = IF t = a THEN "reload" ELSE at[t]
  BY DEF AppendCompaction, Go, LogInv, Placed, Actor
<1>7. Remembered'
  <2>1. \A t \in Turn : \A k \in DOMAIN messages[t] : messages[t][k] < nextId'
    BY <1>1, <1>3
  <2>2. at[a] = "summarising"
    BY DEF AppendCompaction
  <2> QED
    BY <1>1, <1>6, <2>1, <2>2 DEF TurnInv, Remembered
<1>8. Chains'
  <2>1. CASE file' = Append(file, e)
    <3>1. Chained(file', messages)
      BY <1>2, <1>4, <2>1, ChainedAppended DEF TurnInv, Chains, LogInv, Filed, Sound
    <3> QED
      BY <1>1, <3>1 DEF TurnInv, Chains
  <2>2. CASE file' = file
    BY <1>1, <2>2 DEF TurnInv, Chains
  <2> QED
    BY <1>1, <2>1, <2>2
<1>9. ASSUME NEW t \in Turn
      PROVE  InSave(t)' /\ Uncut(t)' /\ Unpublished(t)'
  <2>1. \A id : Follows(t, id) => Follows(t, id)'
    BY <1>1, <1>5, FollowsGrew DEF Follows
  <2>2. at'[t] = "saving" => at[t] = "saving"
    BY <1>6
  <2>3. InSave(t)'
    BY <1>1, <1>5, <2>1, <2>2 DEF TurnInv, InSave, Grew
  <2>4. messages[t] # <<>> => messages[t][1] # nextId
    BY <1>4 DEF TurnInv, Remembered
  <2>5. Uncut(t)'
    BY <1>1, <1>5, <2>1, <2>4 DEF TurnInv, Uncut
  <2>6. Unpublished(t)'
    BY <1>1 DEF TurnInv, Unpublished
  <2> QED
    BY <2>3, <2>5, <2>6
<1> QED
  BY <1>7, <1>8, <1>9 DEF TurnInv

LEMMA TurnSteps == LogInv /\ LogInv' /\ TurnInv /\ [LogNext]_logVars => TurnInv'
<1> SUFFICES ASSUME LogInv, LogInv', TurnInv, [LogNext]_logVars PROVE TurnInv'
  OBVIOUS
<1>0. /\ at \in [Actor -> Place] /\ Turn \subseteq Actor /\ Compactor \subseteq Actor
      /\ Brancher \subseteq Actor
  BY DEF LogInv, Placed, Actor
<1>1. ASSUME NEW t \in Turn, OpenTurn(t) PROVE TurnInv'
  <2>1. OpenOrCreate \in {Opened, NoHandle}
    BY DEF OpenOrCreate
  <2>2. /\ at[t] = "idle" /\ at' = [at EXCEPT ![t] = "run"]
        /\ handle' = [handle EXCEPT ![t] = OpenOrCreate]
        /\ UNCHANGED <<file, messages, seen, nextId>>
    BY <1>1 DEF OpenTurn, Go
  <2> QED
    BY <1>0, <2>1, <2>2, ReadKeeps
<1>2. ASSUME NEW t \in Turn, ToolEntry(t) PROVE TurnInv'
  <2> DEFINE note == [Entry(nextId, handle[t].leaf, "working_note") EXCEPT !.role = "text"]
             bash == Message(nextId, handle[t].leaf, "bashExecution", NoEntry, 1, {})
  <2>1. PICK ok \in BOOLEAN : AppendEntry(t, note, ok) \/ AppendEntry(t, bash, ok)
    BY <1>2 DEF ToolEntry
  <2>2. note.id = nextId /\ bash.id = nextId
    BY EntryIs, MessageIs
  <2>3. at[t] = "run" /\ at' = at /\ UNCHANGED <<messages, seen>>
    BY <1>2 DEF ToolEntry
  <2> HIDE DEF note, bash
  <2> QED
    BY <1>0, <2>1, <2>2, <2>3, OtherEntryKeeps
<1>3. ASSUME NEW t \in Turn, BeginSave(t) PROVE TurnInv'
  BY <1>3, BeginSaveTurn
<1>4. ASSUME NEW t \in Turn, SaveMessage(t) PROVE TurnInv'
  BY <1>4, SaveMessageTurn
<1>5. ASSUME NEW t \in Turn, SaveOutcome(t) PROVE TurnInv'
  <2> DEFINE e == Entry(nextId, handle[t].leaf, "operation_finished")
  <2>1. PICK ok \in BOOLEAN :
          /\ AppendEntry(t, e, ok)
          /\ Go(t, "clearing") \/ Go(t, IF ok THEN "done" ELSE "failed")
    BY <1>5 DEF SaveOutcome
  <2>2. e.id = nextId
    BY EntryIs
  <2>3. UNCHANGED <<messages, seen>>
    BY <1>5 DEF SaveOutcome
  <2> HIDE DEF e
  <2>4. \A u \in Turn : at'[u] = at[u] \/ (u = t /\ at'[u] \in {"clearing", "done", "failed"})
    BY <1>0, <2>1 DEF Go
  <2>5. at'[t] # "saving"
    BY <1>0, <2>1 DEF Go
  <2> QED
    BY <1>0, <2>1, <2>2, <2>3, <2>4, <2>5, OtherEntryKeeps
<1>6. ASSUME NEW t \in Turn, ClearNote(t) PROVE TurnInv'
  <2> DEFINE e == Entry(nextId, handle[t].leaf, "working_note")
  <2>1. PICK ok \in BOOLEAN : AppendEntry(t, e, ok) /\ Go(t, IF ok THEN "done" ELSE "failed")
    BY <1>6 DEF ClearNote
  <2>2. e.id = nextId
    BY EntryIs
  <2>3. UNCHANGED <<messages, seen>>
    BY <1>6 DEF ClearNote
  <2> HIDE DEF e
  <2>4. \A u \in Turn : u # t => at'[u] = at[u]
    BY <1>0, <2>1 DEF Go
  <2>5. at'[t] \in {"done", "failed"}
    BY <1>0, <2>1 DEF Go
  <2> QED
    BY <1>0, <2>1, <2>2, <2>3, <2>4, <2>5, OtherEntryKeeps
<1>7. ASSUME NEW t \in Turn, DetectBoundary(t) PROVE TurnInv'
  <2> DEFINE e == Entry(nextId, handle[t].leaf, "custom")
  <2>1. PICK ok \in BOOLEAN : AppendEntry(t, e, ok)
    BY <1>7 DEF DetectBoundary
  <2>2. e.id = nextId
    BY EntryIs
  <2>3. /\ UNCHANGED <<messages, seen>>
        /\ Go(t, "described") \/ Go(t, "over")
    BY <1>7 DEF DetectBoundary
  <2> HIDE DEF e
  <2>4. \A u \in Turn : u # t => at'[u] = at[u]
    BY <1>0, <2>3 DEF Go
  <2>5. at'[t] \in {"described", "over"}
    BY <1>0, <2>3 DEF Go
  <2> QED
    BY <1>0, <2>1, <2>2, <2>3, <2>4, <2>5, OtherEntryKeeps
<1>8. ASSUME NEW t \in Turn, Reload(t) PROVE TurnInv'
  <2>1. /\ at[t] = "reload" /\ at' = [at EXCEPT ![t] = "run"]
        /\ handle' = [handle EXCEPT ![t] = Opened]
        /\ UNCHANGED <<file, messages, seen, nextId>>
    BY <1>8 DEF Reload, Go
  <2> QED
    BY <1>0, <2>1, ReadKeeps
<1>9. ASSUME NEW c \in Turn \cup Compactor, CheckIdle(c) PROVE TurnInv'
  <2>1. /\ at[c] = "idle" /\ at' = [at EXCEPT ![c] = "run"]
        /\ UNCHANGED <<file, handle, messages, seen, nextId>>
    BY <1>9 DEF CheckIdle, Go
  <2> QED
    BY <1>0, <2>1, QuietKeeps
<1>10. ASSUME NEW a \in Turn \cup Compactor, BeginCompaction(a) PROVE TurnInv'
  <2>1. /\ at[a] = "run" /\ at' = [at EXCEPT ![a] = "summarising"]
        /\ UNCHANGED <<file, handle, messages, seen, nextId>>
    BY <1>10 DEF BeginCompaction, Go
  <2> QED
    BY <1>0, <2>1, QuietKeeps
<1>11. ASSUME NEW a \in Turn \cup Compactor, AppendCompaction(a) PROVE TurnInv'
  BY <1>11, AppendCompactionTurn
<1>12. ASSUME NEW a \in Turn \cup Compactor, AbandonCompaction(a) PROVE TurnInv'
  <2>1. /\ at[a] = "summarising"
        /\ UNCHANGED <<file, handle, messages, seen, nextId>>
    BY <1>12 DEF AbandonCompaction
  <2>2. PICK place \in {"run", "failed", "done"} : Go(a, place)
    BY <1>12 DEF AbandonCompaction
  <2>3. \A u \in Turn : at'[u] = at[u] \/ (u = a /\ at'[u] \in {"run", "failed", "done"})
    BY <1>0, <2>2 DEF Go
  <2> QED
    BY <1>0, <2>1, <2>3, QuietKeeps
<1>13. ASSUME NEW b \in Brancher, OpenBranch(b) PROVE TurnInv'
  <2>1. /\ at[b] = "idle" /\ at' = [at EXCEPT ![b] = "run"]
        /\ handle' = [handle EXCEPT ![b] = Opened]
        /\ UNCHANGED <<file, messages, seen, nextId>>
    BY <1>13 DEF OpenBranch, Go
  <2> QED
    BY <1>0, <2>1, ReadKeeps
<1>14. ASSUME NEW b \in Brancher, BranchAt(b) PROVE TurnInv'
  <2>1. PICK target \in Ids(handle[b].entries), ok \in BOOLEAN :
          AppendEntry(b, Entry(nextId, target, "branch"), ok)
    BY <1>14 DEF BranchAt
  <2> DEFINE e == Entry(nextId, target, "branch")
  <2>2. e.id = nextId /\ AppendEntry(b, e, ok)
    BY <2>1, EntryIs
  <2>3. /\ UNCHANGED <<messages, seen>>
        /\ at' = [at EXCEPT ![b] = "done"]
    BY <1>14 DEF BranchAt, Go
  <2> HIDE DEF e
  <2> QED
    BY <1>0, <2>2, <2>3, OtherEntryKeeps
<1>15. CASE UNCHANGED logVars
  <2>1. UNCHANGED <<file, handle, messages, seen, nextId, at>>
    BY <1>15 DEF logVars
  <2> QED
    BY <2>1, QuietKeeps
<1> QED
  BY <1>1, <1>2, <1>3, <1>4, <1>5, <1>6, <1>7, <1>8, <1>9, <1>10, <1>11, <1>12, <1>13,
     <1>14, <1>15 DEF LogNext

THEOREM TurnInvariant == LogSpec => []TurnInv
<1>1. LogInit => TurnInv
  BY TurnStarts
<1>2. LogInv /\ LogInv' /\ TurnInv /\ [LogNext]_logVars => TurnInv'
  BY TurnSteps
<1> QED
  BY <1>1, <1>2, LogInvariant, PTL DEF LogSpec

\* From any saved message of a turn the path goes up through the turn, message
\* by message.
LEMMA PathThroughTurn ==
  ASSUME LogInv, TurnInv, NEW t \in Turn, NEW k \in Saved(t)
  PROVE  \A j \in 1..k : messages[t][j] \in Ids(file) /\ PositionIn(t, j) \in PathTo(messages[t][k])
<1> DEFINE id == messages[t][k]
           On(j) == messages[t][j] \in Ids(file) /\ PositionIn(t, j) \in PathFrom(file, id)
           Off == {d \in 0..(k - 1) : ~ On(k - d)}
<1>1. /\ Tree(file) /\ DOMAIN messages[t] = 1..Len(messages[t])
      /\ k \in DOMAIN messages[t] /\ k \in Nat /\ k >= 1
      /\ PositionOf(file, id) # 0
  BY SoundTree DEF LogInv, Filed, TurnInv, Remembered, Saved, PositionIn
<1>2. id \in Ids(file)
  BY <1>1, PositionIs DEF Tree
<1>3. On(k)
  BY <1>1, <1>2, PathLeast DEF PositionIn
<1>4. ASSUME NEW j \in 2..k, On(j) PROVE On(j - 1)
  <2> DEFINE i == PositionOf(file, messages[t][j])
  <2>1. j \in DOMAIN messages[t] /\ j > 1 /\ j - 1 \in DOMAIN messages[t]
    BY <1>1
  <2>2. i \in DOMAIN file /\ file[i].id = messages[t][j]
    BY <1>1, <1>4, PositionIs DEF Tree
  <2>3. file[i].parent = messages[t][j - 1] /\ messages[t][j - 1] \in Ids(file)
    BY <2>1, <2>2 DEF TurnInv, Chains, Chained
  <2>4. i \in PathFrom(file, id)
    BY <1>4 DEF PositionIn
  <2>5. PositionOf(file, file[i].parent) \in PathFrom(file, id)
    BY <1>1, <1>2, <2>2, <2>3, <2>4, PathUp
  <2> QED
    BY <2>3, <2>5 DEF PositionIn
<1> HIDE DEF On
<1>5. Off = {}
  <2> SUFFICES ASSUME Off # {} PROVE FALSE
    OBVIOUS
  <2>1. PICK d \in Off : \A c \in Off : d <= c
    <3>1. Off \in SUBSET Nat
      BY <1>1
    <3> QED
      BY <3>1, MinExists
  <2>2. d \in 0..(k - 1) /\ ~ On(k - d)
    OBVIOUS
  <2>3. d # 0
    BY <1>1, <1>3, <2>2
  <2>4. /\ d - 1 \in 0..(k - 1) /\ ~ (d <= d - 1)
        /\ k - (d - 1) \in 2..k /\ (k - (d - 1)) - 1 = k - d
    BY <1>1, <2>2, <2>3
  <2>5. On(k - (d - 1))
    BY <2>1, <2>4
  <2>6. On((k - (d - 1)) - 1)
    BY <1>4, <2>4, <2>5
  <2> QED
    BY <2>2, <2>4, <2>6
<1>6. ASSUME NEW j \in 1..k PROVE On(j)
  <2>1. k - j \in 0..(k - 1) /\ k - (k - j) = j
    BY <1>1
  <2> QED
    BY <1>5, <2>1
<1> QED
  BY <1>6 DEF On, PathTo, PathFrom

\* A turn is in the conversation as a whole or not at all (runtime.go:321-389),
\* whatever other handles of the file write while it is saved.
THEOREM LogTurnWhole == LogSpec => []TurnWhole
<1>1. LogInv /\ TurnInv => TurnWhole
  <2> SUFFICES ASSUME LogInv, TurnInv, NEW t \in Turn, NEW j \in Saved(t), NEW k \in Saved(t), j < k
               PROVE  PositionIn(t, j) \in PathTo(messages[t][k])
    BY DEF TurnWhole
  <2>1. j \in 1..k
    BY DEF Saved, TurnInv, Remembered
  <2> QED
    BY <2>1, PathThroughTurn
<1> QED
  BY <1>1, LogInvariant, TurnInvariant, PTL

\* The reload under the path lock: a saved turn goes on from all the messages
\* of turns that the conversation had when it took the lock.
THEOREM LogTurnsDoNotCut == LogSpec => []TurnsDoNotCut
<1>1. LogInv /\ TurnInv => TurnsDoNotCut
  <2> SUFFICES ASSUME LogInv, TurnInv, NEW t \in Turn, 1 \in Saved(t)
               PROVE  seen[t] = {} \/ seen[t] \subseteq {file[i].id : i \in PathTo(messages[t][1])}
    BY DEF TurnsDoNotCut
  <2>1. messages[t] # <<>> /\ PositionOf(file, messages[t][1]) # 0
    BY DEF Saved, PositionIn
  <2>2. messages[t][1] \in Ids(file)
    BY <2>1, PositionIs, SoundTree DEF LogInv, Filed, Tree
  <2> QED
    BY <2>1, <2>2 DEF TurnInv, Uncut, Follows, PathIds, PathFrom, PathTo
<1> QED
  BY <1>1, LogInvariant, TurnInvariant, PTL
=================================================================================
