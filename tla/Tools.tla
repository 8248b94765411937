----------------------------------- MODULE Tools -----------------------------------
(***************************************************************************)
(* The built-in tools with a state or an algorithm of their own            *)
(* (internal/tools): write and edit, which several tool calls use at once  *)
(* on one file; read, which shows a long file in pages; bash, which keeps  *)
(* the tail of the output and spills all of it to a file.                  *)
(*                                                                         *)
(* Text is a sequence of letters, a line is its length in bytes, and the   *)
(* output of a command is the sequence of the numbers of its bytes.        *)
(***************************************************************************)
EXTENDS Naturals, Sequences, FiniteSets, SequencesExt, FiniteSetsExt

CONSTANTS
  Editor,          \* tool calls that write or edit the file
  LockOf,          \* the lock each takes: one per process and spelling of the path
  NoEditor,
  Letter,
  Texts,           \* what the file may have in it, or be overwritten with
  EditLists,       \* sequences of [old, new]
  LineLengths,     \* per line
  MaxFileLines,    \* bound on the lines of a file that is read
  MaxReadLines, MaxReadBytes,
  SpillBytes, TailBytes,
  MaxOutput        \* bound on the output of a command

ASSUME ToolsAssumption ==
  /\ MaxReadLines \in Nat \ {0} /\ MaxReadBytes \in Nat /\ LineLengths \subseteq Nat
  /\ SpillBytes \in Nat \ {0} /\ TailBytes \in Nat /\ SpillBytes <= TailBytes
  /\ MaxFileLines \in Nat /\ MaxOutput \in Nat
  /\ NoEditor \notin Editor
  /\ Texts \subseteq Seq(Letter)
  /\ EditLists \subseteq Seq([old : Seq(Letter), new : Seq(Letter)])

VARIABLES
  job,          \* "edit", "read" or "bash"
  text,         \* the file
  edit,         \* editor -> "idle", "locked", "read", "truncated", "done", "failed"
  mutex,        \* lock -> the editor that holds it
  original,     \* editor -> what it has read
  edits,        \* editor -> what it is asked for
  replaced,     \* editor -> what was in the file when it wrote
  lineLengths, resolved, offset, shown, notice,
  total, prefix, tail, spill, spillFailed, command

editVars == <<text, edit, mutex, original, edits, replaced>>
readVars == <<lineLengths, resolved, offset, shown, notice>>
bashVars == <<total, prefix, tail, spill, spillFailed, command>>
toolVars == <<job, editVars, readVars, bashVars>>

NoSpill == <<0>>

ToolsInit ==
  /\ job \in {"edit", "read", "bash"}
  /\ text \in IF job = "edit" THEN Texts ELSE {<<>>}
  /\ edit = [e \in Editor |-> "idle"]
  /\ mutex = [p \in {LockOf[e] : e \in Editor} |-> NoEditor]
  /\ original = [e \in Editor |-> <<>>] /\ edits = [e \in Editor |-> <<>>]
  /\ replaced = [e \in Editor |-> <<>>]
  /\ lineLengths \in IF job = "read" THEN SeqOf(LineLengths, MaxFileLines) \ {<<>>} ELSE {<<>>}
  /\ resolved \in IF job = "read" THEN BOOLEAN ELSE {FALSE}
  /\ offset = 1 /\ shown = <<>> /\ notice = "more"
  /\ total = 0 /\ prefix = <<>> /\ tail = <<>> /\ spill = NoSpill
  /\ spillFailed = FALSE /\ command = "runs"

-----------------------------------------------------------------------------
(* The edit tool.                                                           *)

Matches(s, t) == {i \in 1 .. Len(s) - Len(t) + 1 : SubSeq(s, i, i + Len(t) - 1) = t}

\* strings.Count: matches do not overlap, nothing matches between all letters.
CountOf(s, t) ==
  LET from[i \in 1 .. Len(s) + 1] ==
        IF i + Len(t) - 1 > Len(s) THEN 0
        ELSE IF i \in Matches(s, t) THEN 1 + from[i + Len(t)] ELSE from[i + 1]
  IN IF t = <<>> THEN Len(s) + 1 ELSE from[1]

IndexOf(s, t) == Min(Matches(s, t))

RegionsMeet(s, e, f) ==
  LET i == IndexOf(s, e.old)  j == IndexOf(s, f.old)
  IN i < j + Len(f.old) /\ i + Len(e.old) > j

Applicable(s, list) ==
  /\ \A i \in DOMAIN list : CountOf(s, list[i].old) = 1
  /\ \A i, j \in DOMAIN list : i < j => ~RegionsMeet(s, list[j], list[i])

\* The edits whose region begins at p.
Here(s, list, p) == {i \in DOMAIN list : IndexOf(s, list[i].old) = p}

Substituted(r, p, e) == SubSeq(r, 1, p - 1) \o e.new \o SubSeq(r, p + Len(e.old), Len(r))

\* From the back, so that the regions before keep their places; at a place as
\* often as regions begin there, the first edit that is found there.
Applied(s, list) ==
  LET done[p \in 1 .. Len(s) + 2] ==
        IF p = Len(s) + 2 THEN s
        ELSE LET again[n \in 0 .. Len(list)] ==
                   IF n = 0 THEN done[p + 1]
                   ELSE Substituted(again[n - 1], p, list[Min(Here(s, list, p))])
             IN again[Cardinality(Here(s, list, p))]
  IN done[1]

\* mutant: a call goes on without the lock
LockNothing(e) ==
  /\ edit[e] = "idle"
  /\ edit' = [edit EXCEPT ![e] = "locked"]
  /\ UNCHANGED <<text, mutex, original, edits, replaced>>

LockPath(e) ==
  /\ edit[e] = "idle" /\ mutex[LockOf[e]] = NoEditor
  /\ mutex' = [mutex EXCEPT ![LockOf[e]] = e]
  /\ edit' = [edit EXCEPT ![e] = "locked"]
  /\ UNCHANGED <<text, original, edits, replaced>>

EditRead(e) ==
  /\ edit[e] = "locked"
  /\ original' = [original EXCEPT ![e] = text]
  /\ \E list \in EditLists :
       /\ edits' = [edits EXCEPT ![e] = list]
       /\ IF Applicable(text, list)
          THEN edit' = [edit EXCEPT ![e] = "read"] /\ UNCHANGED mutex
          ELSE /\ edit' = [edit EXCEPT ![e] = "failed"]
               /\ mutex' = [mutex EXCEPT ![LockOf[e]] = NoEditor]
  /\ UNCHANGED <<text, replaced>>

\* os.WriteFile empties the file and then writes.
Truncated(e) ==
  /\ replaced' = [replaced EXCEPT ![e] = text]
  /\ text' = <<>>
  /\ edit' = [edit EXCEPT ![e] = "truncated"]
  /\ UNCHANGED mutex

EditWrite(e) ==
  /\ edit[e] = "read" /\ Truncated(e)
  /\ UNCHANGED <<original, edits>>

\* write: without a look at the file.
WriteTool(e, content) ==
  /\ edit[e] = "locked" /\ Truncated(e)
  /\ edits' = [edits EXCEPT ![e] = <<[old |-> <<>>, new |-> content]>>]
  /\ original' = [original EXCEPT ![e] = <<>>]

WriteRest(e) ==
  /\ edit[e] = "truncated"
  /\ text' = Applied(original[e], edits[e])
  /\ edit' = [edit EXCEPT ![e] = "done"]
  /\ mutex' = [mutex EXCEPT ![LockOf[e]] = NoEditor]
  /\ UNCHANGED <<original, edits, replaced>>

EditNext ==
  \E e \in Editor :
    \/ LockPath(e) \/ EditRead(e) \/ EditWrite(e) \/ WriteRest(e)
    \/ \E content \in Texts : WriteTool(e, content)

-----------------------------------------------------------------------------
(* The read tool, asked again at the offset that its notice names.          *)

Bytes(lines) == FoldLeft(LAMBDA n, b : n + b, Len(lines) - 1, lines)

\* How many lines are kept.
Kept(lines) ==
  IF lines = <<>> THEN 0
  ELSE Max({0} \cup {k \in 1 .. Min({Len(lines), MaxReadLines}) : Bytes(SubSeq(lines, 1, k)) <= MaxReadBytes})

\* mutant: the line the page ends with is shown again
ContinueAtLast(from, kept) == from + kept - 1 + (IF resolved THEN 2 ELSE 0)

\* The offset to go on at is found by counting the newlines of the output; the
\* header of a path that was found under another spelling has two of its own.
ContinueAt(from, kept) == from + kept + (IF resolved THEN 2 ELSE 0)

\* With the limits that a call may give.
ReadTool(limit) ==
  LET n == Len(lineLengths)
      to == IF limit = 0 THEN n ELSE Min({offset + limit - 1, n})
      lines == SubSeq(lineLengths, offset, to)
      kept == Kept(lines)
  IN /\ notice = "more"
     /\ IF offset > n THEN notice' = "beyond the end" /\ UNCHANGED <<offset, shown>>
        ELSE IF lines[1] > MaxReadBytes THEN notice' = "line too long" /\ UNCHANGED <<offset, shown>>
        ELSE /\ shown' = shown \o [i \in 1 .. kept |-> offset + i - 1]
             /\ offset' = IF kept < Len(lines) THEN ContinueAt(offset, kept) ELSE to + 1
             /\ notice' = IF kept < Len(lines) \/ to < n THEN "more" ELSE "end"
     /\ UNCHANGED <<lineLengths, resolved>>

ReadNext == \E limit \in 0 .. 2 : ReadTool(limit)

-----------------------------------------------------------------------------
(* The bash tool.                                                           *)

LastOf(s, n) == SubSeq(s, (IF Len(s) > n THEN Len(s) - n ELSE 0) + 1, Len(s))

\* The part of a write that is not in the prefix.
RestOf(p) ==
  LET start == IF total >= SpillBytes THEN 0 ELSE Min({SpillBytes - total, Len(p)})
  IN SubSeq(p, start + 1, Len(p))

\* One write of the command: kept in the prefix, in the spill file and in the
\* tail.  The file may fail to be created, and then is tried again; of what is
\* written to it, the prefix at first and the rest of this write, the beginning
\* arrives, the whole unless the write fails.
CaptureWrite(n, created, headKept, restKept) ==
  LET p == [i \in 1 .. n |-> total + i]
      room == Min({SpillBytes - Len(prefix), n})
      start == prefix \o SubSeq(p, 1, room)
      due == spill = NoSpill /\ total + n > SpillBytes
      head == IF due THEN start ELSE <<>>
      whole == headKept = Len(head) /\ restKept = Len(RestOf(p))
      file == IF due THEN <<>> ELSE spill
  IN /\ command = "runs" /\ total + n <= MaxOutput
     /\ headKept <= Len(head) /\ restKept <= Len(RestOf(p))
     /\ total' = total + n
     /\ prefix' = start
     /\ tail' = LastOf(tail \o p, TailBytes)
     /\ IF spill = NoSpill /\ ~(due /\ created)
        THEN spill' = NoSpill /\ spillFailed' = (spillFailed \/ due)
        ELSE /\ spill' = file \o SubSeq(head, 1, headKept) \o SubSeq(RestOf(p), 1, restKept)
             /\ spillFailed' = (spillFailed \/ ~whole)
     /\ UNCHANGED command

\* Wait returns; a timeout that strikes before the check wins.
CommandEnds ==
  /\ command = "runs"
  /\ command' \in {"ended", "aborted"}
  /\ UNCHANGED <<total, prefix, tail, spill, spillFailed>>

BashNext ==
  \/ \E n \in 1 .. MaxOutput, created \in BOOLEAN,
         headKept \in 0 .. SpillBytes, restKept \in 0 .. MaxOutput :
       CaptureWrite(n, created, headKept, restKept)
  \/ CommandEnds

-----------------------------------------------------------------------------
ToolsNext ==
  \/ job = "edit" /\ EditNext /\ UNCHANGED <<job, readVars, bashVars>>
  \/ job = "read" /\ ReadNext /\ UNCHANGED <<job, editVars, bashVars>>
  \/ job = "bash" /\ BashNext /\ UNCHANGED <<job, editVars, readVars>>

ToolsSpec == ToolsInit /\ [][ToolsNext]_toolVars

(***************************************************************************)
(* An edit that succeeds has replaced the regions it names, each once and  *)
(* all at the same time, in the text that was in the file when it wrote:   *)
(* no edit under the same lock was lost (fs_tools.go:17).  Two processes   *)
(* share no lock, nor do two spellings of a path, as by a symbolic link;   *)
(* and several insertions into an empty file insert the first as often     *)
(* (fs_tools.go:391).                                                      *)
(***************************************************************************)
AllAtOnce(s, list) ==
  LET from[i \in 1 .. Len(s) + 1] ==
        IF i > Len(s) THEN <<>>
        ELSE IF Here(s, list, i) = {} THEN <<s[i]>> \o from[i + 1]
        ELSE LET e == list[Min(Here(s, list, i))] IN e.new \o from[i + Len(e.old)]
  IN from[1]

Alone(e) == \A f \in Editor : LockOf[f] = LockOf[e]

EditsExact ==
  \A e \in Editor :
    edit[e] \in {"truncated", "done"} /\ original[e] # <<>> /\ Alone(e) =>
      Applied(original[e], edits[e]) = AllAtOnce(replaced[e], edits[e])

(***************************************************************************)
(* What the limits cut off can still be had: who reads on at the offset of *)
(* each notice sees every line once, in order (read.go:116), and the spill *)
(* file of a command has every byte of the output whose tail is shown      *)
(* (bash.go:169).  The code has exceptions: a path found under another     *)
(* spelling, a spill file that could not be created at first, and one that *)
(* could not be written (bash.go:171, 182).                                *)
(***************************************************************************)
OutputComplete ==
  /\ ~resolved =>
       /\ shown = [i \in 1 .. Len(shown) |-> i]
       /\ notice = "end" => Len(shown) = Len(lineLengths)
       /\ notice # "beyond the end"
  /\ tail = LastOf([i \in 1 .. total |-> i], TailBytes)
  /\ ~spillFailed /\ total > SpillBytes => spill = [i \in 1 .. total |-> i]
=============================================================================
