--------------------------- MODULE SessionEntriesProofs ---------------------------
(***************************************************************************)
(* Lemmas about numbers, sequences and the paths of SessionEntries, for    *)
(* the proofs about SessionLog and SessionTree.                            *)
(*                                                                         *)
(* ActiveEntries is a recursive function.  Induction over numbers is by    *)
(* the least counterexample (MinExists), which also shows that the         *)
(* function exists.  What it computes is said without recursion, as a set  *)
(* (PathLeast): the least that has the entry and is closed under parents;  *)
(* and as a sequence (PathLinked): it begins at a root, and each entry is  *)
(* the parent of the next.                                                 *)
(***************************************************************************)
EXTENDS SessionEntries, FiniteSetTheorems, WellFoundedInduction, TLAPS

\* s is a sequence, of whatever is in it.
IsSeq(s) == s \in Seq(Range(s))

\* Induction over numbers: what fails somewhere fails somewhere first.
LEMMA MinExists ==
  ASSUME NEW S \in SUBSET Nat, S # {}
  PROVE  \E m \in S : \A k \in S : m <= k
<1> DEFINE R == {pair \in Nat \X Nat : pair[1] < pair[2]}
<1>1. IsWellFoundedOn(R, Nat)
  BY NatLessThanWellFounded DEF OpToRel
<1>2. PICK m \in S : \A k \in S : <<k, m>> \notin R
  BY <1>1, WFMin
<1>3. ASSUME NEW k \in S PROVE m <= k
  <2>1. k \in Nat /\ m \in Nat /\ (k < m => <<k, m>> \in R)
    OBVIOUS
  <2> QED
    BY <1>2, <2>1
<1> QED
  BY <1>3

LEMMA MinIs ==
  ASSUME NEW S \in SUBSET Nat, S # {}
  PROVE  Min(S) \in S /\ \A x \in S : Min(S) <= x
  BY MinExists DEF Min

LEMMA MaxIs ==
  ASSUME NEW S \in SUBSET Nat, S # {}, NEW n \in Nat, \A x \in S : x <= n
  PROVE  Max(S) \in S /\ \A x \in S : x <= Max(S)
<1> DEFINE T == {n - x : x \in S}
<1>1. T \in SUBSET Nat /\ T # {}
  <2>1. ASSUME NEW x \in S PROVE n - x \in Nat
    BY SMT
  <2>2. PICK x \in S : TRUE
    OBVIOUS
  <2>3. n - x \in T
    OBVIOUS
  <2> QED
    BY <2>1, <2>3
<1>2. PICK m \in T : \A k \in T : m <= k
  BY <1>1, MinExists
<1>3. PICK y \in S : m = n - y
  OBVIOUS
<1>4. ASSUME NEW x \in S PROVE y >= x
  <2>1. n - x \in T
    OBVIOUS
  <2> QED
    BY <1>2, <1>3, <2>1
<1>5. Max(S) \in S /\ \A x \in S : Max(S) >= x
  BY <1>3, <1>4 DEF Max
<1> QED
  BY <1>5

-----------------------------------------------------------------------------
(* Sequences that one element is appended to. *)

LEMMA OfItsRange ==
  ASSUME NEW S, NEW s \in Seq(S)
  PROVE  IsSeq(s)
<1>1. Len(s) \in Nat /\ DOMAIN s = 1..Len(s) /\ \A i \in 1..Len(s) : s[i] \in Range(s)
  BY DEF Range
<1> QED
  BY <1>1 DEF IsSeq

LEMMA Appended ==
  ASSUME NEW s, IsSeq(s), NEW e
  PROVE  LET r == Append(s, e)
         IN /\ IsSeq(r)
            /\ Len(s) \in Nat /\ DOMAIN s = 1 .. Len(s) /\ DOMAIN r = 1 .. Len(s) + 1
            /\ \A i \in DOMAIN s : r[i] = s[i]
            /\ r[Len(s) + 1] = e
<1> DEFINE S == Range(s) \cup {e}
           r == Append(s, e)
<1>1. s \in Seq(S) /\ e \in S
  BY DEF IsSeq
<1>2. /\ r \in Seq(S)
      /\ Len(s) \in Nat /\ DOMAIN s = 1 .. Len(s) /\ Len(r) = Len(s) + 1 /\ DOMAIN r = 1 .. Len(s) + 1
      /\ \A i \in DOMAIN s : r[i] = s[i]
      /\ r[Len(s) + 1] = e
  BY <1>1
<1>3. r \in Seq(Range(r))
  BY <1>2 DEF Range
<1> QED
  BY <1>2, <1>3 DEF IsSeq

LEMMA AppendedIds ==
  ASSUME NEW s, IsSeq(s), NEW e
  PROVE  Ids(Append(s, e)) = Ids(s) \cup {e.id}
<1>1. /\ Len(s) \in Nat /\ DOMAIN s = 1 .. Len(s) /\ DOMAIN Append(s, e) = 1 .. Len(s) + 1
      /\ \A i \in DOMAIN s : Append(s, e)[i] = s[i]
      /\ Append(s, e)[Len(s) + 1] = e
  BY Appended
<1> QED
  BY <1>1 DEF Ids

-----------------------------------------------------------------------------
(* The path from an entry to the root. *)

ParentAt(s, i) == PositionOf(s, s[i].parent)

\* One step of the loop that builds a path.
Longer(s, below) ==
  LET parent == PositionOf(s, s[Head(below)].parent)
  IN IF parent \in Range(below) \cup {0} THEN below ELSE <<parent>> \o below

IsPath(s, start, n, f) ==
  f = [k \in 1..n |-> IF k = 1 THEN <<start>> ELSE Longer(s, f[k - 1])]

LEMMA PathExists ==
  ASSUME NEW s, NEW start, NEW n \in Nat
  PROVE  \E f : IsPath(s, start, n, f)
<1> DEFINE Missing == {m \in Nat : ~ \E f : IsPath(s, start, m, f)}
<1> SUFFICES ASSUME Missing # {} PROVE FALSE
  OBVIOUS
<1>1. PICK m \in Missing : \A k \in Missing : m <= k
  BY MinExists
<1>2. m \in Nat /\ ~ \E f : IsPath(s, start, m, f)
  OBVIOUS
<1>3. m # 0
  <2>1. IsPath(s, start, 0, <<>>)
    BY DEF IsPath
  <2> QED
    BY <1>2, <2>1
<1>4. PICK g : IsPath(s, start, m - 1, g)
  BY <1>1, <1>2, <1>3
<1> DEFINE f == [k \in 1..m |-> IF k = 1 THEN <<start>> ELSE Longer(s, g[k - 1])]
<1>5. \A k \in 1..(m - 1) : f[k] = g[k]
  BY <1>2, <1>4 DEF IsPath
<1>6. \A k \in 1..m : f[k] = IF k = 1 THEN <<start>> ELSE Longer(s, f[k - 1])
  <2> SUFFICES ASSUME NEW k \in 1..m
               PROVE  f[k] = IF k = 1 THEN <<start>> ELSE Longer(s, f[k - 1])
    OBVIOUS
  <2>1. CASE k = 1
    BY <2>1
  <2>2. CASE k # 1
    <3>1. k - 1 \in 1..(m - 1) /\ m \in Nat
      BY <1>2, <2>2
    <3> QED
      BY <1>5, <2>2, <3>1
  <2> QED
    BY <2>1, <2>2
<1>7. f = [k \in 1..m |-> IF k = 1 THEN <<start>> ELSE Longer(s, f[k - 1])]
  <2>1. f = [k \in 1..m |-> f[k]]
    OBVIOUS
  <2> HIDE DEF f
  <2> QED
    BY <1>6, <2>1
<1> QED
  BY <1>2, <1>7 DEF IsPath

StartOf(s, leaf) == IF PositionOf(s, leaf) # 0 THEN PositionOf(s, leaf) ELSE Len(s)

LEMMA ActiveIs ==
  ASSUME NEW s, NEW leaf, Len(s) # 0, Cardinality(Ids(s)) = Len(s), Len(s) \in Nat
  PROVE  \E f : IsPath(s, StartOf(s, leaf), Len(s), f) /\ ActiveEntries(s, leaf) = f[Len(s)]
<1> DEFINE f == CHOOSE g : IsPath(s, StartOf(s, leaf), Len(s), g)
<1>1. IsPath(s, StartOf(s, leaf), Len(s), f)
  BY PathExists
<1>2. ActiveEntries(s, leaf) = f[Len(s)]
  BY DEF ActiveEntries, IsPath, Longer, StartOf
<1> QED
  BY <1>1, <1>2

\* A log whose entries have different IDs and hang at earlier ones.
Tree(s) ==
  /\ IsSeq(s) /\ Cardinality(Ids(s)) = Len(s)
  /\ \A i, j \in DOMAIN s : s[i].id = s[j].id => i = j
  /\ \A i \in DOMAIN s : ParentAt(s, i) \in 0..(i - 1)

Closed(s, U) == \A i \in U : ParentAt(s, i) \in U \cup {0}

\* The path p after k rounds.
Good(s, start, k, p) ==
  /\ p \in Seq(DOMAIN s) /\ p # <<>> /\ start \in Range(p)
  /\ \A j \in 1..(Len(p) - 1) : ParentAt(s, p[j + 1]) = p[j]
  /\ \A i \in Range(p) : i = Head(p) \/ ParentAt(s, i) \in Range(p) \cup {0}
  /\ Head(p) <= Len(s) - k + 1 \/ ParentAt(s, Head(p)) \in Range(p) \cup {0}
  /\ \A U : start \in U /\ Closed(s, U) => Range(p) \subseteq U

LEMMA Prepended ==
  ASSUME NEW S, NEW p \in Seq(S), NEW x \in S
  PROVE  /\ <<x>> \o p \in Seq(S) /\ <<x>> \o p # <<>>
         /\ Head(<<x>> \o p) = x /\ Len(<<x>> \o p) = Len(p) + 1 /\ Len(p) \in Nat
         /\ \A k \in 1..Len(p) : (<<x>> \o p)[k + 1] = p[k]
         /\ Range(<<x>> \o p) = {x} \cup Range(p)
<1> DEFINE q == <<x>> \o p
<1>1. /\ q \in Seq(S) /\ Len(p) \in Nat /\ Len(q) = Len(p) + 1
      /\ DOMAIN p = 1..Len(p) /\ DOMAIN q = 1..(Len(p) + 1)
      /\ q[1] = x /\ \A k \in 1..Len(p) : q[k + 1] = p[k]
  OBVIOUS
<1>2. q # <<>> /\ Head(q) = x
  BY <1>1
<1>3. Range(q) \subseteq {x} \cup Range(p)
  <2> SUFFICES ASSUME NEW k \in DOMAIN q PROVE q[k] = x \/ q[k] \in Range(p)
    BY DEF Range
  <2>1. CASE k = 1
    BY <1>1, <2>1
  <2>2. CASE k # 1
    <3>1. k - 1 \in 1..Len(p) /\ q[(k - 1) + 1] = q[k]
      BY <1>1, <2>2
    <3> QED
      BY <1>1, <3>1 DEF Range
  <2> QED
    BY <2>1, <2>2
<1>4. x \in Range(q)
  BY <1>1 DEF Range
<1>5. Range(p) \subseteq Range(q)
  <2> SUFFICES ASSUME NEW k \in DOMAIN p PROVE p[k] \in Range(q)
    BY DEF Range
  <2>1. k + 1 \in DOMAIN q /\ q[k + 1] = p[k]
    BY <1>1
  <2> QED
    BY <2>1 DEF Range
<1> QED
  BY <1>1, <1>2, <1>3, <1>4, <1>5

LEMMA LongerGood ==
  ASSUME NEW s, Tree(s), NEW start \in DOMAIN s, NEW k \in Nat, NEW p, Good(s, start, k, p)
  PROVE  Good(s, start, k + 1, Longer(s, p))
<1> DEFINE parent == ParentAt(s, Head(p))
<1>1. p \in Seq(DOMAIN s) /\ p # <<>> /\ Head(p) \in DOMAIN s /\ Head(p) \in Range(p)
  BY DEF Good, Range
<1>2. /\ Len(s) \in Nat /\ DOMAIN s = 1..Len(s)
      /\ parent \in 0..(Head(p) - 1) /\ Head(p) \in Nat
  BY <1>1 DEF Tree, IsSeq
<1>3. CASE parent \in Range(p) \cup {0}
  <2>1. Longer(s, p) = p
    BY <1>3 DEF Longer, ParentAt
  <2> QED
    BY <1>3, <2>1 DEF Good
<1>4. CASE parent \notin Range(p) \cup {0}
  <2>1. Longer(s, p) = <<parent>> \o p
    BY <1>4 DEF Longer, ParentAt
  <2>2. parent \in DOMAIN s
    BY <1>1, <1>2, <1>4
  <2> HIDE DEF parent
  <2> DEFINE q == <<parent>> \o p
  <2>3. /\ q \in Seq(DOMAIN s) /\ q # <<>> /\ Head(q) = parent
        /\ Len(q) = Len(p) + 1 /\ Len(p) \in Nat /\ \A j \in 1..Len(p) : q[j + 1] = p[j]
        /\ Range(q) = {parent} \cup Range(p)
    BY <1>1, <2>2, Prepended
  <2> HIDE DEF q
  <2>4. \A i \in Range(q) : i = Head(q) \/ ParentAt(s, i) \in Range(q) \cup {0}
    BY <2>3 DEF Good, parent
  <2>5. Head(p) <= Len(s) - k + 1
    BY <1>4 DEF Good, parent
  <2>6. Head(q) <= Len(s) - (k + 1) + 1
    BY <1>2, <2>3, <2>5
  <2>7. ASSUME NEW U, start \in U, Closed(s, U) PROVE Range(q) \subseteq U
    <3>1. Range(p) \subseteq U
      BY <2>7 DEF Good
    <3>2. parent \in U
      BY <1>1, <1>4, <2>7, <3>1 DEF Closed, parent
    <3> QED
      BY <2>3, <3>1, <3>2
  <2>8. start \in Range(q)
    BY <2>3 DEF Good
  <2>9. ASSUME NEW j \in 1..(Len(q) - 1) PROVE ParentAt(s, q[j + 1]) = q[j]
    <3>1. /\ j \in 1..Len(p) /\ q[j + 1] = p[j]
          /\ q[1] = parent /\ p[1] = Head(p) /\ ParentAt(s, Head(p)) = parent
      BY <1>1, <2>3 DEF parent
    <3>2. CASE j = 1
      BY <3>1, <3>2
    <3>3. CASE j # 1
      <4>1. j - 1 \in 1..(Len(p) - 1) /\ (j - 1) + 1 = j
        BY <2>3, <3>1, <3>3
      <4>2. ParentAt(s, p[(j - 1) + 1]) = p[j - 1] /\ q[(j - 1) + 1] = p[j - 1]
        BY <2>3, <3>1, <4>1 DEF Good
      <4> QED
        BY <3>1, <4>1, <4>2
    <3> QED
      BY <3>2, <3>3
  <2>10. Good(s, start, k + 1, q)
    BY <2>3, <2>4, <2>6, <2>7, <2>8, <2>9 DEF Good
  <2> QED
    BY <2>1, <2>10 DEF q
<1> QED
  BY <1>3, <1>4

LEMMA PathGood ==
  ASSUME NEW s, Tree(s), NEW start \in DOMAIN s, NEW f, IsPath(s, start, Len(s), f)
  PROVE  Good(s, start, Len(s), f[Len(s)])
<1> DEFINE n == Len(s)
           Bad == {k \in 1..n : ~ Good(s, start, k, f[k])}
<1>1. n \in Nat /\ DOMAIN s = 1..n /\ n >= 1
  BY DEF Tree, IsSeq
<1>2. \A k \in 1..n : f[k] = IF k = 1 THEN <<start>> ELSE Longer(s, f[k - 1])
  BY DEF IsPath
<1>3. Good(s, start, 1, <<start>>)
  <2>1. /\ <<start>> \in Seq(DOMAIN s) /\ <<start>> # <<>> /\ Head(<<start>>) = start
        /\ Range(<<start>>) = {start}
    BY DEF Range
  <2>2. start <= Len(s) - 1 + 1 /\ Len(<<start>>) = 1
    BY <1>1
  <2> QED
    BY <2>1, <2>2 DEF Good
<1>4. Bad = {}
  <2> SUFFICES ASSUME Bad # {} PROVE FALSE
    OBVIOUS
  <2>1. Bad \in SUBSET Nat
    BY <1>1
  <2>2. PICK m \in Bad : \A k \in Bad : m <= k
    BY <2>1, MinExists
  <2>3. m \in 1..n /\ ~ Good(s, start, m, f[m])
    OBVIOUS
  <2>4. m # 1
    BY <1>2, <1>3, <2>3
  <2>5. m - 1 \in 1..n /\ m - 1 \in Nat /\ (m - 1) + 1 = m /\ ~ (m <= m - 1)
    BY <1>1, <2>3, <2>4
  <2>6. Good(s, start, m - 1, f[m - 1])
    BY <2>2, <2>5
  <2>7. Good(s, start, (m - 1) + 1, Longer(s, f[m - 1]))
    BY <2>5, <2>6, LongerGood
  <2> QED
    BY <1>2, <2>3, <2>4, <2>5, <2>7
<1> QED
  BY <1>1, <1>4

\* The position of an entry of a tree.
LEMMA PositionIs ==
  ASSUME NEW s, IsSeq(s), \A i, j \in DOMAIN s : s[i].id = s[j].id => i = j, NEW id
  PROVE  /\ \A i \in DOMAIN s : s[i].id = id => PositionOf(s, id) = i
         /\ id \notin Ids(s) => PositionOf(s, id) = 0
         /\ id \in Ids(s) => PositionOf(s, id) \in DOMAIN s /\ s[PositionOf(s, id)].id = id
<1>1. ASSUME NEW i \in DOMAIN s, s[i].id = id
      PROVE  PositionOf(s, id) = i
  <2>1. {j \in DOMAIN s : s[j].id = id} = {i}
    BY <1>1
  <2>2. Max({i}) = i
    <3>1. i \in Nat
      BY DEF IsSeq
    <3> QED
      BY <3>1 DEF Max
  <2> QED
    BY <2>1, <2>2 DEF PositionOf
<1>2. ASSUME id \notin Ids(s) PROVE PositionOf(s, id) = 0
  <2>1. {j \in DOMAIN s : s[j].id = id} = {}
    BY <1>2 DEF Ids
  <2> QED
    BY <2>1 DEF PositionOf
<1> QED
  BY <1>1, <1>2 DEF Ids

LEMMA ActiveGood ==
  ASSUME NEW s, Tree(s), NEW id \in Ids(s)
  PROVE  Good(s, PositionOf(s, id), Len(s), ActiveEntries(s, id))
<1> DEFINE start == PositionOf(s, id)
<1>1. /\ Len(s) \in Nat /\ DOMAIN s = 1..Len(s) /\ Len(s) # 0
      /\ Cardinality(Ids(s)) = Len(s)
  BY DEF Tree, IsSeq, Ids
<1>2. start \in DOMAIN s /\ StartOf(s, id) = start
  BY <1>1, PositionIs DEF Tree, StartOf
<1>3. PICK f : IsPath(s, start, Len(s), f) /\ ActiveEntries(s, id) = f[Len(s)]
  BY <1>1, <1>2, ActiveIs
<1> QED
  BY <1>2, <1>3, PathGood

PathFrom(s, id) == Range(ActiveEntries(s, id))

\* The path from an entry to the root: the least set of positions that has the
\* entry and is closed.
LEMMA PathLeast ==
  ASSUME NEW s, Tree(s), NEW id \in Ids(s)
  PROVE  /\ PathFrom(s, id) \subseteq DOMAIN s
         /\ PositionOf(s, id) \in PathFrom(s, id)
         /\ Closed(s, PathFrom(s, id))
         /\ \A U : PositionOf(s, id) \in U /\ Closed(s, U) => PathFrom(s, id) \subseteq U
<1> DEFINE start == PositionOf(s, id)
           p == ActiveEntries(s, id)
<1>1. Len(s) \in Nat /\ DOMAIN s = 1..Len(s)
  BY DEF Tree, IsSeq
<1> HIDE DEF start, p
<1>4. Good(s, start, Len(s), p)
  BY ActiveGood DEF start, p
<1>5. Head(p) \in DOMAIN s /\ Range(p) \subseteq DOMAIN s
  BY <1>4 DEF Good, Range
<1>6. ParentAt(s, Head(p)) \in Range(p) \cup {0}
  <2>1. CASE Head(p) <= Len(s) - Len(s) + 1
    <3>1. Head(p) = 1
      BY <1>1, <1>5, <2>1
    <3>2. ParentAt(s, 1) \in 0..(1 - 1)
      BY <1>5, <3>1 DEF Tree
    <3> QED
      BY <3>1, <3>2
  <2> QED
    BY <1>4, <2>1 DEF Good
<1>7. Closed(s, Range(p))
  BY <1>4, <1>6 DEF Good, Closed
<1> QED
  BY <1>4, <1>5, <1>7 DEF Good, PathFrom, p, start

\* The path from an entry as a sequence: from a root down, each entry at its
\* parent, and so in the order of the log.
LEMMA PathLinked ==
  ASSUME NEW s, Tree(s), NEW id \in Ids(s)
  PROVE  LET p == ActiveEntries(s, id)
         IN /\ p \in Seq(DOMAIN s) /\ Len(p) \in Nat \ {0} /\ DOMAIN p = 1..Len(p)
            /\ ParentAt(s, p[1]) = 0
            /\ \A k \in 1..(Len(p) - 1) : ParentAt(s, p[k + 1]) = p[k]
            /\ \A j, k \in 1..Len(p) : j < k => p[j] < p[k]
<1> DEFINE p == ActiveEntries(s, id)
           n == Len(p)
<1>1. Good(s, PositionOf(s, id), Len(s), p) /\ Len(s) \in Nat /\ DOMAIN s = 1..Len(s)
  BY ActiveGood DEF Tree, IsSeq
<1>2. Closed(s, Range(p))
  BY PathLeast DEF PathFrom
<1> HIDE DEF p
<1>3. /\ p \in Seq(DOMAIN s) /\ n \in Nat \ {0} /\ DOMAIN p = 1..n /\ \A k \in 1..n : p[k] \in Nat
      /\ \A k \in 1..(n - 1) : ParentAt(s, p[k + 1]) = p[k]
  BY <1>1 DEF Good
<1>4. ASSUME NEW k \in 1..(n - 1) PROVE p[k] < p[k + 1]
  <2>1. k \in 1..n /\ k + 1 \in 1..n
    BY <1>3
  <2>2. p[k] \in Nat /\ p[k + 1] \in DOMAIN s /\ p[k + 1] \in Nat /\ ParentAt(s, p[k + 1]) = p[k]
    BY <1>3, <2>1
  <2>3. ParentAt(s, p[k + 1]) \in 0..(p[k + 1] - 1)
    BY <2>2 DEF Tree
  <2> QED
    BY <2>2, <2>3
<1>5. ASSUME NEW j \in 1..n, NEW k \in 1..n, j < k PROVE p[j] < p[k]
  <2> DEFINE Bad == {i \in 1..n : j < i /\ ~ (p[j] < p[i])}
  <2> SUFFICES ASSUME Bad # {} PROVE FALSE
    BY <1>5
  <2>1. PICK m \in Bad : \A i \in Bad : m <= i
    <3>1. Bad \in SUBSET Nat
      BY <1>3
    <3> QED
      BY <3>1, MinExists
  <2>2. m \in 1..n /\ j < m /\ ~ (p[j] < p[m])
    BY <2>1
  <2>3. m - 1 \in 1..(n - 1) /\ m - 1 \in 1..n /\ (m - 1) + 1 = m /\ ~ (m <= m - 1) /\ j <= m - 1
    BY <1>3, <2>2
  <2>4. p[m - 1] < p[m]
    BY <1>4, <2>3
  <2>5. j < m - 1 => p[j] < p[m - 1]
    BY <2>1, <2>3
  <2>6. j = m - 1 \/ j < m - 1
    BY <1>3, <2>3
  <2>7. p[j] \in Nat /\ p[m - 1] \in Nat /\ p[m] \in Nat
    BY <1>3, <2>2, <2>3
  <2> QED
    BY <2>2, <2>4, <2>5, <2>6, <2>7
<1>6. ParentAt(s, p[1]) = 0
  <2>1. 1 \in 1..n /\ p[1] \in Range(p) /\ p[1] \in DOMAIN s /\ p[1] \in Nat
    BY <1>3 DEF Range
  <2>2. ParentAt(s, p[1]) \in Range(p) \cup {0} /\ ParentAt(s, p[1]) \in 0..(p[1] - 1)
    BY <1>2, <2>1 DEF Closed, Tree
  <2>3. ASSUME NEW i \in Range(p) PROVE ~ (i < p[1])
    <3>1. PICK k \in 1..n : i = p[k]
      BY <1>3 DEF Range
    <3>2. k = 1 \/ 1 < k
      BY <1>3
    <3>3. k = 1 \/ p[1] < p[k]
      BY <1>5, <2>1, <3>2
    <3> QED
      BY <1>3, <2>1, <3>1, <3>3
  <2>4. ParentAt(s, p[1]) = 0 \/ ParentAt(s, p[1]) < p[1]
    BY <2>1, <2>2
  <2> QED
    BY <2>2, <2>3, <2>4
<1> QED
  BY <1>3, <1>5, <1>6 DEF p

-----------------------------------------------------------------------------
\* The IDs and parents of the entries that are appended.
LEMMA EntryIs ==
  ASSUME NEW id, NEW parent, NEW type, NEW role
  PROVE  /\ Entry(id, parent, type).parent = parent
         /\ Entry(id, parent, type).id = id
         /\ [Entry(id, parent, type) EXCEPT !.role = role].parent = parent
         /\ [Entry(id, parent, type) EXCEPT !.role = role].id = id
  BY DEF Entry

LEMMA MessageIs ==
  ASSUME NEW id, NEW parent, NEW role, NEW of, NEW tokens, NEW ops
  PROVE  LET e == Message(id, parent, role, of, tokens, ops)
         IN /\ e.id = id /\ e.parent = parent /\ e.type = "message"
            /\ e.role = role /\ e.of = of /\ e.kept = NoEntry /\ e.covers = {}
  BY DEF Entry, Message

LEMMA CompactionIs ==
  ASSUME NEW id, NEW parent, NEW kept, NEW covers, NEW details
  PROVE  LET e == Compaction(id, parent, kept, covers, details)
         IN /\ e.id = id /\ e.parent = parent /\ e.type = "compaction" /\ e.role = "none"
            /\ e.kept = kept /\ e.covers = covers
            /\ {"id", "parent"} \subseteq DOMAIN e
  BY DEF Entry, Compaction
=============================================================================
