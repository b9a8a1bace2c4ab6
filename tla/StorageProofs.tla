---------------------------- MODULE StorageProofs ---------------------------
(***************************************************************************)
(* The structures the kernel keeps its memory and its tasks in.            *)
(*                                                                         *)
(* The pointers of the lists are lists, for any number of nodes: under a   *)
(* lock they implement Fifo; shared by a producer and a consumer, step by  *)
(* step, they implement ExitQueue; and an erase without the lock leaves the*)
(* list of children whole exactly if nobody disturbed it.                  *)
(*                                                                         *)
(* The allocator's free blocks and its callers' share out the memory, and  *)
(* no block is free in halves, for any size of the memory and any          *)
(* requests: so the shell's tests of it find no fault.                     *)
(***************************************************************************)
EXTENDS LockFreeList, QueueProofs, MemoryTests, FiniteSetTheorems, SequenceTheorems, WellFoundedInduction

\* The ith cell of the circle that begins at Dummy and goes through s.
Cell(s, i) == IF i \in 1 .. Len(s) THEN s[i] ELSE Dummy

Pointers == pNext \in [Cells -> Cells] /\ pPrev \in [Cells -> Cells]

\* The nodes on the list are those of s, once each, and are counted.
Holds(s) ==
    /\ s \in Seq(Nodes) /\ Distinct(s)
    /\ linked = {s[i] : i \in 1 .. Len(s)}
    /\ size = Len(s)

\* The pointers lead through s and back, but forward not to its kth node any more,
\* if k is not 0.
Forwards(s, k) ==
    \A i \in 0 .. Len(s) : pNext[Cell(s, i)] = IF i + 1 = k THEN Cell(s, i + 2) ELSE Cell(s, i + 1)
Backwards(s) == \A i \in 0 .. Len(s) : pPrev[Cell(s, i + 1)] = Cell(s, i)

ListAt(s, k) == Pointers /\ Holds(s) /\ Forwards(s, k) /\ Backwards(s)

-----------------------------------------------------------------------------
(* A list that is only used under a lock. *)

LockedInv == users = "locked" => \E s \in Seq(Nodes) : ListAt(s, 0)

-----------------------------------------------------------------------------
(* A list of children. *)

\* Where the idle task's erase is: it works on the kth node of s.
ErasesAt(s, k) ==
    /\ cpc # "idle" => k \in 1 .. Len(s) /\ ptr = s[k] /\ prev = Cell(s, k - 1)
    /\ cpc \in {"left", "right"} => nxt = Cell(s, k + 1)

\* What is on the list when the erase has ended.
Remaining == (IF cpc = "idle" THEN linked ELSE linked \ {ptr}) \cup {Dummy}

\* A pointer leads out of the list, or will when the erase has ended.
Damaged ==
    \/ \E c \in Remaining : pNext[c] \notin Remaining /\ (cpc \in {"erase", "left"} => c # prev)
    \/ \E c \in Remaining : pPrev[c] \notin Remaining /\ cpc # "erase" /\ (cpc \in {"left", "right"} => c # nxt)
    \/ cpc = "left" /\ prev \in Remaining /\ nxt \notin Remaining
    \/ cpc = "right" /\ nxt \in Remaining /\ prev \notin Remaining

\* Nobody has disturbed the erase of the kth node of s.
ChildrenAt(s, k) ==
    /\ k \in 0 .. Len(s)
    /\ ListAt(s, IF cpc = "right" THEN k ELSE 0)
    /\ ErasesAt(s, k)

ChildrenType ==
    /\ Pointers /\ linked \subseteq Nodes
    /\ cpc \in {"idle", "erase", "left", "right"}
    /\ cpc # "idle" => ptr \in Nodes /\ prev \in Cells
    /\ cpc \in {"left", "right"} => nxt \in Cells

ChildrenInv ==
    /\ disturbed \in BOOLEAN
    /\ users = "children" =>
         /\ ChildrenType
         /\ IF disturbed THEN Damaged ELSE \E s \in Seq(Nodes), k \in Nat : ChildrenAt(s, k)

-----------------------------------------------------------------------------
(* A list shared by a producer and a consumer. *)

LockFreeType ==
    /\ Pointers
    /\ queue \in Seq(Nodes) /\ Distinct(queue)
    /\ ppc \in {"idle", "read", "cas", "link"}
    /\ cpc \in {"idle", "next", "cas", "head", "relink", "size"}
    /\ pNode \in Cells /\ tail \in Cells /\ ptr \in Cells /\ nxt \in Cells /\ dnext \in Cells

\* The last of the nodes w, or Dummy.
Last(w) == Cell(w, Len(w))

\* The producer's node is not on the queue yet, and its tail is right from the CAS on.
Pushing(w) ==
    /\ ppc # "idle" => pNode \in Nodes /\ ~In(pNode, queue) /\ pNext[pNode] = Dummy
    /\ ppc \in {"cas", "link"} => pPrev[pNode] = tail
    /\ ppc = "link" => tail = Last(w)
    /\ pPrev[Dummy] = IF ppc = "link" THEN pNode ELSE Last(w)

\* The nodes w lead to each other and back.
Chained(w) ==
    /\ \A i \in 1 .. Len(w) : pNext[w[i]] = Cell(w, i + 1)
    /\ \A i \in 2 .. Len(w) : pPrev[w[i]] = w[i - 1]

\* The consumer works on the first node, and is on its way to the second.
Popping(w) ==
    /\ cpc # "idle" => queue # <<>> /\ ptr = Head(queue)
    /\ cpc = "cas" /\ nxt # Dummy => nxt = Cell(w, 2)
    /\ cpc \in {"head", "relink"} /\ nxt # Dummy => nxt = Cell(w, 1)

\* Where the queue's head leads.
HeadLeads(w) ==
    /\ cpc \in {"next", "cas"} => pNext[Dummy] = ptr
    /\ cpc = "head" \/ (cpc = "relink" /\ dnext = ptr) =>
         pNext[Dummy] = IF nxt # Dummy \/ Len(w) = 0 THEN ptr ELSE Cell(w, 1)
    /\ cpc = "relink" /\ dnext # ptr =>
         nxt = Dummy /\ Len(w) # 0 /\ dnext = Cell(w, 1) /\ pNext[Dummy] = dnext
    /\ cpc \in {"idle", "size"} => pNext[Dummy] \in {Dummy, Cell(w, 1)}

Counted == size = Len(queue) + IF ppc = "idle" THEN 0 ELSE 1

\* The nodes w wait to be taken.
LockFreeAt(w) ==
    /\ users = "lockfree" /\ w = Waiting
    /\ LockFreeType /\ Pushing(w) /\ Chained(w) /\ Popping(w) /\ HeadLeads(w) /\ Counted

LockFreeInv ==
    /\ users # "lockfree" => queue = <<>> /\ cpc \notin {"head", "relink", "size"}
    /\ users = "lockfree" => \E w \in Seq(Nodes) : LockFreeAt(w)

ListInv == users \in {"locked", "lockfree", "children"} /\ LockedInv /\ ChildrenInv /\ LockFreeInv

-----------------------------------------------------------------------------
(* The circle of cells. *)

\* Its cells are distinct but that it ends where it begins, at Dummy.
LEMMA CellsOf ==
    ASSUME NEW s \in Seq(Nodes), Distinct(s)
    PROVE  /\ Len(s) \in Nat
           /\ \A i \in Int : Cell(s, i) \in Cells
           /\ \A i \in 1 .. Len(s) : Cell(s, i) = s[i] /\ Cell(s, i) \in Nodes /\ Cell(s, i) # Dummy
           /\ Cell(s, 0) = Dummy /\ Cell(s, Len(s) + 1) = Dummy
           /\ \A i, j \in 0 .. Len(s) : Cell(s, i) = Cell(s, j) => i = j
           /\ \A i, j \in 1 .. Len(s) + 1 : Cell(s, i) = Cell(s, j) => i = j
<1>1. Len(s) \in Nat /\ \A i \in 1 .. Len(s) : s[i] \in Nodes
  BY LenProperties, ElementOfSeq
<1>2. \A i \in 1 .. Len(s) : s[i] # Dummy
  BY <1>1, DummyAssumption
<1>3. QED BY <1>1, <1>2 DEF Cell, Cells, Distinct

\* A node behind the last one.
LEMMA CellsAppended ==
    ASSUME NEW s \in Seq(Nodes), Distinct(s), NEW x \in Nodes, ~In(x, s)
    PROVE  /\ Append(s, x) \in Seq(Nodes) /\ Distinct(Append(s, x)) /\ Len(Append(s, x)) = Len(s) + 1
           /\ {Append(s, x)[i] : i \in 1 .. Len(s) + 1} = {s[i] : i \in 1 .. Len(s)} \cup {x}
           /\ \A i \in Int : Cell(Append(s, x), i) = IF i = Len(s) + 1 THEN x ELSE Cell(s, i)
           /\ \A i \in 0 .. Len(s) : Cell(s, i) # x
<1> DEFINE r == Append(s, x)
<1>1. /\ Len(s) \in Nat /\ r \in Seq(Nodes) /\ Len(r) = Len(s) + 1 /\ Distinct(r)
      /\ \A i \in 1 .. Len(s) : r[i] = s[i]
      /\ r[Len(s) + 1] = x
  BY PushBackLemma, AppendProperties, LenProperties
<1>2. \A i \in 1 .. Len(s) : s[i] # x
  BY DEF In
<1> HIDE DEF r
<1>3. {r[i] : i \in 1 .. Len(s) + 1} = {s[i] : i \in 1 .. Len(s)} \cup {x}
  BY <1>1
<1>4. \A i \in Int : Cell(r, i) = IF i = Len(s) + 1 THEN x ELSE Cell(s, i)
  BY <1>1 DEF Cell
<1>5. \A i \in 0 .. Len(s) : Cell(s, i) # x
  BY <1>1, <1>2, DummyAssumption DEF Cell
<1>6. QED BY <1>1, <1>3, <1>4, <1>5 DEF r

\* The jth node less.
LEMMA CellsErased ==
    ASSUME NEW s \in Seq(Nodes), Distinct(s), NEW j \in 1 .. Len(s)
    PROVE  /\ Erase(s, s[j]) \in Seq(Nodes) /\ Distinct(Erase(s, s[j])) /\ Len(Erase(s, s[j])) = Len(s) - 1
           /\ {Erase(s, s[j])[i] : i \in 1 .. Len(s) - 1} = {s[i] : i \in 1 .. Len(s)} \ {s[j]}
           /\ \A i \in Int : i < j => Cell(Erase(s, s[j]), i) = Cell(s, i)
           /\ \A i \in Int : i >= j => Cell(Erase(s, s[j]), i) = Cell(s, i + 1)
<1> DEFINE r == Erase(s, s[j])
<1>1. Len(s) \in Nat /\ r \in Seq(Nodes) /\ Distinct(r)
  BY EraseLemma, LenProperties
<1>2. (CHOOSE i \in 1 .. Len(s) : s[i] = s[j]) = j
  BY DEF Distinct
<1>3. r = [i \in 1 .. Len(s) - 1 |-> IF i < j THEN s[i] ELSE s[i + 1]]
  BY <1>2 DEF Erase, In
<1>4. Len(r) = Len(s) - 1 /\ \A i \in 1 .. Len(s) - 1 : r[i] = IF i < j THEN s[i] ELSE s[i + 1]
  <2>1. DOMAIN r = 1 .. Len(s) - 1 /\ DOMAIN r = 1 .. Len(r) /\ Len(r) \in Nat /\ Len(s) >= 1
    BY <1>1, <1>3, LenProperties
  <2>2. QED BY <1>1, <1>3, <2>1
<1> HIDE DEF r
<1>5. /\ \A i \in Int : i < j => Cell(r, i) = Cell(s, i)
      /\ \A i \in Int : i >= j => Cell(r, i) = Cell(s, i + 1)
  BY <1>1, <1>4 DEF Cell
<1>6. {r[i] : i \in 1 .. Len(s) - 1} = {s[i] : i \in 1 .. Len(s)} \ {s[j]}
  <2>1. \A i \in 1 .. Len(s) - 1 : \E m \in 1 .. Len(s) : m # j /\ r[i] = s[m]
    <3>1. TAKE i \in 1 .. Len(s) - 1
    <3>2. CASE i < j BY <1>1, <1>4, <3>2
    <3>3. CASE i >= j
      <4>1. i + 1 \in 1 .. Len(s) /\ i + 1 # j
        BY <1>1, <3>3
      <4>2. QED BY <1>4, <3>3, <4>1
    <3>4. QED BY <3>2, <3>3
  <2>2. \A m \in 1 .. Len(s) : m # j => \E i \in 1 .. Len(s) - 1 : r[i] = s[m]
    <3>1. SUFFICES ASSUME NEW m \in 1 .. Len(s), m # j PROVE \E i \in 1 .. Len(s) - 1 : r[i] = s[m]
      OBVIOUS
    <3>2. CASE m < j BY <1>1, <1>4, <3>2
    <3>3. CASE m > j
      <4>1. m - 1 \in 1 .. Len(s) - 1 /\ ~(m - 1 < j) /\ m - 1 + 1 = m
        BY <1>1, <3>3
      <4>2. r[m - 1] = s[m]
        BY <1>4, <4>1
      <4>3. QED BY <4>1, <4>2
    <3>4. QED BY <3>1, <3>2, <3>3
  <2>3. \A m \in 1 .. Len(s) : m # j => s[m] # s[j]
    BY DEF Distinct
  <2> DEFINE A == {r[i] : i \in 1 .. Len(s) - 1}
             B == {s[i] : i \in 1 .. Len(s)} \ {s[j]}
  <2>4. \A y \in A : y \in B
    BY <2>1, <2>3
  <2>5. \A y \in B : y \in A
    BY <2>2
  <2>6. QED BY <2>4, <2>5
<1>7. QED BY <1>1, <1>4, <1>5, <1>6 DEF r

\* The first node less is the tail.
LEMMA ErasedFirst ==
    ASSUME NEW s \in Seq(Nodes), Distinct(s), s # <<>>
    PROVE  Len(s) >= 1 /\ Head(s) = s[1] /\ Erase(s, s[1]) = Tail(s)
<1>1. Len(s) \in Nat /\ Len(s) >= 1 /\ Head(s) = s[1]
  BY EmptySeq, LenProperties, HeadTailProperties
<1>2. Tail(s) \in Seq(Nodes) /\ Len(Tail(s)) = Len(s) - 1 /\ \A i \in 1 .. Len(s) - 1 : Tail(s)[i] = s[i + 1]
  BY <1>1, HeadTailProperties
<1>3. (CHOOSE i \in 1 .. Len(s) : s[i] = s[1]) = 1
  BY <1>1 DEF Distinct
<1>4. In(s[1], s)
  BY <1>1 DEF In
<1>5. Erase(s, s[1]) = [i \in 1 .. Len(s) - 1 |-> IF i < 1 THEN s[i] ELSE s[i + 1]]
  BY <1>3, <1>4 DEF Erase
<1>6. Erase(s, s[1]) \in Seq(Nodes) /\ Len(Erase(s, s[1])) = Len(s) - 1
  BY <1>1, CellsErased
<1> DEFINE r == Erase(s, s[1])
           q == Tail(s)
<1>7. \A i \in 1 .. Len(s) - 1 : r[i] = q[i]
  BY <1>1, <1>2, <1>5
<1> HIDE DEF r, q
<1>8. r = q
  <2>1. r \in Seq(Nodes) /\ q \in Seq(Nodes) /\ Len(r) = Len(s) - 1 /\ Len(q) = Len(s) - 1
    BY <1>2, <1>6 DEF r, q
  <2>2. QED BY <1>7, <2>1, SeqEqual
<1>9. QED BY <1>1, <1>8 DEF r, q

-----------------------------------------------------------------------------
(* The operations of LinkedList. *)

\* An empty list leads from Dummy to Dummy.
LEMMA EmptyList == ListInit => ListAt(<<>>, 0) /\ linked \subseteq Nodes
<1>1. SUFFICES ASSUME ListInit PROVE ListAt(<<>>, 0) /\ linked \subseteq Nodes
  OBVIOUS
<1>2. Len(<<>>) = 0 /\ <<>> \in Seq(Nodes) /\ Distinct(<<>>) /\ \A i \in Int : Cell(<<>>, i) = Dummy
  BY EmptySeq, EmptyLemma DEF Cell
<1>3. Dummy \in Cells
  BY DEF Cells
<1>4. Pointers
  BY <1>1, <1>3 DEF ListInit, Pointers
<1>5. Holds(<<>>)
  BY <1>1, <1>2 DEF ListInit, Holds
<1>6. Forwards(<<>>, 0) /\ Backwards(<<>>)
  BY <1>1, <1>2, <1>3 DEF ListInit, Forwards, Backwards
<1>7. QED BY <1>1, <1>4, <1>5, <1>6 DEF ListAt, ListInit

\* ckLinkedListPushBack adds the node at the end, though another node may be on its
\* way out before the last one.
LEMMA PushKeeps ==
    ASSUME NEW s \in Seq(Nodes), NEW k \in 0 .. Len(s), ListAt(s, k), k = 0 \/ k # Len(s),
           NEW x \in Nodes, LockedPush(x)
    PROVE  ListAt(Append(s, x), k)' /\ ~In(x, s)
<1> DEFINE n == Len(s)
           r == Append(s, x)
<1>1. Distinct(s) /\ linked = {s[i] : i \in 1 .. n} /\ size = n /\ Pointers /\ n \in Nat
  BY LenProperties DEF ListAt, Holds
<1>2. ~In(x, s)
  BY <1>1 DEF LockedPush, In
<1>3. /\ r \in Seq(Nodes) /\ Distinct(r) /\ Len(r) = n + 1
      /\ {r[i] : i \in 1 .. n + 1} = {s[i] : i \in 1 .. n} \cup {x}
      /\ \A i \in Int : Cell(r, i) = IF i = n + 1 THEN x ELSE Cell(s, i)
      /\ \A i \in 0 .. n : Cell(s, i) # x
  BY <1>1, <1>2, CellsAppended
<1>4. /\ \A i \in Int : Cell(s, i) \in Cells
      /\ Cell(s, 0) = Dummy /\ Cell(s, n + 1) = Dummy
      /\ \A i, j \in 0 .. n : Cell(s, i) = Cell(s, j) => i = j
  BY <1>1, CellsOf
<1>5. x \in Cells /\ Dummy \in Cells /\ x # Dummy
  BY DummyAssumption DEF Cells
<1>6. pPrev[Dummy] = Cell(s, n)
  BY <1>1, <1>4 DEF ListAt, Backwards
<1>7. /\ pPrev' = [pPrev EXCEPT ![x] = Cell(s, n), ![Dummy] = x]
      /\ pNext' = [pNext EXCEPT ![x] = Dummy, ![Cell(s, n)] = x]
      /\ linked' = linked \cup {x} /\ size' = size + 1
  BY <1>6 DEF LockedPush
<1> HIDE DEF r, n
<1>8. Pointers'
  BY <1>1, <1>4, <1>5, <1>7 DEF Pointers
<1>9. Holds(r)'
  BY <1>1, <1>3, <1>7 DEF Holds
<1>10. Forwards(r, k)'
  <2>1. SUFFICES ASSUME NEW i \in 0 .. n + 1
                 PROVE  pNext'[Cell(r, i)] = IF i + 1 = k THEN Cell(r, i + 2) ELSE Cell(r, i + 1)
    BY <1>3 DEF Forwards
  <2>2. CASE i < n
    <3>1. Cell(r, i) = Cell(s, i) /\ Cell(s, i) # x /\ Cell(s, i) # Cell(s, n) /\ Cell(s, i) \in Cells
      BY <1>1, <1>3, <1>4, <2>2
    <3>2. pNext'[Cell(r, i)] = pNext[Cell(s, i)]
      BY <1>1, <1>7, <3>1 DEF Pointers
    <3>3. pNext[Cell(s, i)] = IF i + 1 = k THEN Cell(s, i + 2) ELSE Cell(s, i + 1)
      BY <1>1, <2>2 DEF ListAt, Forwards, n
    <3>4. i + 1 # n + 1 /\ (i + 1 = k => i + 2 # n + 1)
      BY <1>1, <2>2 DEF n
    <3>5. QED BY <1>3, <3>2, <3>3, <3>4
  <2>3. CASE i = n
    BY <1>1, <1>3, <1>4, <1>7, <2>3 DEF Pointers, n
  <2>4. CASE i = n + 1
    <3>1. i + 1 # k /\ Cell(r, i) = x /\ Cell(r, i + 1) = Dummy /\ Cell(s, n) # x
      <4>1. Cell(s, n + 2) = Dummy
        BY <1>1 DEF Cell, n
      <4>2. QED BY <1>1, <1>3, <2>4, <4>1 DEF n
    <3>2. QED BY <1>1, <1>4, <1>5, <1>7, <3>1 DEF Pointers
  <2>5. QED BY <1>1, <2>2, <2>3, <2>4
<1>11. Backwards(r)'
  <2>1. SUFFICES ASSUME NEW i \in 0 .. n + 1
                 PROVE  pPrev'[Cell(r, i + 1)] = Cell(r, i)
    BY <1>3 DEF Backwards
  <2>2. CASE i < n
    <3>1. Cell(r, i + 1) = Cell(s, i + 1) /\ Cell(s, i + 1) # x /\ Cell(s, i + 1) # Dummy /\ Cell(s, i + 1) \in Cells
      BY <1>1, <1>3, <1>4, <2>2
    <3>2. pPrev'[Cell(r, i + 1)] = pPrev[Cell(s, i + 1)]
      BY <1>1, <1>7, <3>1 DEF Pointers
    <3>3. pPrev[Cell(s, i + 1)] = Cell(s, i)
      BY <1>1, <2>2 DEF ListAt, Backwards, n
    <3>4. QED BY <1>1, <1>3, <2>2, <3>2, <3>3
  <2>3. CASE i = n
    <3>1. Cell(r, i + 1) = x /\ Cell(r, i) = Cell(s, n)
      BY <1>1, <1>3, <2>3
    <3>2. QED BY <1>1, <1>4, <1>5, <1>7, <3>1 DEF Pointers
  <2>4. CASE i = n + 1
    <3>1. Cell(r, i) = x /\ Cell(r, i + 1) = Dummy
      <4>1. Cell(s, n + 2) = Dummy
        BY <1>1 DEF Cell, n
      <4>2. QED BY <1>1, <1>3, <2>4, <4>1
    <3>2. QED BY <1>1, <1>4, <1>5, <1>7, <3>1 DEF Pointers
  <2>5. QED BY <1>1, <2>2, <2>3, <2>4
<1>12. QED BY <1>2, <1>8, <1>9, <1>10, <1>11 DEF ListAt, r

\* Joining the neighbours of a node (ckLinkedListErase), though another that is not
\* one of them may be on its way out.
LEMMA EraseKeeps ==
    ASSUME NEW s \in Seq(Nodes), NEW k \in 0 .. Len(s), ListAt(s, k),
           NEW j \in 1 .. Len(s), k = 0 \/ j \notin {k - 1, k, k + 1},
           LockedErase(s[j])
    PROVE  ListAt(Erase(s, s[j]), IF j < k THEN k - 1 ELSE k)'
<1> DEFINE n == Len(s)
           x == s[j]
           r == Erase(s, x)
           h == IF j < k THEN k - 1 ELSE k
<1>1. Distinct(s) /\ linked = {s[i] : i \in 1 .. n} /\ size = n /\ Pointers /\ n \in Nat /\ n >= 1
  BY LenProperties DEF ListAt, Holds
<1>2. /\ r \in Seq(Nodes) /\ Distinct(r) /\ Len(r) = n - 1
      /\ {r[i] : i \in 1 .. n - 1} = {s[i] : i \in 1 .. n} \ {x}
      /\ \A i \in Int : i < j => Cell(r, i) = Cell(s, i)
      /\ \A i \in Int : i >= j => Cell(r, i) = Cell(s, i + 1)
  BY <1>1, CellsErased
<1>3. /\ \A i \in Int : Cell(s, i) \in Cells
      /\ Cell(s, j) = x
      /\ Cell(s, 0) = Dummy /\ Cell(s, n + 1) = Dummy
      /\ \A i, m \in 0 .. n : Cell(s, i) = Cell(s, m) => i = m
      /\ \A i, m \in 1 .. n + 1 : Cell(s, i) = Cell(s, m) => i = m
  BY <1>1, CellsOf
<1>4. pPrev[x] = Cell(s, j - 1) /\ pNext[x] = Cell(s, j + 1)
  <2>1. j - 1 \in 0 .. n /\ j \in 0 .. n /\ j - 1 + 1 = j
    BY <1>1
  <2>2. pPrev[Cell(s, j - 1 + 1)] = Cell(s, j - 1)
    BY <2>1 DEF ListAt, Backwards
  <2>3. pNext[Cell(s, j)] = Cell(s, j + 1)
    <3>1. j + 1 # k
      BY <1>1
    <3>2. QED BY <2>1, <3>1 DEF ListAt, Forwards
  <2>4. QED BY <1>3, <2>1, <2>2, <2>3
<1>5. /\ pNext' = [pNext EXCEPT ![Cell(s, j - 1)] = Cell(s, j + 1)]
      /\ pPrev' = [pPrev EXCEPT ![Cell(s, j + 1)] = Cell(s, j - 1)]
      /\ linked' = linked \ {x} /\ size' = size - 1
  BY <1>4 DEF LockedErase
<1>6. /\ \A i \in 0 .. n : pNext[Cell(s, i)] = IF i + 1 = k THEN Cell(s, i + 2) ELSE Cell(s, i + 1)
      /\ \A i \in 0 .. n : pPrev[Cell(s, i + 1)] = Cell(s, i)
  BY DEF ListAt, Forwards, Backwards
<1> HIDE DEF r, n, x, h
<1>7. j \in 1 .. n /\ k \in 0 .. n /\ n \in Nat
  BY <1>1 DEF n
<1>c. /\ \A i \in Int : i < j => Cell(r, i) = Cell(s, i)
      /\ \A i \in Int : i >= j => Cell(r, i) = Cell(s, i + 1)
  BY <1>2
<1>d. /\ \A i \in Int : Cell(s, i) \in Cells
      /\ \A i, m \in 0 .. n : Cell(s, i) = Cell(s, m) => i = m
      /\ \A i, m \in 1 .. n + 1 : Cell(s, i) = Cell(s, m) => i = m
  BY <1>3
<1>8. Pointers'
  BY <1>1, <1>3, <1>5, <1>7 DEF Pointers
<1>9. Holds(r)'
  BY <1>1, <1>2, <1>5 DEF Holds
<1>10. Forwards(r, h)'
  <2>1. SUFFICES ASSUME NEW i \in 0 .. n - 1
                 PROVE  pNext'[Cell(r, i)] = IF i + 1 = h THEN Cell(r, i + 2) ELSE Cell(r, i + 1)
    BY <1>2 DEF Forwards
  <2>2. CASE i < j - 1
    <3>1. i \in Int /\ i < j /\ i + 1 < j /\ (i + 1 = k => i + 2 < j) /\ (i + 1 = k <=> i + 1 = h)
      BY <1>7, <2>2 DEF h
    <3>2. Cell(r, i) = Cell(s, i) /\ Cell(r, i + 1) = Cell(s, i + 1) /\ (i + 1 = k => Cell(r, i + 2) = Cell(s, i + 2))
      BY <1>c, <3>1
    <3>3. Cell(s, i) # Cell(s, j - 1) /\ Cell(s, i) \in Cells
      BY <1>7, <1>d, <2>2
    <3>4. pNext'[Cell(r, i)] = pNext[Cell(s, i)]
      BY <1>1, <1>5, <3>2, <3>3 DEF Pointers
    <3>5. pNext[Cell(s, i)] = IF i + 1 = k THEN Cell(s, i + 2) ELSE Cell(s, i + 1)
      BY <1>6, <1>7, <2>2
    <3>6. QED BY <3>1, <3>2, <3>4, <3>5
  <2>3. CASE i = j - 1
    <3>1. i \in Int /\ i < j /\ i + 1 >= j /\ i + 1 # h /\ i + 2 = j + 1
      BY <1>7, <2>3 DEF h
    <3>2. Cell(r, i) = Cell(s, j - 1) /\ Cell(r, i + 1) = Cell(s, j + 1)
      BY <1>c, <2>3, <3>1
    <3>3. Cell(s, j - 1) \in Cells
      BY <1>7, <1>d
    <3>4. QED BY <1>1, <1>5, <3>1, <3>2, <3>3 DEF Pointers
  <2>4. CASE i > j - 1
    <3>1. i \in Int /\ i >= j /\ (i + 2 = k <=> i + 1 = h)
      BY <1>7, <2>4 DEF h
    <3>2. Cell(r, i) = Cell(s, i + 1) /\ Cell(r, i + 1) = Cell(s, i + 2) /\ Cell(r, i + 2) = Cell(s, i + 3)
      BY <1>c, <3>1
    <3>3. Cell(s, i + 1) # Cell(s, j - 1) /\ Cell(s, i + 1) \in Cells
      BY <1>7, <1>d, <2>4
    <3>4. pNext'[Cell(r, i)] = pNext[Cell(s, i + 1)]
      BY <1>1, <1>5, <3>2, <3>3 DEF Pointers
    <3>5. pNext[Cell(s, i + 1)] = IF i + 2 = k THEN Cell(s, i + 3) ELSE Cell(s, i + 2)
      BY <1>6, <1>7, <2>4
    <3>6. QED BY <3>1, <3>2, <3>4, <3>5
  <2>5. QED BY <1>7, <2>2, <2>3, <2>4
<1>11. Backwards(r)'
  <2>1. SUFFICES ASSUME NEW i \in 0 .. n - 1
                 PROVE  pPrev'[Cell(r, i + 1)] = Cell(r, i)
    BY <1>2 DEF Backwards
  <2>2. CASE i < j - 1
    <3>1. i \in Int /\ i < j /\ i + 1 < j
      BY <1>7, <2>2
    <3>2. Cell(r, i) = Cell(s, i) /\ Cell(r, i + 1) = Cell(s, i + 1)
      BY <1>c, <3>1
    <3>3. Cell(s, i + 1) # Cell(s, j + 1) /\ Cell(s, i + 1) \in Cells
      BY <1>7, <1>d, <2>2
    <3>4. pPrev'[Cell(r, i + 1)] = pPrev[Cell(s, i + 1)]
      BY <1>1, <1>5, <3>2, <3>3 DEF Pointers
    <3>5. pPrev[Cell(s, i + 1)] = Cell(s, i)
      BY <1>6, <1>7, <2>2
    <3>6. QED BY <3>2, <3>4, <3>5
  <2>3. CASE i = j - 1
    <3>1. i \in Int /\ i < j /\ i + 1 >= j /\ i + 2 = j + 1
      BY <1>7, <2>3
    <3>2. Cell(r, i) = Cell(s, j - 1) /\ Cell(r, i + 1) = Cell(s, j + 1)
      BY <1>c, <2>3, <3>1
    <3>3. Cell(s, j + 1) \in Cells
      BY <1>7, <1>d
    <3>4. QED BY <1>1, <1>5, <3>2, <3>3 DEF Pointers
  <2>4. CASE i > j - 1
    <3>1. i \in Int /\ i >= j
      BY <1>7, <2>4
    <3>2. Cell(r, i) = Cell(s, i + 1) /\ Cell(r, i + 1) = Cell(s, i + 2)
      BY <1>c, <3>1
    <3>3. Cell(s, i + 2) # Cell(s, j + 1) /\ Cell(s, i + 2) \in Cells
      BY <1>7, <1>d, <2>4
    <3>4. pPrev'[Cell(r, i + 1)] = pPrev[Cell(s, i + 2)]
      BY <1>1, <1>5, <3>2, <3>3 DEF Pointers
    <3>5. pPrev[Cell(s, i + 2)] = Cell(s, i + 1)
      BY <1>6, <1>7, <2>4
    <3>6. QED BY <3>2, <3>4, <3>5
  <2>5. QED BY <1>7, <2>2, <2>3, <2>4
<1>12. QED BY <1>8, <1>9, <1>10, <1>11 DEF ListAt, r, h, x

\* ckLinkedListPopFront is the erase of the first node.
LEMMA PopErases ==
    ASSUME NEW s \in Seq(Nodes), ListAt(s, 0), LockedPop
    PROVE  s # <<>> /\ LockedErase(s[1])
<1>1. Distinct(s) /\ linked = {s[i] : i \in 1 .. Len(s)} /\ Len(s) \in Nat
  BY LenProperties DEF ListAt, Holds
<1>2. Cell(s, 0) = Dummy /\ pNext[Cell(s, 0)] = Cell(s, 1)
  BY <1>1, CellsOf DEF ListAt, Forwards
<1>3. Len(s) # 0
  BY <1>2 DEF LockedPop, Cell
<1>4. s # <<>> /\ Cell(s, 1) = s[1] /\ s[1] \in linked
  BY <1>1, <1>3, EmptySeq DEF Cell
<1>5. pPrev[s[1]] = Dummy
  BY <1>1, <1>2, <1>4 DEF ListAt, Backwards
<1>6. QED BY <1>2, <1>4, <1>5 DEF LockedPop, LockedErase

-----------------------------------------------------------------------------
(* The walk along the pointers. *)

\* A walk can be made as far as one likes: it has the steps its definition asks for.
LEMMA WalkSteps ==
    ASSUME NEW p \in [Cells -> Cells]
    PROVE  /\ Cardinality(Nodes) \in Nat
           /\ DOMAIN Walk(p) = 0 .. Cardinality(Nodes)
           /\ Walk(p)[0] = p[Dummy]
           /\ \A i \in 1 .. Cardinality(Nodes) : Walk(p)[i] = p[Walk(p)[i - 1]]
<1> DEFINE N == Cardinality(Nodes)
           Body(f) == [i \in 0 .. N |-> IF i = 0 THEN p[Dummy] ELSE p[f[i - 1]]]
           w == CHOOSE f : f = Body(f)
           Leads(f, n) == f \in [0 .. n -> Cells] /\ f[0] = p[Dummy] /\ \A i \in 1 .. n : f[i] = p[f[i - 1]]
           Short == {n \in Nat : ~ \E f : Leads(f, n)}
<1>1. N \in Nat
  BY NodesAssumption, FS_CardinalityType
<1>2. Walk(p) = w
  BY DEF Walk
<1> HIDE DEF w, N
<1>3. Short = {}
  <2>1. SUFFICES ASSUME Short # {} PROVE FALSE
    OBVIOUS
  <2>2. Short \subseteq Nat
    OBVIOUS
  <2> HIDE DEF Short
  <2>3. \E n \in Short : \A m \in Short : ~ (<<m, n>> \in OpToRel(<, Nat))
    BY <2>1, <2>2, WFMin, NatLessThanWellFounded
  <2>4. PICK n \in Short : \A m \in Short : ~ (m < n)
    BY <2>2, <2>3 DEF OpToRel
  <2>5. n \in Nat /\ ~ \E f : Leads(f, n)
    BY <2>4 DEF Short
  <2>6. CASE n = 0
    <3> DEFINE g == [i \in 0 .. 0 |-> p[Dummy]]
    <3>1. p[Dummy] \in Cells
      BY DEF Cells
    <3>2. g \in [0 .. 0 -> Cells] /\ g[0] = p[Dummy]
      BY <3>1
    <3>3. Leads(g, 0)
      BY <3>2
    <3>4. QED BY <2>5, <2>6, <3>3
  <2>7. CASE n # 0
    <3>1. n - 1 \in Nat /\ n - 1 < n
      BY <2>5, <2>7
    <3>2. n - 1 \notin Short
      BY <2>4, <3>1
    <3>3. PICK f : Leads(f, n - 1)
      BY <3>1, <3>2 DEF Short
    <3> DEFINE g == [i \in 0 .. n |-> IF i = n THEN p[f[n - 1]] ELSE f[i]]
    <3>4. /\ \A i \in 0 .. n - 1 : f[i] \in Cells /\ g[i] = f[i]
          /\ g[n] = p[f[n - 1]]
      BY <2>5, <3>1, <3>3
    <3>5. p[f[n - 1]] \in Cells
      BY <3>1, <3>4
    <3>6. g \in [0 .. n -> Cells]
      <4>1. ASSUME NEW i \in 0 .. n PROVE (IF i = n THEN p[f[n - 1]] ELSE f[i]) \in Cells
        <5>1. CASE i = n
          BY <3>5, <5>1
        <5>2. CASE i # n
          <6>1. i \in 0 .. n - 1
            BY <2>5, <3>1, <5>2
          <6>2. QED BY <3>4, <5>2, <6>1
        <5>3. QED BY <5>1, <5>2
      <4>2. QED BY <4>1
    <3> HIDE DEF g
    <3>7. g[0] = p[Dummy]
      BY <3>1, <3>3, <3>4
    <3>8. ASSUME NEW i \in 1 .. n PROVE g[i] = p[g[i - 1]]
      <4>1. CASE i = n
        BY <3>1, <3>4, <4>1
      <4>2. CASE i # n
        <5>1. i \in 1 .. n - 1 /\ i \in 0 .. n - 1 /\ i - 1 \in 0 .. n - 1
          BY <2>5, <4>2
        <5>2. QED BY <3>3, <3>4, <5>1
      <4>3. QED BY <4>1, <4>2
    <3>9. Leads(g, n)
      BY <3>6, <3>7, <3>8
    <3>10. QED BY <2>5, <3>9
  <2>8. QED BY <2>6, <2>7
<1>4. PICK f : Leads(f, N)
  BY <1>1, <1>3
<1>5. f = Body(f)
  <2>1. \A i \in 0 .. N : f[i] = IF i = 0 THEN p[Dummy] ELSE p[f[i - 1]]
    BY <1>1, <1>4
  <2>2. f = [i \in 0 .. N |-> f[i]]
    BY <1>4
  <2>3. QED BY <2>1, <2>2
<1>6. w = Body(w)
  BY <1>5 DEF w
<1>7. DOMAIN w = 0 .. N /\ w[0] = p[Dummy] /\ \A i \in 1 .. N : w[i] = p[w[i - 1]]
  BY <1>1, <1>6
<1>8. QED BY <1>1, <1>2, <1>7 DEF N

\* The nodes on a list are not more than there are.
LEMMA ListFits ==
    ASSUME NEW s \in Seq(Nodes), Distinct(s)
    PROVE  Len(s) <= Cardinality(Nodes) /\ Cardinality({s[i] : i \in 1 .. Len(s)}) = Len(s)
<1> DEFINE n == Len(s)
           S == {s[i] : i \in 1 .. n}
<1>1. n \in Nat /\ DOMAIN s = 1 .. n /\ s = [i \in 1 .. n |-> s[i]] /\ S \subseteq Nodes
  BY LenProperties
<1>2. IsFiniteSet(1 .. n) /\ Cardinality(1 .. n) = n
  <2> HIDE DEF n
  <2>1. 1 \in Int /\ n \in Int /\ n \in Nat
    BY <1>1
  <2>2. IsFiniteSet(1 .. n) /\ Cardinality(1 .. n) = IF 1 > n THEN 0 ELSE n - 1 + 1
    BY <2>1, FS_Interval
  <2>3. QED BY <2>1, <2>2
<1>3. s \in Surjection(1 .. n, S) /\ s \in Injection(1 .. n, S)
  <2>1. s \in [1 .. n -> S]
    BY <1>1
  <2>2. \A t \in S : \E i \in 1 .. n : s[i] = t
    OBVIOUS
  <2>3. \A a, b \in 1 .. n : s[a] = s[b] => a = b
    BY DEF Distinct
  <2> HIDE DEF S
  <2>4. QED BY <2>1, <2>2, <2>3 DEF Surjection, Injection, IsInjective
<1>4. IsFiniteSet(S) /\ Cardinality(S) = n
  BY <1>2, <1>3, FS_Surjection
<1>5. Cardinality(S) <= Cardinality(Nodes)
  BY <1>1, NodesAssumption, FS_Subset
<1>6. QED BY <1>4, <1>5

\* From a list in order the walk goes through its nodes and back to Dummy.
LEMMA WalkThrough ==
    ASSUME NEW s \in Seq(Nodes), ListAt(s, 0)
    PROVE  \A i \in 0 .. Len(s) : i \in 0 .. Cardinality(Nodes) /\ Walk(pNext)[i] = Cell(s, i + 1)
<1> DEFINE n == Len(s)
           w == Walk(pNext)
           Wrong == {i \in 0 .. n : w[i] # Cell(s, i + 1)}
<1>1. n \in Nat /\ n <= Cardinality(Nodes) /\ Cell(s, 0) = Dummy
  BY ListFits, LenProperties, CellsOf DEF ListAt, Holds
<1>2. /\ Cardinality(Nodes) \in Nat
      /\ w[0] = pNext[Dummy]
      /\ \A i \in 1 .. Cardinality(Nodes) : w[i] = pNext[w[i - 1]]
  BY WalkSteps DEF ListAt, Pointers
<1>3. \A i \in 0 .. n : pNext[Cell(s, i)] = Cell(s, i + 1)
  BY DEF ListAt, Forwards
<1> HIDE DEF w, n
<1>4. Wrong = {}
  <2>1. SUFFICES ASSUME Wrong # {} PROVE FALSE
    OBVIOUS
  <2>2. Wrong \subseteq Nat
    BY <1>1
  <2> HIDE DEF Wrong
  <2>3. \E i \in Wrong : \A j \in Wrong : ~ (<<j, i>> \in OpToRel(<, Nat))
    BY <2>1, <2>2, WFMin, NatLessThanWellFounded
  <2>4. PICK i \in Wrong : \A j \in Wrong : ~ (j < i)
    BY <2>2, <2>3 DEF OpToRel
  <2>5. i \in 0 .. n /\ w[i] # Cell(s, i + 1)
    BY <2>4 DEF Wrong
  <2>6. CASE i = 0
    <3>1. pNext[Cell(s, 0)] = Cell(s, 0 + 1)
      BY <1>1, <1>3
    <3>2. QED BY <1>1, <1>2, <2>5, <2>6, <3>1
  <2>7. CASE i # 0
    <3>1. i - 1 \in 0 .. n /\ i - 1 < i /\ i \in 1 .. Cardinality(Nodes)
      BY <1>1, <1>2, <2>5, <2>7
    <3>2. w[i - 1] = Cell(s, i - 1 + 1)
      BY <2>4, <3>1 DEF Wrong
    <3>3. i - 1 + 1 = i
      BY <1>1, <2>5
    <3>4. w[i] = pNext[Cell(s, i)]
      BY <1>2, <3>1, <3>2, <3>3
    <3>5. QED BY <1>3, <2>5, <3>4
  <2>8. QED BY <2>6, <2>7
<1>5. QED BY <1>1, <1>2, <1>4 DEF w, n

\* So what is met along the pointers is the list, and it is well linked.
LEMMA ListMet ==
    ASSUME NEW s \in Seq(Nodes), ListAt(s, 0)
    PROVE  Forward = s /\ WellLinked
<1> DEFINE n == Len(s)
           w == Walk(pNext)
           Back(k) == w[k] = Dummy /\ \A i \in 0 .. k - 1 : w[i] # Dummy
           e == CHOOSE k \in DOMAIN w : Back(k)
<1>1. /\ n \in Nat /\ Distinct(s) /\ linked = {s[i] : i \in 1 .. n} /\ size = n
      /\ pNext \in [Cells -> Cells]
  BY LenProperties DEF ListAt, Holds, Pointers
<1>2. \A i \in 0 .. n : i \in 0 .. Cardinality(Nodes) /\ w[i] = Cell(s, i + 1)
  BY WalkThrough
<1>3. DOMAIN w = 0 .. Cardinality(Nodes) /\ Cardinality(Nodes) \in Nat
  BY <1>1, WalkSteps
<1>4. /\ \A i \in 1 .. n : Cell(s, i) = s[i] /\ Cell(s, i) # Dummy
      /\ Cell(s, 0) = Dummy /\ Cell(s, n + 1) = Dummy
  BY <1>1, CellsOf
<1> HIDE DEF w, n
<1>5. w[n] = Dummy /\ \A i \in 0 .. n - 1 : w[i] = s[i + 1] /\ w[i] # Dummy
  <2>1. w[n] = Dummy
    BY <1>1, <1>2, <1>4
  <2>2. ASSUME NEW i \in 0 .. n - 1 PROVE w[i] = s[i + 1] /\ w[i] # Dummy
    <3>1. i \in 0 .. n /\ i + 1 \in 1 .. n
      BY <1>1
    <3>2. QED BY <1>2, <1>4, <3>1
  <2>3. QED BY <2>1, <2>2
<1>6. n \in DOMAIN w /\ Back(n)
  <2>1. n \in 0 .. n
    BY <1>1
  <2>2. n \in DOMAIN w
    BY <1>2, <1>3, <2>1
  <2>3. Back(n)
    <3> HIDE DEF e
    <3>1. \A i \in 0 .. n - 1 : w[i] # Dummy
      BY <1>5
    <3>2. QED BY <1>5, <3>1
  <2>4. QED BY <2>2, <2>3
<1>7. ASSUME NEW k \in DOMAIN w, Back(k) PROVE k = n
  <2>1. k \in Nat
    BY <1>3
  <2>2. ~(k < n)
    <3>1. k < n => k \in 0 .. n - 1
      BY <1>1, <2>1
    <3>2. QED BY <1>5, <1>7, <3>1
  <2>3. ~(n < k)
    <3>1. n < k => n \in 0 .. k - 1
      BY <1>1, <2>1
    <3>2. QED BY <1>5, <1>7, <3>1
  <2>4. QED BY <1>1, <2>1, <2>2, <2>3
<1>8. e = n
  <2> HIDE DEF Back
  <2>1. e \in DOMAIN w /\ Back(e)
    BY <1>6
  <2>2. QED BY <1>7, <2>1
<1>9. Forward = [i \in 1 .. n |-> w[i - 1]]
  <2>1. Forward = [i \in 1 .. e |-> w[i - 1]]
    BY DEF Forward, w
  <2>2. QED BY <1>8, <2>1
<1>10. Forward = s
  <2>1. s = [i \in 1 .. n |-> s[i]]
    BY LenProperties DEF n
  <2>2. ASSUME NEW i \in 1 .. n PROVE w[i - 1] = s[i]
    <3>1. i - 1 \in 0 .. n - 1 /\ i - 1 + 1 = i
      BY <1>1
    <3>2. QED BY <1>5, <3>1
  <2>3. QED BY <1>9, <2>1, <2>2
<1>11. \E k \in 0 .. Cardinality(Nodes) : Walk(pNext)[k] = Dummy
  BY <1>3, <1>6 DEF w
<1>12. {Forward[i] : i \in DOMAIN Forward} = linked
  <2>1. DOMAIN s = 1 .. n
    BY LenProperties DEF n
  <2>2. QED BY <1>1, <1>10, <2>1
<1>13. \A c \in linked \cup {Dummy} : pPrev[pNext[c]] = c
  <2>1. SUFFICES ASSUME NEW c \in linked \cup {Dummy} PROVE pPrev[pNext[c]] = c
    OBVIOUS
  <2>2. PICK i \in 0 .. n : c = Cell(s, i)
    <3>1. CASE c = Dummy
      BY <1>1, <1>4, <3>1
    <3>2. CASE c \in linked
      <4>1. PICK i \in 1 .. n : c = s[i]
        BY <1>1, <3>2
      <4>2. i \in 0 .. n
        BY <1>1
      <4>3. QED BY <1>4, <4>1, <4>2
    <3>3. QED BY <3>1, <3>2
  <2>3. pNext[Cell(s, i)] = Cell(s, i + 1) /\ pPrev[Cell(s, i + 1)] = Cell(s, i)
    BY <2>2 DEF ListAt, Forwards, Backwards, n
  <2>4. QED BY <2>2, <2>3
<1>14. size = Cardinality(linked)
  BY <1>1, ListFits DEF n
<1>15. QED BY <1>10, <1>11, <1>12, <1>13, <1>14 DEF WellLinked

-----------------------------------------------------------------------------
(* Under a lock. *)

\* One operation under the lock is one of the list's.
LEMMA LockedStep ==
    ASSUME NEW s \in Seq(Nodes), ListAt(s, 0), Locked
    PROVE  \E r \in Seq(Nodes) :
              /\ ListAt(r, 0)'
              /\ \/ \E x \in Nodes : ~In(x, s) /\ r = Append(s, x)
                 \/ \E x \in Nodes : In(x, s) /\ r = Erase(s, x)
                 \/ s # <<>> /\ r = Tail(s)
<1>1. Distinct(s) /\ linked = {s[i] : i \in 1 .. Len(s)} /\ Len(s) \in Nat
  BY LenProperties DEF ListAt, Holds
<1>2. 0 \in 0 .. Len(s)
  BY <1>1
<1>3. ASSUME NEW j \in 1 .. Len(s), LockedErase(s[j])
      PROVE  Erase(s, s[j]) \in Seq(Nodes) /\ ListAt(Erase(s, s[j]), 0)'
  <2>1. ListAt(Erase(s, s[j]), IF j < 0 THEN 0 - 1 ELSE 0)'
    BY <1>2, <1>3, EraseKeeps
  <2>2. ~(j < 0)
    BY <1>1
  <2>3. QED BY <2>1, <2>2, EraseLemma
<1>4. CASE \E x \in Nodes : LockedPush(x)
  <2>1. PICK x \in Nodes : LockedPush(x)
    BY <1>4
  <2>2. ListAt(Append(s, x), 0)' /\ ~In(x, s)
    BY <1>2, <2>1, PushKeeps
  <2>3. Append(s, x) \in Seq(Nodes)
    OBVIOUS
  <2>4. QED BY <2>2, <2>3
<1>5. CASE \E x \in Nodes : LockedErase(x)
  <2>1. PICK x \in Nodes : LockedErase(x)
    BY <1>5
  <2>2. PICK j \in 1 .. Len(s) : x = s[j]
    BY <1>1, <2>1 DEF LockedErase
  <2>3. In(x, s)
    BY <2>2 DEF In
  <2>4. Erase(s, x) \in Seq(Nodes) /\ ListAt(Erase(s, x), 0)'
    BY <1>3, <2>1, <2>2
  <2>5. QED BY <2>3, <2>4
<1>6. CASE LockedPop
  <2>1. s # <<>> /\ LockedErase(s[1])
    BY <1>6, PopErases
  <2>2. Len(s) >= 1 /\ Erase(s, s[1]) = Tail(s)
    BY <1>1, <2>1, ErasedFirst
  <2>3. 1 \in 1 .. Len(s)
    BY <1>1, <2>2
  <2>4. Tail(s) \in Seq(Nodes) /\ ListAt(Tail(s), 0)'
    BY <1>3, <2>1, <2>2, <2>3
  <2>5. QED BY <2>1, <2>4
<1>7. QED BY <1>4, <1>5, <1>6 DEF Locked

\* What is met along the pointers before and after.
MeetsList == \A s \in Seq(Nodes) : ListAt(s, 0) => Forward = s /\ WellLinked

\* It is the list, in every state.
LEMMA Met == MeetsList /\ MeetsList'
<1>1. MeetsList
  BY ListMet DEF MeetsList
<1>2. QED BY <1>1, PTL

\* Every step of a user of a locked list is a step of Fifo, or of none.
LEMMA LockedKeeps ==
    ASSUME LockedInv, [Next]_vars, users = "locked"
    PROVE  LockedInv' /\ [Queue!Next]_(IF users = "locked" THEN Forward ELSE <<>>)
<1>1. PICK s \in Seq(Nodes) : ListAt(s, 0)
  BY DEF LockedInv
<1>2. Forward = s
  BY <1>1, Met DEF MeetsList
<1>3. \A r \in Seq(Nodes) : ListAt(r, 0)' => Forward' = r
  BY Met DEF MeetsList
<1>4. CASE LockedUsers
  <2>1. users' = "locked"
    BY <1>4 DEF LockedUsers
  <2>2. PICK r \in Seq(Nodes) :
              /\ ListAt(r, 0)'
              /\ \/ \E x \in Nodes : ~In(x, s) /\ r = Append(s, x)
                 \/ \E x \in Nodes : In(x, s) /\ r = Erase(s, x)
                 \/ s # <<>> /\ r = Tail(s)
    BY <1>1, <1>4, LockedStep DEF LockedUsers
  <2>3. LockedInv'
    BY <2>2 DEF LockedInv
  <2>4. Forward' = r
    BY <1>3, <2>2
  <2>5. Queue!Next
    BY <1>2, <2>1, <2>2, <2>4 DEF Queue!Next, Queue!PushBack, Queue!EraseNode, Queue!PopFront, Queue!In, Queue!Erase, In, Erase
  <2>6. QED BY <2>3, <2>5
<1>5. CASE UNCHANGED vars
  <2>1. UNCHANGED <<pNext, pPrev, size, linked, users>>
    BY <1>5 DEF vars, listVars
  <2>2. ListAt(s, 0)'
    BY <1>1, <2>1 DEF ListAt, Pointers, Holds, Forwards, Backwards
  <2>3. LockedInv'
    BY <2>2 DEF LockedInv
  <2>4. Forward' = Forward
    BY <1>2, <1>3, <2>2
  <2>5. QED BY <2>1, <2>3, <2>4
<1>6. QED BY <1>4, <1>5 DEF Next, LockFreeUsers, ChildUsers

-----------------------------------------------------------------------------
(* A producer and a consumer. *)

Item == IF Taken THEN ptr ELSE Dummy
Phase == IF ~Taken THEN "idle" ELSE IF cpc = "head" /\ nxt = Dummy THEN "link" ELSE "taken"
Cut == IF cpc = "head" THEN FALSE
       ELSE IF cpc = "relink" THEN nxt = Dummy /\ dnext # ptr
       ELSE users = "lockfree" /\ pNext[Dummy] = Dummy /\ Waiting # <<>>

\* The cells of the nodes that wait.
CellsAt(w) ==
    /\ Len(w) \in Nat /\ Distinct(w) /\ (w = <<>> <=> Len(w) = 0)
    /\ \A i \in 1 .. Len(w) : Cell(w, i) = w[i] /\ w[i] \in Nodes /\ w[i] \in Cells /\ w[i] # Dummy
    /\ Cell(w, 0) = Dummy /\ Cell(w, Len(w) + 1) = Dummy
    /\ \A i, j \in 1 .. Len(w) : w[i] = w[j] => i = j

\* Where the producer's and the consumer's nodes are not.
Apart(w) ==
    /\ ~Taken => queue = w
    /\ Taken => /\ queue # <<>> /\ w = Tail(queue) /\ Len(queue) = Len(w) + 1
                /\ ptr = Head(queue) /\ ptr \in Nodes /\ ptr \in Cells /\ ptr # Dummy
                /\ \A i \in 1 .. Len(w) : w[i] # ptr
    /\ cpc \in {"next", "cas"} => Len(w) >= 1 /\ ptr = w[1]
    /\ ppc # "idle" => /\ pNode \in Nodes /\ pNode \in Cells /\ pNode # Dummy
                       /\ \A i \in 1 .. Len(w) : w[i] # pNode
                       /\ Taken => pNode # ptr
    /\ \A y : In(y, queue) <=> In(y, w) \/ (Taken /\ y = ptr)

\* The cells of nodes.
LEMMA CellsAtAny == ASSUME NEW w \in Seq(Nodes), Distinct(w) PROVE CellsAt(w)
<1>1. w = <<>> <=> Len(w) = 0
  BY EmptySeq
<1>2. Len(w) \in Nat /\ \A i \in 1 .. Len(w) : w[i] \in Nodes
  BY LenProperties, ElementOfSeq
<1>3. \A i \in 1 .. Len(w) : w[i] \in Cells
  BY <1>2 DEF Cells
<1>4. QED BY <1>1, <1>2, <1>3, CellsOf DEF CellsAt, Distinct

\* While a node is taken the others are the tail of the queue.
LEMMA QueueParted ==
    ASSUME NEW w \in Seq(Nodes), LockFreeAt(w)
    PROVE  CellsAt(w) /\ Apart(w)
<1>1. queue \in Seq(Nodes) /\ Distinct(queue)
  BY DEF LockFreeAt, LockFreeType
<1>2. CASE ~Taken
  <2>1. w = queue
    BY <1>2 DEF LockFreeAt, Waiting
  <2>2. CellsAt(w)
    BY <1>1, <2>1, CellsAtAny
  <2>3. cpc # "idle" => Len(w) >= 1 /\ ptr = w[1]
    BY <1>1, <2>1, ErasedFirst DEF LockFreeAt, Popping
  <2>4. ppc # "idle" => pNode \in Nodes /\ \A i \in 1 .. Len(w) : w[i] # pNode
    BY <2>1 DEF LockFreeAt, Pushing, In
  <2>5. QED BY <1>2, <2>1, <2>2, <2>3, <2>4, DummyAssumption DEF Apart, Cells
<1>3. CASE Taken
  <2>1. w = Tail(queue) /\ queue # <<>> /\ ptr = Head(queue)
    BY <1>3 DEF LockFreeAt, Waiting, Popping, Taken
  <2>2. /\ ptr \in Nodes /\ In(ptr, queue) /\ ~In(ptr, w) /\ Distinct(w)
        /\ \A y : In(y, w) => In(y, queue)
        /\ \A y : In(y, queue) => y = ptr \/ In(y, w)
    BY <1>1, <2>1, PopFrontLemma
  <2>3. Len(queue) = Len(w) + 1
    <3>1. Len(queue) \in Nat /\ Len(Tail(queue)) = Len(queue) - 1
      BY <1>1, <2>1, HeadTailProperties, LenProperties
    <3>2. QED BY <2>1, <3>1
  <2>4. CellsAt(w)
    BY <2>2, CellsAtAny
  <2>5. \A i \in 1 .. Len(w) : w[i] # ptr
    BY <2>2 DEF In
  <2>6. ppc # "idle" => pNode \in Nodes /\ pNode # ptr /\ \A i \in 1 .. Len(w) : w[i] # pNode
    <3>1. ppc # "idle" => pNode \in Nodes /\ ~In(pNode, queue)
      BY DEF LockFreeAt, Pushing
    <3>2. ppc # "idle" => pNode # ptr /\ ~In(pNode, w)
      BY <2>2, <3>1
    <3>3. QED BY <3>1, <3>2 DEF In
  <2>7. cpc \notin {"next", "cas"}
    BY <1>3 DEF Taken
  <2>8. ptr # Dummy /\ ptr \in Cells /\ (ppc # "idle" => pNode # Dummy /\ pNode \in Cells)
    BY <2>2, <2>6, DummyAssumption DEF Cells
  <2>9. \A y : In(y, queue) <=> In(y, w) \/ (Taken /\ y = ptr)
    BY <1>3, <2>2
  <2>10. QED BY <1>3, <2>1, <2>2, <2>3, <2>4, <2>5, <2>6, <2>7, <2>8, <2>9 DEF Apart
<1>4. QED BY <1>2, <1>3

\* The producer's steps before its CAS change nothing that the consumer looks at.
LEMMA PushBeginKeeps ==
    ASSUME NEW w \in Seq(Nodes), LockFreeAt(w), NEW x \in Nodes, PushBegin(x),
           UNCHANGED <<users, linked, eraser>>
    PROVE  LockFreeAt(w)' /\ UNCHANGED <<Waiting, Item, Phase, Cut>>
<1>1. CellsAt(w) /\ Apart(w)
  BY QueueParted
<1>2. /\ Pointers /\ LockFreeType /\ Pushing(w) /\ Chained(w) /\ Popping(w) /\ HeadLeads(w) /\ Counted
      /\ users = "lockfree" /\ w = Waiting
  BY DEF LockFreeAt, LockFreeType
<1>3. x \in Cells /\ x # Dummy /\ Dummy \in Cells
  BY DummyAssumption DEF Cells
<1>4. ~In(x, queue) /\ \A i \in 1 .. Len(w) : w[i] # x
  BY <1>1 DEF PushBegin, Apart, In
<1>5. \A c \in Cells : pNext'[c] = IF c = x THEN Dummy ELSE pNext[c]
  BY <1>2, <1>3 DEF PushBegin, Pointers
<1>6. pNext'[Dummy] = pNext[Dummy]
  BY <1>3, <1>5
<1>7. UNCHANGED <<Waiting, Item, Phase, Cut>>
  BY <1>6 DEF PushBegin, consumer, Waiting, Item, Phase, Cut, Taken
<1>8. LockFreeType'
  BY <1>2, <1>3 DEF PushBegin, LockFreeType, Pointers, consumer
<1>9. Pushing(w)'
  BY <1>1, <1>2, <1>3, <1>4, <1>5 DEF PushBegin, Pushing
<1>10. Chained(w)'
  BY <1>1, <1>2, <1>4, <1>5 DEF PushBegin, Chained, CellsAt
<1>11. Popping(w)' /\ HeadLeads(w)' /\ Counted'
  <2>1. Len(queue) \in Nat
    BY <1>2, LenProperties DEF LockFreeType
  <2>2. Popping(w)'
    BY <1>2 DEF PushBegin, Popping, consumer
  <2>3. HeadLeads(w)'
    BY <1>2, <1>6 DEF PushBegin, HeadLeads, consumer
  <2>4. Counted'
    BY <1>2, <2>1 DEF PushBegin, Counted
  <2>5. QED BY <2>2, <2>3, <2>4
<1>12. QED BY <1>2, <1>7, <1>8, <1>9, <1>10, <1>11 DEF LockFreeAt

\* It reads the tail into its node.
LEMMA PushReadKeeps ==
    ASSUME NEW w \in Seq(Nodes), LockFreeAt(w), PushRead, UNCHANGED <<users, linked, eraser>>
    PROVE  LockFreeAt(w)' /\ UNCHANGED <<Waiting, Item, Phase, Cut>>
<1>1. CellsAt(w) /\ Apart(w)
  BY QueueParted
<1>2. /\ Pointers /\ LockFreeType /\ Pushing(w) /\ Chained(w) /\ Popping(w) /\ HeadLeads(w) /\ Counted
      /\ users = "lockfree" /\ w = Waiting
  BY DEF LockFreeAt, LockFreeType
<1>3. /\ pNode \in Cells /\ pNode # Dummy /\ Dummy \in Cells
      /\ \A i \in 1 .. Len(w) : w[i] # pNode
  BY <1>1 DEF PushRead, Apart, Cells
<1>4. \A c \in Cells : pPrev'[c] = IF c = pNode THEN pPrev[Dummy] ELSE pPrev[c]
  BY <1>2, <1>3 DEF PushRead, Pointers
<1>5. UNCHANGED <<Waiting, Item, Phase, Cut>>
  BY DEF PushRead, consumer, Waiting, Item, Phase, Cut, Taken
<1>6. LockFreeType'
  BY <1>2, <1>3 DEF PushRead, LockFreeType, Pointers, consumer
<1>7. Pushing(w)'
  BY <1>1, <1>2, <1>3, <1>4 DEF PushRead, Pushing
<1>8. Chained(w)'
  <2>1. \A i \in 2 .. Len(w) : i \in 1 .. Len(w)
    BY <1>1 DEF CellsAt
  <2>2. QED BY <1>1, <1>2, <1>3, <1>4, <2>1 DEF PushRead, Chained, CellsAt
<1>9. Popping(w)' /\ HeadLeads(w)' /\ Counted'
  BY <1>2 DEF PushRead, Popping, HeadLeads, Counted, consumer
<1>10. QED BY <1>2, <1>5, <1>6, <1>7, <1>8, <1>9 DEF LockFreeAt

\* It makes its node the tail, unless the tail has changed.
LEMMA PushCasKeeps ==
    ASSUME NEW w \in Seq(Nodes), LockFreeAt(w), PushCas, UNCHANGED <<users, linked, eraser>>
    PROVE  LockFreeAt(w)' /\ UNCHANGED <<Waiting, Item, Phase, Cut>>
<1>1. CellsAt(w) /\ Apart(w)
  BY QueueParted
<1>2. /\ Pointers /\ LockFreeType /\ Pushing(w) /\ Chained(w) /\ Popping(w) /\ HeadLeads(w) /\ Counted
      /\ users = "lockfree" /\ w = Waiting
  BY DEF LockFreeAt, LockFreeType
<1>3. /\ pNode \in Cells /\ pNode # Dummy /\ Dummy \in Cells
  BY <1>1 DEF PushCas, Apart, Cells
<1>4. \A c \in Cells : c # Dummy => pPrev'[c] = pPrev[c]
  BY <1>2, <1>3 DEF PushCas, Pointers
<1>5. UNCHANGED <<Waiting, Item, Phase, Cut>>
  BY DEF PushCas, consumer, Waiting, Item, Phase, Cut, Taken
<1>6. LockFreeType'
  BY <1>2, <1>3 DEF PushCas, LockFreeType, Pointers, consumer
<1>7. Pushing(w)'
  BY <1>1, <1>2, <1>3, <1>4 DEF PushCas, Pushing, Pointers
<1>8. Chained(w)'
  <2>1. \A i \in 2 .. Len(w) : i \in 1 .. Len(w)
    BY <1>1 DEF CellsAt
  <2>2. QED BY <1>1, <1>2, <1>4, <2>1 DEF PushCas, Chained, CellsAt
<1>9. Popping(w)' /\ HeadLeads(w)' /\ Counted'
  BY <1>2 DEF PushCas, Popping, HeadLeads, Counted, consumer
<1>10. QED BY <1>2, <1>5, <1>6, <1>7, <1>8, <1>9 DEF LockFreeAt

\* It is on the queue when the node before leads to it.
LEMMA PushLinkKeeps ==
    ASSUME NEW w \in Seq(Nodes), LockFreeAt(w), PushLink, UNCHANGED <<users, linked, eraser>>
    PROVE  /\ \E v \in Seq(Nodes) : LockFreeAt(v)'
           /\ Waiting' = Append(Waiting, pNode)
           /\ ~In(pNode, Waiting) /\ pNode # Item /\ pNode \in Nodes
           /\ UNCHANGED <<Item, Phase, Cut>>
<1>1. CellsAt(w) /\ Apart(w)
  BY QueueParted
<1>2. /\ Pointers /\ LockFreeType /\ Pushing(w) /\ Chained(w) /\ Popping(w) /\ HeadLeads(w) /\ Counted
      /\ users = "lockfree" /\ w = Waiting
  BY DEF LockFreeAt, LockFreeType
<1>3. /\ pNode \in Nodes /\ pNode \in Cells /\ pNode # Dummy /\ Dummy \in Cells
      /\ \A i \in 1 .. Len(w) : w[i] # pNode
      /\ ~In(pNode, queue)
  BY <1>1, <1>2 DEF PushLink, Apart, Cells, Pushing
<1>4. queue \in Seq(Nodes) /\ Distinct(queue) /\ Len(queue) \in Nat /\ Len(w) \in Nat
  BY <1>1, <1>2, LenProperties DEF LockFreeType, CellsAt
<1>a. PICK p \in Nodes : p = pNode
  BY <1>3
<1> DEFINE n == Len(w)
           v == Append(w, p)
           q == Append(queue, p)
<1>5. /\ q \in Seq(Nodes) /\ Distinct(q) /\ Len(q) = Len(queue) + 1 /\ queue' = q
      /\ queue # <<>> => Head(q) = Head(queue)
  <2>1. \A i \in 1 .. Len(queue) : q[i] = queue[i]
    OBVIOUS
  <2>2. queue # <<>> => Len(queue) >= 1
    BY <1>4, EmptySeq
  <2>3. queue # <<>> => Head(q) = Head(queue)
    BY <1>4, <2>1, <2>2
  <2>4. QED BY <1>3, <1>4, <1>a, <2>3, CellsAppended DEF PushLink
<1>6. ~In(p, w)
  BY <1>3, <1>a DEF In
<1>7. /\ v \in Seq(Nodes) /\ Distinct(v) /\ Len(v) = n + 1
      /\ \A i \in Int : Cell(v, i) = IF i = n + 1 THEN p ELSE Cell(w, i)
      /\ \A i \in 1 .. n : v[i] = w[i]
      /\ v[n + 1] = p
  BY <1>1, <1>6, CellsAppended, AppendProperties DEF CellsAt
<1>8. Waiting' = v
  <2>1. CASE Taken
    <3>1. w = Tail(queue) /\ queue # <<>> /\ Taken'
      BY <1>1, <2>1 DEF Apart, PushLink, consumer, Taken
    <3>2. Tail(q) = Append(Tail(queue), p)
      BY <1>4, <3>1
    <3>3. QED BY <1>5, <3>1, <3>2 DEF Waiting
  <2>2. CASE ~Taken
    <3>1. w = queue /\ ~Taken'
      BY <1>1, <2>2 DEF Apart, PushLink, consumer, Taken
    <3>2. QED BY <1>5, <3>1 DEF Waiting
  <2>3. QED BY <2>1, <2>2
<1> HIDE DEF v, q
<1>9. tail = Cell(w, n) /\ tail \in Cells
  BY <1>2 DEF PushLink, Pushing, Last, LockFreeType
<1> HIDE DEF n
<1>10. \A c \in Cells : pNext'[c] = IF c = tail THEN p ELSE pNext[c]
  BY <1>2, <1>9, <1>a DEF PushLink, Pointers
<1>11. n = 0 <=> tail = Dummy
  BY <1>1, <1>9 DEF CellsAt, n
<1>12. pNext'[Dummy] = IF n = 0 THEN p ELSE pNext[Dummy]
  BY <1>3, <1>10, <1>11
<1>13. /\ Item' = Item /\ Phase' = Phase
  BY DEF PushLink, consumer, Item, Phase, Taken
<1>14. Cell(v, 1) = IF n = 0 THEN p ELSE Cell(w, 1)
  BY <1>4, <1>7 DEF n
<1>15. LockFreeType'
  BY <1>2, <1>5, <1>9, <1>a DEF PushLink, LockFreeType, Pointers, consumer
<1>16. Pushing(v)'
  BY <1>2, <1>4, <1>7, <1>a DEF PushLink, Pushing, Last, n
<1>17. Chained(v)'
  <2>1. ASSUME NEW i \in 1 .. n + 1 PROVE pNext'[v[i]] = Cell(v, i + 1)
    <3>1. CASE i < n
      <4>1. i \in 1 .. n /\ n \in 1 .. n /\ i # n /\ i + 1 # n + 1 /\ i + 1 \in Int
        BY <1>4, <3>1 DEF n
      <4>2. w[i] # tail /\ w[i] \in Cells /\ v[i] = w[i]
        BY <1>1, <1>7, <1>9, <4>1 DEF CellsAt, n
      <4>3. pNext[w[i]] = Cell(w, i + 1)
        BY <1>2, <4>1 DEF Chained, n
      <4>4. QED BY <1>7, <1>10, <4>1, <4>2, <4>3
    <3>2. CASE i = n
      <4>1. i \in 1 .. n /\ i + 1 = n + 1 /\ n + 1 \in Int
        BY <1>4, <3>2 DEF n
      <4>2. v[i] = tail
        BY <1>1, <1>7, <1>9, <3>2, <4>1 DEF CellsAt, n
      <4>3. QED BY <1>7, <1>9, <1>10, <4>1, <4>2
    <3>3. CASE i = n + 1
      <4>1. pNode # tail
        <5>1. CASE n = 0
          BY <1>3, <1>11, <5>1
        <5>2. CASE n # 0
          <6>1. n \in 1 .. n
            BY <1>4, <5>2 DEF n
          <6>2. QED BY <1>1, <1>3, <1>9, <6>1 DEF CellsAt, n
        <5>3. QED BY <5>1, <5>2
      <4>2. pNext'[p] = Dummy
        BY <1>2, <1>3, <1>10, <1>a, <4>1 DEF Pushing, PushLink
      <4>3. Cell(v, n + 2) = Dummy
        <5>1. ~(n + 2 \in 1 .. n + 1)
          BY <1>4 DEF n
        <5>2. QED BY <1>7, <5>1 DEF Cell
      <4>4. n + 1 + 1 = n + 2
        BY <1>4 DEF n
      <4>5. QED BY <1>7, <3>3, <4>2, <4>3, <4>4
    <3>4. QED BY <1>4, <3>1, <3>2, <3>3 DEF n
  <2>2. ASSUME NEW i \in 2 .. n + 1 PROVE pPrev'[v[i]] = v[i - 1]
    <3>1. pPrev' = pPrev /\ i - 1 \in 1 .. n
      BY <1>4 DEF PushLink, n
    <3>2. CASE i \in 2 .. n
      <4>1. pPrev[w[i]] = w[i - 1] /\ i \in 1 .. n
        BY <1>2, <1>4, <3>2 DEF Chained, n
      <4>2. QED BY <1>7, <3>1, <4>1
    <3>3. CASE i = n + 1
      <4>1. pPrev[pNode] = tail
        BY <1>2 DEF PushLink, Pushing
      <4>2. i - 1 = n /\ n \in 1 .. n
        BY <1>4, <3>1, <3>3 DEF n
      <4>3. v[i - 1] = tail
        BY <1>1, <1>7, <1>9, <4>2 DEF CellsAt, n
      <4>4. QED BY <1>7, <1>a, <3>1, <3>3, <4>1, <4>3
    <3>4. QED BY <1>4, <3>2, <3>3 DEF n
  <2>3. QED BY <1>7, <2>1, <2>2 DEF Chained
<1>18. Popping(v)'
  <2>1. cpc # "idle" => queue' # <<>> /\ ptr = Head(queue')
    BY <1>2, <1>4, <1>5, EmptySeq DEF Popping
  <2>2. cpc = "cas" /\ nxt # Dummy => nxt = Cell(v, 2)
    <3>1. Cell(w, 2) # Dummy => 2 # n + 1
      BY <1>1 DEF CellsAt, n
    <3>2. QED BY <1>2, <1>7, <3>1 DEF Popping
  <2>3. cpc \in {"head", "relink"} /\ nxt # Dummy => nxt = Cell(v, 1)
    <3>1. Cell(w, 1) # Dummy => 1 # n + 1
      BY <1>1 DEF CellsAt, n
    <3>2. QED BY <1>2, <1>7, <3>1 DEF Popping
  <2>4. QED BY <2>1, <2>2, <2>3 DEF Popping, PushLink, consumer
<1>19. nxt # Dummy /\ cpc \in {"head", "relink"} => n # 0
  <2>1. n = 0 => Cell(w, 1) = Dummy
    BY <1>1 DEF CellsAt, n
  <2>2. QED BY <1>2, <2>1 DEF Popping
<1>20. HeadLeads(v)'
  <2>1. cpc \in {"next", "cas"} => n # 0
    BY <1>1 DEF Apart, n
  <2>2. Len(v) # 0 /\ (Len(w) = 0 <=> n = 0)
    BY <1>4, <1>7 DEF n
  <2>3. cpc' = cpc /\ ptr' = ptr /\ nxt' = nxt /\ dnext' = dnext
    BY DEF PushLink, consumer
  <2>4. QED BY <1>2, <1>12, <1>14, <1>19, <2>1, <2>2, <2>3 DEF HeadLeads
<1>21. Counted'
  BY <1>2, <1>4, <1>5 DEF PushLink, Counted
<1>22. Cut' = Cut
  <2>1. cpc \in {"next", "cas"} => pNext[Dummy] # Dummy /\ n # 0
    <3>1. cpc \in {"next", "cas"} => 1 \in 1 .. Len(w)
      BY <1>1, <1>4 DEF Apart
    <3>2. QED BY <1>1, <1>2, <3>1 DEF HeadLeads, Apart, CellsAt, n
  <2>2. (Waiting # <<>> <=> n # 0) /\ Waiting' # <<>>
    BY <1>1, <1>2, <1>4, <1>7, <1>8, EmptySeq DEF CellsAt, n
  <2>3. cpc' = cpc /\ ptr' = ptr /\ nxt' = nxt /\ dnext' = dnext /\ users' = users
    BY DEF PushLink, consumer
  <2>4. p # Dummy
    BY <1>3, <1>a
  <2>5. QED BY <1>12, <2>2, <2>3, <2>4 DEF Cut
<1>23. pNode # Item
  BY <1>1, <1>3 DEF PushLink, Apart, Item
<1>24. LockFreeAt(v)'
  BY <1>2, <1>8, <1>15, <1>16, <1>17, <1>18, <1>20, <1>21 DEF LockFreeAt
<1>25. \E u \in Seq(Nodes) : LockFreeAt(u)'
  BY <1>7, <1>24
<1>26. QED BY <1>2, <1>3, <1>6, <1>8, <1>13, <1>22, <1>23, <1>25, <1>a DEF v

\* The consumer finds a node, and the node after it.
LEMMA PopHeadKeeps ==
    ASSUME NEW w \in Seq(Nodes), LockFreeAt(w), PopHead \/ PopNext, UNCHANGED <<users, linked, eraser>>
    PROVE  LockFreeAt(w)' /\ UNCHANGED <<Waiting, Item, Phase, Cut>>
<1>1. CellsAt(w) /\ Apart(w)
  BY QueueParted
<1>2. /\ Pointers /\ LockFreeType /\ Pushing(w) /\ Chained(w) /\ Popping(w) /\ HeadLeads(w) /\ Counted
      /\ users = "lockfree" /\ w = Waiting
  BY DEF LockFreeAt, LockFreeType
<1>3. /\ UNCHANGED <<pNext, pPrev, size, ppc, pNode, tail, queue, users, dnext>>
      /\ cpc \in {"idle", "next"} /\ cpc' \in {"next", "cas"} /\ ~Taken
  BY DEF PopHead, PopNext, listVars, producer, Taken
<1>4. UNCHANGED <<Waiting, Item, Phase, Cut>>
  BY <1>3 DEF Waiting, Item, Phase, Cut, Taken
<1>5. w = queue /\ queue \in Seq(Nodes) /\ Len(w) \in Nat
  BY <1>1, <1>2, <1>3 DEF Apart, CellsAt, LockFreeType
<1>6. Pushing(w)' /\ Chained(w)' /\ Counted'
  BY <1>2, <1>3 DEF Pushing, Chained, Counted
<1>7. LockFreeType'
  <2>1. pNext[Dummy] \in Cells /\ pNext[ptr] \in Cells
    BY <1>2 DEF LockFreeType, Pointers, Cells
  <2>2. QED BY <1>2, <1>3, <2>1 DEF PopHead, PopNext, LockFreeType, Pointers
<1>8. CASE PopHead
  <2>1. pNext[Dummy] = Cell(w, 1) /\ pNext[Dummy] # Dummy /\ cpc = "idle" /\ cpc' = "next" /\ ptr' = pNext[Dummy] /\ nxt' = nxt
    BY <1>2, <1>8 DEF HeadLeads, PopHead
  <2>2. Len(w) # 0
    BY <1>1, <2>1 DEF CellsAt
  <2>3. 1 \in 1 .. Len(w)
    BY <1>5, <2>2
  <2>4. queue # <<>> /\ ptr' = w[1]
    BY <1>1, <1>5, <2>1, <2>2, <2>3 DEF CellsAt
  <2>5. ptr' = Head(queue)
    BY <1>1, <1>5, <2>4, ErasedFirst DEF CellsAt
  <2>6. Popping(w)' /\ HeadLeads(w)'
    BY <1>3, <2>1, <2>4, <2>5 DEF Popping, HeadLeads
  <2>7. QED BY <1>2, <1>3, <1>4, <1>6, <1>7, <2>6 DEF LockFreeAt
<1>9. CASE PopNext
  <2>1. cpc = "next" /\ cpc' = "cas" /\ ptr' = ptr /\ nxt' = pNext[ptr] /\ 1 \in 1 .. Len(w) /\ ptr = w[1]
    BY <1>1, <1>5, <1>9 DEF Apart, PopNext
  <2>2. nxt' = Cell(w, 1 + 1)
    BY <1>2, <2>1 DEF Chained
  <2>3. Popping(w)' /\ HeadLeads(w)'
    BY <1>2, <1>3, <2>1, <2>2 DEF Popping, HeadLeads
  <2>4. QED BY <1>2, <1>3, <1>4, <1>6, <1>7, <2>3 DEF LockFreeAt
<1>10. QED BY <1>8, <1>9

\* It has lost the node after it to an erase, and looks again.
LEMMA PopLosesKeeps ==
    ASSUME NEW w \in Seq(Nodes), LockFreeAt(w), PopCas, pPrev[nxt] # ptr, UNCHANGED <<users, linked, eraser>>
    PROVE  LockFreeAt(w)' /\ UNCHANGED <<Waiting, Item, Phase, Cut>>
<1>1. /\ UNCHANGED <<pNext, pPrev, size, ppc, pNode, tail, queue, users, ptr, nxt, dnext>>
      /\ cpc = "cas" /\ cpc' = "next" /\ ~Taken
  BY DEF PopCas, producer, Taken
<1>2. UNCHANGED <<Waiting, Item, Phase, Cut>>
  BY <1>1 DEF Waiting, Item, Phase, Cut, Taken
<1>3. QED BY <1>1, <1>2 DEF LockFreeAt, LockFreeType, Pointers, Pushing, Chained, Popping, HeadLeads, Counted

\* It takes the node, if the node after it is still there.
LEMMA PopTakesKeeps ==
    ASSUME NEW w \in Seq(Nodes), LockFreeAt(w), PopCas, pPrev[nxt] = ptr, UNCHANGED <<users, linked, eraser>>
    PROVE  /\ \E v \in Seq(Nodes) : LockFreeAt(v)'
           /\ Waiting # <<>> /\ Waiting' = Tail(Waiting)
           /\ Phase = "idle" /\ Phase' = IF Tail(Waiting) = <<>> THEN "link" ELSE "taken"
           /\ Item' = Head(Waiting)
           /\ Cut = FALSE /\ Cut' = FALSE
<1>1. CellsAt(w) /\ Apart(w)
  BY QueueParted
<1>2. /\ Pointers /\ LockFreeType /\ Pushing(w) /\ Chained(w) /\ Popping(w) /\ HeadLeads(w) /\ Counted
      /\ users = "lockfree" /\ w = Waiting
  BY DEF LockFreeAt, LockFreeType
<1>3. /\ UNCHANGED <<pNext, size, ppc, pNode, tail, queue, users, ptr, nxt, dnext>>
      /\ cpc = "cas" /\ cpc' = "head" /\ ~Taken /\ Taken'
      /\ pPrev' = [pPrev EXCEPT ![nxt] = Dummy]
  BY <1>2 DEF PopCas, producer, Taken
<1>4. /\ w = queue /\ Len(w) \in Nat /\ 1 \in 1 .. Len(w) /\ ptr = w[1] /\ w # <<>> /\ Head(w) = w[1]
      /\ ptr \in Nodes /\ ptr \in Cells /\ ptr # Dummy
  <2>1. w = queue /\ Len(w) \in Nat /\ 1 \in 1 .. Len(w) /\ ptr = w[1]
    BY <1>1, <1>3 DEF Apart, CellsAt
  <2>2. QED BY <1>1, <2>1, ErasedFirst DEF CellsAt
<1>a. PICK v \in Seq(Nodes) : v = Tail(w)
  BY <1>4, HeadTailProperties
<1>5. /\ Len(v) = Len(w) - 1 /\ \A i \in 1 .. Len(w) - 1 : v[i] = w[i + 1]
      /\ Distinct(v)
  BY <1>1, <1>4, <1>a, HeadTailProperties, PopFrontLemma DEF CellsAt
<1>6. CellsAt(v)
  BY <1>5, CellsAtAny
<1>7. Waiting' = v /\ Item' = ptr
  BY <1>3, <1>4, <1>a DEF Waiting, Item
<1> DEFINE n == Len(w)
<1>b. n \in Nat /\ n >= 1 /\ Len(v) = n - 1
  BY <1>4, <1>5
<1> HIDE DEF n
<1>8. /\ \A i \in 1 .. n - 1 : Cell(v, i) = w[i + 1] /\ v[i] = w[i + 1] /\ i + 1 \in 1 .. n
      /\ Cell(v, n) = Dummy
      /\ \A i \in 1 .. n : Cell(v, i) = Cell(w, i + 1)
  <2>1. \A i \in 1 .. n - 1 : Cell(v, i) = w[i + 1] /\ v[i] = w[i + 1] /\ i + 1 \in 1 .. n
    BY <1>5, <1>6, <1>b DEF CellsAt, n
  <2>2. Cell(v, n) = Dummy /\ Cell(w, n + 1) = Dummy
    <3>1. Len(v) + 1 = n
      BY <1>b
    <3>2. QED BY <1>1, <1>6, <3>1 DEF CellsAt, n
  <2>3. \A i \in 1 .. n - 1 : Cell(w, i + 1) = w[i + 1]
    BY <1>1, <2>1 DEF CellsAt, n
  <2>4. QED BY <1>b, <2>1, <2>2, <2>3
<1>9. nxt = Dummy <=> n = 1
  <2>1. ASSUME nxt = Dummy PROVE n = 1
    <3>1. pPrev[Dummy] = ptr
      BY <2>1
    <3>2. ppc # "link"
      <4>1. ppc = "link" => pNode = ptr /\ ~In(pNode, queue)
        BY <1>2, <3>1 DEF Pushing
      <4>2. In(ptr, queue)
        BY <1>4 DEF In
      <4>3. QED BY <4>1, <4>2
    <3>3. Cell(w, n) = ptr /\ n \in 1 .. n
      BY <1>2, <1>b, <3>1, <3>2 DEF Pushing, Last, n
    <3>4. w[n] = w[1]
      BY <1>1, <1>4, <3>3 DEF CellsAt, n
    <3>5. QED BY <1>1, <1>4, <3>3, <3>4 DEF CellsAt, n
  <2>2. ASSUME nxt # Dummy PROVE n # 1
    <3>1. nxt = Cell(w, 2) /\ Cell(w, n + 1) = Dummy
      BY <1>1, <1>2, <1>3, <2>2 DEF Popping, CellsAt, n
    <3>2. QED BY <2>2, <3>1
  <2>3. QED BY <2>1, <2>2
<1>10. nxt # Dummy => 2 \in 1 .. n /\ nxt = w[2] /\ nxt \in Cells
  <2>1. nxt # Dummy => 2 \in 1 .. n /\ nxt = Cell(w, 2)
    BY <1>2, <1>3, <1>9, <1>b DEF Popping
  <2>2. QED BY <1>1, <2>1 DEF CellsAt, n
<1>11. nxt \in Cells /\ Dummy \in Cells
  BY <1>10 DEF Cells
<1>12. \A c \in Cells : pPrev'[c] = IF c = nxt THEN Dummy ELSE pPrev[c]
  BY <1>2, <1>3, <1>11 DEF Pointers
<1>13. LockFreeType'
  BY <1>2, <1>3, <1>11 DEF LockFreeType, Pointers
<1>14. Last(v) = IF n = 1 THEN Dummy ELSE Last(w)
  <2>1. n = 1 => Cell(v, n - 1) = Dummy
    BY <1>6, <1>b DEF CellsAt
  <2>2. n # 1 => Cell(v, n - 1) = Cell(w, n - 1 + 1)
    BY <1>8, <1>b
  <2>3. n - 1 + 1 = n
    BY <1>b
  <2>4. QED BY <1>b, <2>1, <2>2, <2>3 DEF Last, n
<1>15. Pushing(v)'
  <2>1. ppc # "idle" => pNode \in Nodes /\ pNode \in Cells /\ pNode # nxt /\ pNode # Dummy
    BY <1>1, <1>10 DEF Apart, n
  <2>2. nxt = Dummy => ppc # "link"
    <3>1. nxt = Dummy /\ ppc = "link" => pNode = ptr
      BY <1>2 DEF Pushing
    <3>2. ppc = "link" => pNode # ptr
      BY <1>1, <1>4 DEF Apart
    <3>3. QED BY <3>1, <3>2
  <2>3. ppc' = ppc /\ pNode' = pNode /\ tail' = tail /\ queue' = queue /\ pNext' = pNext
    BY <1>3
  <2>4. /\ ppc # "idle" => pNode \in Nodes /\ ~In(pNode, queue) /\ pNext[pNode] = Dummy
        /\ ppc \in {"cas", "link"} => pPrev'[pNode] = tail
    BY <1>2, <1>12, <2>1 DEF Pushing
  <2>5. ppc = "link" => tail = Last(v)
    BY <1>2, <1>9, <1>14, <2>2 DEF Pushing
  <2>6. pPrev'[Dummy] = IF ppc = "link" THEN pNode ELSE Last(v)
    BY <1>2, <1>9, <1>11, <1>12, <1>14, <2>2 DEF Pushing
  <2>7. QED BY <2>3, <2>4, <2>5, <2>6 DEF Pushing
<1>16. Chained(v)'
  <2>1. ASSUME NEW i \in 1 .. n - 1 PROVE pNext'[v[i]] = Cell(v, i + 1)
    <3>1. pNext[w[i + 1]] = Cell(w, i + 1 + 1) /\ v[i] = w[i + 1]
      BY <1>2, <1>8 DEF Chained, n
    <3>2. Cell(v, i + 1) = Cell(w, i + 1 + 1)
      BY <1>8
    <3>3. QED BY <1>3, <3>1, <3>2
  <2>2. ASSUME NEW i \in 2 .. n - 1 PROVE pPrev'[v[i]] = v[i - 1]
    <3>1. /\ i \in 1 .. n - 1 /\ i + 1 \in 2 .. n /\ i + 1 \in 1 .. n /\ i - 1 \in 1 .. n - 1
          /\ i - 1 + 1 = i /\ i + 1 - 1 = i /\ i + 1 # 2
      BY <1>b
    <3>2. v[i] = w[i + 1] /\ v[i - 1] = w[i] /\ pPrev[w[i + 1]] = w[i]
      <4>1. pPrev[w[i + 1]] = w[i + 1 - 1]
        BY <1>2, <3>1 DEF Chained, n
      <4>2. v[i - 1] = w[i - 1 + 1]
        BY <1>8, <3>1
      <4>3. QED BY <1>8, <3>1, <4>1, <4>2
    <3>3. w[i + 1] # nxt /\ w[i + 1] \in Cells
      BY <1>1, <1>10, <3>1 DEF CellsAt, n
    <3>4. QED BY <1>12, <3>2, <3>3
  <2>3. QED BY <1>b, <2>1, <2>2 DEF Chained
<1>17. Popping(v)'
  <2>1. nxt # Dummy => nxt = Cell(v, 1)
    <3>1. nxt # Dummy => 1 \in 1 .. n - 1 /\ nxt = w[1 + 1]
      BY <1>b, <1>10
    <3>2. QED BY <1>8, <3>1
  <2>2. QED BY <1>3, <1>4, <2>1 DEF Popping
<1>18. HeadLeads(v)'
  BY <1>2, <1>3, <1>9, <1>b DEF HeadLeads
<1>19. Counted'
  BY <1>2, <1>3 DEF Counted
<1>20. LockFreeAt(v)'
  BY <1>2, <1>3, <1>7, <1>13, <1>15, <1>16, <1>17, <1>18, <1>19 DEF LockFreeAt
<1>21. Phase = "idle" /\ Phase' = IF v = <<>> THEN "link" ELSE "taken"
  <2>1. v = <<>> <=> n = 1
    BY <1>6, <1>b DEF CellsAt
  <2>2. QED BY <1>3, <1>9, <2>1 DEF Phase
<1>22. Cut = FALSE /\ Cut' = FALSE
  BY <1>2, <1>3, <1>4 DEF Cut, HeadLeads
<1>23. Waiting = w /\ Waiting' = Tail(w) /\ Item' = Head(w)
  BY <1>2, <1>4, <1>7, <1>a
<1>24. QED BY <1>4, <1>20, <1>21, <1>22, <1>23, <1>a

\* It looks where the head leads; a push meanwhile has cut the queue if this was the
\* only node.
LEMMA PopReadHeadKeeps ==
    ASSUME NEW w \in Seq(Nodes), LockFreeAt(w), PopReadHead, UNCHANGED <<users, linked, eraser>>
    PROVE  /\ LockFreeAt(w)' /\ UNCHANGED <<Waiting, Item>>
           /\ IF nxt = Dummy
                THEN Phase = "link" /\ Phase' = "taken" /\ Cut' = (Waiting # <<>>)
                ELSE UNCHANGED <<Phase, Cut>>
<1>1. CellsAt(w) /\ Apart(w)
  BY QueueParted
<1>2. /\ Pointers /\ LockFreeType /\ Pushing(w) /\ Chained(w) /\ Popping(w) /\ HeadLeads(w) /\ Counted
      /\ users = "lockfree" /\ w = Waiting
  BY DEF LockFreeAt, LockFreeType
<1>3. /\ UNCHANGED <<pNext, pPrev, size, ppc, pNode, tail, queue, users, ptr, nxt>>
      /\ cpc = "head" /\ cpc' = "relink" /\ dnext' = pNext[Dummy] /\ Taken /\ Taken'
  BY <1>2 DEF PopReadHead, listVars, producer, Taken
<1>4. UNCHANGED <<Waiting, Item>>
  BY <1>3 DEF Waiting, Item
<1>5. LockFreeType'
  <2>1. pNext[Dummy] \in Cells
    BY <1>2 DEF Pointers, Cells
  <2>2. QED BY <1>2, <1>3, <2>1 DEF LockFreeType, Pointers
<1>6. Pushing(w)' /\ Chained(w)' /\ Popping(w)' /\ Counted'
  BY <1>2, <1>3 DEF Pushing, Chained, Popping, Counted
<1>7. Len(w) # 0 => Cell(w, 1) # ptr
  <2>1. Len(w) # 0 => 1 \in 1 .. Len(w)
    BY <1>1 DEF CellsAt
  <2>2. QED BY <1>1, <1>3, <2>1 DEF Apart, CellsAt
<1>8. dnext' = IF nxt # Dummy \/ Len(w) = 0 THEN ptr ELSE Cell(w, 1)
  BY <1>2, <1>3 DEF HeadLeads
<1>9. HeadLeads(w)'
  BY <1>2, <1>3, <1>7, <1>8 DEF HeadLeads
<1>10. IF nxt = Dummy
         THEN Phase = "link" /\ Phase' = "taken" /\ Cut' = (Waiting # <<>>)
         ELSE UNCHANGED <<Phase, Cut>>
  <2>1. CASE nxt = Dummy
    <3>1. Phase = "link" /\ Phase' = "taken"
      BY <1>3, <2>1 DEF Phase
    <3>2. Cut' = (dnext' # ptr)
      BY <1>3, <2>1 DEF Cut
    <3>3. dnext' # ptr <=> Waiting # <<>>
      BY <1>1, <1>2, <1>7, <1>8, <2>1 DEF CellsAt
    <3>4. QED BY <2>1, <3>1, <3>2, <3>3
  <2>2. CASE nxt # Dummy
    BY <1>3, <2>2 DEF Phase, Cut
  <2>3. QED BY <2>1, <2>2
<1>11. QED BY <1>2, <1>3, <1>4, <1>5, <1>6, <1>9, <1>10 DEF LockFreeAt

\* It leads the head to the next node, unless the head has come to lead elsewhere.
LEMMA PopRelinkKeeps ==
    ASSUME NEW w \in Seq(Nodes), LockFreeAt(w), PopRelink, UNCHANGED <<users, linked, eraser>>
    PROVE  LockFreeAt(w)' /\ UNCHANGED <<Waiting, Item, Phase, Cut>>
<1>1. CellsAt(w) /\ Apart(w)
  BY QueueParted
<1>2. /\ Pointers /\ LockFreeType /\ Pushing(w) /\ Chained(w) /\ Popping(w) /\ HeadLeads(w) /\ Counted
      /\ users = "lockfree" /\ w = Waiting
  BY DEF LockFreeAt, LockFreeType
<1>3. /\ UNCHANGED <<pPrev, size, ppc, pNode, tail, queue, users, ptr, nxt, dnext>>
      /\ cpc = "relink" /\ cpc' = "size" /\ Taken /\ Taken'
      /\ pNext' = IF pNext[Dummy] = dnext THEN [pNext EXCEPT ![Dummy] = nxt] ELSE pNext
  BY <1>2 DEF PopRelink, producer, Taken
<1>4. UNCHANGED <<Waiting, Item, Phase>>
  BY <1>3 DEF Waiting, Item, Phase
<1>5. nxt \in Cells /\ Dummy \in Cells
  BY <1>2 DEF LockFreeType, Cells
<1>6. \A c \in Cells : c # Dummy => pNext'[c] = pNext[c]
  BY <1>2, <1>3, <1>5 DEF Pointers
<1>7. pNext'[Dummy] = IF pNext[Dummy] = dnext THEN nxt ELSE pNext[Dummy]
  BY <1>2, <1>3, <1>5 DEF Pointers
<1>8. LockFreeType'
  BY <1>2, <1>3, <1>5 DEF LockFreeType, Pointers
<1>9. Pushing(w)' /\ Popping(w)' /\ Counted'
  <2>1. Pushing(w)'
    BY <1>1, <1>2, <1>3, <1>6 DEF Pushing, Apart
  <2>2. QED BY <1>2, <1>3, <2>1 DEF Popping, Counted
<1>10. Chained(w)'
  BY <1>1, <1>2, <1>3, <1>6 DEF Chained, CellsAt
<1>11. /\ nxt # Dummy => nxt = Cell(w, 1) /\ Cell(w, 1) # Dummy /\ Len(w) # 0
       /\ Len(w) # 0 => Cell(w, 1) # Dummy /\ Cell(w, 1) # ptr
       /\ ptr # Dummy
  <2>1. nxt # Dummy => nxt = Cell(w, 1)
    BY <1>2, <1>3 DEF Popping
  <2>2. Len(w) = 0 => Cell(w, 1) = Dummy
    BY <1>1 DEF CellsAt
  <2>3. Len(w) # 0 => 1 \in 1 .. Len(w)
    BY <1>1 DEF CellsAt
  <2>4. QED BY <1>1, <1>3, <2>1, <2>2, <2>3 DEF CellsAt, Apart
<1>12. HeadLeads(w)'
  BY <1>2, <1>3, <1>7, <1>11 DEF HeadLeads
<1>13. Cut' = Cut
  <2>1. Cut = (nxt = Dummy /\ dnext # ptr)
    BY <1>3 DEF Cut
  <2>2. Cut' = (pNext'[Dummy] = Dummy /\ Waiting # <<>>)
    BY <1>2, <1>3, <1>4 DEF Cut
  <2>3. Waiting # <<>> <=> Len(w) # 0
    BY <1>1, <1>2 DEF CellsAt
  <2>4. (nxt = Dummy /\ dnext # ptr) <=> (pNext'[Dummy] = Dummy /\ Len(w) # 0)
    BY <1>2, <1>3, <1>7, <1>11 DEF HeadLeads
  <2>5. QED BY <2>1, <2>2, <2>3, <2>4
<1>14. QED BY <1>2, <1>3, <1>4, <1>8, <1>9, <1>10, <1>12, <1>13 DEF LockFreeAt

\* It counts the node away.
LEMMA PopReturnKeeps ==
    ASSUME NEW w \in Seq(Nodes), LockFreeAt(w), PopReturn, UNCHANGED <<users, linked, eraser>>
    PROVE  /\ LockFreeAt(w)' /\ UNCHANGED <<Waiting, Cut>>
           /\ Phase = "taken" /\ Phase' = "idle" /\ Item' = Dummy
<1>1. CellsAt(w) /\ Apart(w)
  BY QueueParted
<1>2. /\ Pointers /\ LockFreeType /\ Pushing(w) /\ Chained(w) /\ Popping(w) /\ HeadLeads(w) /\ Counted
      /\ users = "lockfree" /\ w = Waiting
  BY DEF LockFreeAt, LockFreeType
<1>3. /\ UNCHANGED <<pNext, pPrev, ppc, pNode, tail, users, ptr, nxt, dnext>>
      /\ cpc = "size" /\ cpc' = "idle" /\ size' = size - 1 /\ Taken /\ ~Taken'
      /\ queue' = Erase(queue, ptr)
  BY <1>2 DEF PopReturn, producer, Taken
<1>4. queue \in Seq(Nodes) /\ Distinct(queue) /\ queue # <<>> /\ ptr = Head(queue) /\ w = Tail(queue) /\ Len(queue) = Len(w) + 1
  BY <1>1, <1>2, <1>3 DEF LockFreeType, Apart
<1>5. queue' = w
  BY <1>3, <1>4, ErasedFirst
<1>6. Waiting' = w /\ Item' = Dummy /\ Phase = "taken" /\ Phase' = "idle"
  BY <1>3, <1>5 DEF Waiting, Item, Phase
<1>7. LockFreeType'
  BY <1>1, <1>2, <1>3, <1>5 DEF LockFreeType, Pointers, CellsAt
<1>8. Pushing(w)'
  <2>1. ppc # "idle" => ~In(pNode, w)
    BY <1>1 DEF Apart, In
  <2>2. QED BY <1>2, <1>3, <1>5, <2>1 DEF Pushing
<1>9. Chained(w)' /\ Popping(w)' /\ HeadLeads(w)'
  BY <1>2, <1>3 DEF Chained, Popping, HeadLeads
<1>10. Counted'
  <2>1. Len(w) \in Nat /\ size = Len(w) + 1 + IF ppc = "idle" THEN 0 ELSE 1
    BY <1>1, <1>2, <1>4 DEF Counted, CellsAt
  <2>2. size' = Len(w) + IF ppc = "idle" THEN 0 ELSE 1
    BY <1>3, <2>1
  <2>3. QED BY <1>3, <1>5, <2>2 DEF Counted
<1>11. Cut' = Cut
  BY <1>2, <1>3, <1>6 DEF Cut
<1>12. QED BY <1>2, <1>3, <1>6, <1>7, <1>8, <1>9, <1>10, <1>11 DEF LockFreeAt

\* Every step of a producer or a consumer is a step of ExitQueue, or of none.
LEMMA LockFreeKeeps ==
    ASSUME NEW w \in Seq(Nodes), LockFreeAt(w), LockFreeUsers
    PROVE  (\E v \in Seq(Nodes) : LockFreeAt(v)') /\ [Exit!Next]_(Exit!vars)
<1> USE DEF Exit!Next, Exit!vars, Exit!Push, Exit!Take, Exit!Link, Exit!Done, Exit!In
<1>1. UNCHANGED <<users, linked, eraser>>
  BY DEF LockFreeUsers
<1>2. ASSUME LockFreeAt(w)', UNCHANGED <<Waiting, Item, Phase, Cut>>
      PROVE  (\E v \in Seq(Nodes) : LockFreeAt(v)') /\ [Exit!Next]_(Exit!vars)
  BY <1>2 DEF Item, Phase, Cut
<1>3. CASE \E x \in Nodes : PushBegin(x)
  BY <1>1, <1>2, <1>3, PushBeginKeeps
<1>4. CASE PushRead
  BY <1>1, <1>2, <1>4, PushReadKeeps
<1>5. CASE PushCas
  BY <1>1, <1>2, <1>5, PushCasKeeps
<1>6. CASE PushLink
  BY <1>1, <1>6, PushLinkKeeps DEF Item, Phase, Cut, In
<1>7. CASE PopHead \/ PopNext
  BY <1>1, <1>2, <1>7, PopHeadKeeps
<1>8. CASE PopCas
  <2>1. CASE pPrev[nxt] = ptr
    BY <1>1, <1>8, <2>1, PopTakesKeeps DEF Item, Phase, Cut
  <2>2. CASE pPrev[nxt] # ptr
    BY <1>1, <1>2, <1>8, <2>2, PopLosesKeeps
  <2>3. QED BY <2>1, <2>2
<1>9. CASE PopReadHead
  BY <1>1, <1>2, <1>9, PopReadHeadKeeps DEF Item, Phase, Cut
<1>10. CASE PopRelink
  BY <1>1, <1>2, <1>10, PopRelinkKeeps
<1>11. CASE PopReturn
  BY <1>1, <1>11, PopReturnKeeps DEF Item, Phase, Cut
<1>12. QED BY <1>3, <1>4, <1>5, <1>6, <1>7, <1>8, <1>9, <1>10, <1>11 DEF LockFreeUsers, Pusher, Popper

-----------------------------------------------------------------------------
(* Children. *)

\* The idle task chooses a child, and reads what stands before and after it.
LEMMA EraseBeginKeeps ==
    ASSUME NEW s \in Seq(Nodes), NEW k \in Nat, ChildrenAt(s, k), NEW x \in Nodes, EraseBegin(x)
    PROVE  \E j \in Nat : ChildrenAt(s, j)'
<1>1. cpc = "idle" /\ x \in linked /\ cpc' = "erase" /\ ptr' = x /\ prev' = pPrev[x]
      /\ pNext' = pNext /\ pPrev' = pPrev /\ size' = size /\ linked' = linked
  BY DEF EraseBegin, listVars
<1>2. ListAt(s, 0) /\ Len(s) \in Nat
  BY <1>1, LenProperties DEF ChildrenAt
<1>3. PICK j \in 1 .. Len(s) : x = s[j]
  BY <1>1, <1>2 DEF ListAt, Holds
<1>4. j \in Nat /\ j - 1 \in 0 .. Len(s) /\ j - 1 + 1 = j /\ j \in 0 .. Len(s)
  BY <1>2, <1>3
<1>5. pPrev[Cell(s, j)] = Cell(s, j - 1) /\ Cell(s, j) = x
  <2>1. pPrev[Cell(s, j - 1 + 1)] = Cell(s, j - 1)
    BY <1>2, <1>4 DEF ListAt, Backwards
  <2>2. QED BY <1>3, <1>4, <2>1 DEF Cell
<1>6. ListAt(s, 0)'
  BY <1>1, <1>2 DEF ListAt, Pointers, Holds, Forwards, Backwards
<1>7. ErasesAt(s, j)'
  BY <1>1, <1>3, <1>5 DEF ErasesAt
<1>8. QED BY <1>1, <1>4, <1>6, <1>7 DEF ChildrenAt

\* Then what stands after it.
LEMMA EraseReadNextKeeps ==
    ASSUME NEW s \in Seq(Nodes), NEW k \in Nat, ChildrenAt(s, k), EraseReadNext
    PROVE  ChildrenAt(s, k)'
<1>1. cpc = "erase" /\ cpc' = "left" /\ nxt' = pNext[ptr] /\ ptr' = ptr /\ prev' = prev
      /\ pNext' = pNext /\ pPrev' = pPrev /\ size' = size /\ linked' = linked
  BY DEF EraseReadNext, listVars
<1>2. ListAt(s, 0) /\ k \in 1 .. Len(s) /\ k \in 0 .. Len(s) /\ k + 1 # 0 /\ ptr = s[k] /\ prev = Cell(s, k - 1)
  BY <1>1 DEF ChildrenAt, ErasesAt
<1>3. ptr = Cell(s, k) /\ pNext[Cell(s, k)] = Cell(s, k + 1)
  BY <1>2 DEF Cell, ListAt, Forwards
<1>4. ListAt(s, 0)'
  BY <1>1, <1>2 DEF ListAt, Pointers, Holds, Forwards, Backwards
<1>5. ErasesAt(s, k)'
  BY <1>1, <1>2, <1>3 DEF ErasesAt
<1>6. QED BY <1>1, <1>2, <1>4, <1>5 DEF ChildrenAt

\* It leads the node before past the child.
LEMMA EraseLeftKeeps ==
    ASSUME NEW s \in Seq(Nodes), NEW k \in Nat, ChildrenAt(s, k), EraseLeft
    PROVE  ChildrenAt(s, k)'
<1>1. cpc = "left" /\ cpc' = "right" /\ ptr' = ptr /\ prev' = prev /\ nxt' = nxt
      /\ pNext' = [pNext EXCEPT ![prev] = nxt] /\ pPrev' = pPrev /\ size' = size /\ linked' = linked
  BY DEF EraseLeft
<1>2. /\ ListAt(s, 0) /\ Pointers /\ Holds(s) /\ Distinct(s) /\ Len(s) \in Nat
      /\ k \in 1 .. Len(s) /\ k \in 0 .. Len(s) /\ ptr = s[k] /\ prev = Cell(s, k - 1) /\ nxt = Cell(s, k + 1)
  BY <1>1, LenProperties DEF ChildrenAt, ErasesAt, ListAt, Holds
<1>3. /\ \A i \in Int : Cell(s, i) \in Cells
      /\ \A i, j \in 0 .. Len(s) : Cell(s, i) = Cell(s, j) => i = j
  BY <1>2, CellsOf
<1>4. Pointers'
  BY <1>1, <1>2, <1>3 DEF Pointers
<1>5. Holds(s)'
  BY <1>1, <1>2 DEF Holds
<1>6. Forwards(s, k)'
  <2>1. SUFFICES ASSUME NEW i \in 0 .. Len(s)
                 PROVE  pNext'[Cell(s, i)] = IF i + 1 = k THEN Cell(s, i + 2) ELSE Cell(s, i + 1)
    BY DEF Forwards
  <2>2. k - 1 \in 0 .. Len(s) /\ i \in Int
    BY <1>2
  <2>3. CASE i = k - 1
    <3>1. i + 1 = k /\ i + 2 = k + 1 /\ Cell(s, i) = prev /\ prev \in Cells
      BY <1>2, <1>3, <2>2, <2>3
    <3>2. QED BY <1>1, <1>2, <3>1 DEF Pointers
  <2>4. CASE i # k - 1
    <3>1. i + 1 # k /\ i + 1 # 0
      BY <1>2, <2>4
    <3>2. Cell(s, i) # prev /\ Cell(s, i) \in Cells
      BY <1>2, <1>3, <2>2, <2>4
    <3>3. pNext[Cell(s, i)] = Cell(s, i + 1)
      BY <1>2, <3>1 DEF ListAt, Forwards
    <3>4. QED BY <1>1, <1>2, <3>1, <3>2, <3>3 DEF Pointers
  <2>5. QED BY <2>3, <2>4
<1>7. Backwards(s)'
  BY <1>1, <1>2 DEF ListAt, Backwards
<1>8. ErasesAt(s, k)'
  BY <1>1, <1>2 DEF ErasesAt
<1>9. QED BY <1>1, <1>2, <1>4, <1>5, <1>6, <1>7, <1>8 DEF ChildrenAt, ListAt

\* It leads the node after back past the child, and the list is whole without it.
LEMMA EraseRightKeeps ==
    ASSUME NEW s \in Seq(Nodes), NEW k \in Nat, ChildrenAt(s, k), EraseRight
    PROVE  \E r \in Seq(Nodes) : ChildrenAt(r, 0)'
<1> DEFINE n == Len(s)
           x == s[k]
           r == Erase(s, x)
<1>1. cpc = "right" /\ cpc' = "idle" /\ size' = size - 1 /\ linked' = linked \ {ptr}
      /\ pPrev' = [pPrev EXCEPT ![nxt] = prev] /\ pNext' = pNext
  BY DEF EraseRight
<1>2. /\ ListAt(s, k) /\ Pointers /\ Distinct(s) /\ n \in Nat /\ linked = {s[i] : i \in 1 .. n} /\ size = n
      /\ k \in 1 .. n /\ ptr = x /\ prev = Cell(s, k - 1) /\ nxt = Cell(s, k + 1)
  BY <1>1, LenProperties DEF ChildrenAt, ErasesAt, ListAt, Holds
<1>3. /\ r \in Seq(Nodes) /\ Distinct(r) /\ Len(r) = n - 1
      /\ {r[i] : i \in 1 .. n - 1} = {s[i] : i \in 1 .. n} \ {x}
  BY <1>2, CellsErased
<1>4. /\ \A i \in Int : i < k => Cell(r, i) = Cell(s, i)
      /\ \A i \in Int : i >= k => Cell(r, i) = Cell(s, i + 1)
  BY <1>2, CellsErased
<1>5. /\ \A i \in Int : Cell(s, i) \in Cells
      /\ \A i, m \in 1 .. n + 1 : Cell(s, i) = Cell(s, m) => i = m
  BY <1>2, CellsOf
<1>6. /\ \A i \in 0 .. n : pNext[Cell(s, i)] = IF i + 1 = k THEN Cell(s, i + 2) ELSE Cell(s, i + 1)
      /\ \A i \in 0 .. n : pPrev[Cell(s, i + 1)] = Cell(s, i)
  BY <1>2 DEF ListAt, Forwards, Backwards
<1>7. Holds(r)'
  BY <1>1, <1>2, <1>3 DEF Holds
<1>8. prev \in Cells /\ nxt \in Cells /\ k \in 1 .. n /\ n \in Nat
  BY <1>2, <1>5
<1>a. prev = Cell(s, k - 1) /\ nxt = Cell(s, k + 1) /\ Len(r) = n - 1
  BY <1>2, <1>3
<1> HIDE DEF r, n, x
<1>9. Pointers'
  BY <1>1, <1>2, <1>8 DEF Pointers
<1>10. Forwards(r, 0)'
  <2>1. SUFFICES ASSUME NEW i \in 0 .. n - 1 PROVE pNext[Cell(r, i)] = Cell(r, i + 1)
    BY <1>1, <1>a DEF Forwards
  <2>2. CASE i < k - 1
    <3>1. i \in Int /\ i < k /\ i + 1 < k /\ i + 1 # k /\ i \in 0 .. n
      BY <1>8, <2>2
    <3>2. Cell(r, i) = Cell(s, i) /\ Cell(r, i + 1) = Cell(s, i + 1)
      BY <1>4, <3>1
    <3>3. QED BY <1>6, <3>1, <3>2
  <2>3. CASE i = k - 1
    <3>1. i \in Int /\ i < k /\ i + 1 >= k /\ i + 1 = k /\ i + 1 + 1 = i + 2 /\ i \in 0 .. n
      BY <1>8, <2>3
    <3>2. Cell(r, i) = Cell(s, i) /\ Cell(r, i + 1) = Cell(s, i + 2)
      BY <1>4, <3>1
    <3>3. QED BY <1>6, <3>1, <3>2
  <2>4. CASE i > k - 1
    <3>1. i \in Int /\ i >= k /\ i + 1 >= k /\ i + 1 + 1 # k /\ i + 1 \in 0 .. n
      BY <1>8, <2>4
    <3>2. Cell(r, i) = Cell(s, i + 1) /\ Cell(r, i + 1) = Cell(s, i + 1 + 1)
      BY <1>4, <3>1
    <3>3. QED BY <1>6, <3>1, <3>2
  <2>5. QED BY <1>8, <2>2, <2>3, <2>4
<1>11. Backwards(r)'
  <2>1. SUFFICES ASSUME NEW i \in 0 .. n - 1 PROVE pPrev'[Cell(r, i + 1)] = Cell(r, i)
    BY <1>a DEF Backwards
  <2>2. CASE i < k - 1
    <3>1. i \in Int /\ i < k /\ i + 1 < k /\ i \in 0 .. n /\ i + 1 \in 1 .. n + 1 /\ k + 1 \in 1 .. n + 1 /\ i + 1 # k + 1
      BY <1>8, <2>2
    <3>2. Cell(r, i) = Cell(s, i) /\ Cell(r, i + 1) = Cell(s, i + 1)
      BY <1>4, <3>1
    <3>3. Cell(s, i + 1) # nxt /\ Cell(s, i + 1) \in Cells
      BY <1>5, <1>a, <3>1
    <3>4. pPrev[Cell(s, i + 1)] = Cell(s, i)
      BY <1>6, <3>1
    <3>5. QED BY <1>1, <1>2, <3>2, <3>3, <3>4 DEF Pointers
  <2>3. CASE i = k - 1
    <3>1. i \in Int /\ i < k /\ i + 1 >= k /\ i + 1 + 1 = k + 1
      BY <1>8, <2>3
    <3>2. Cell(r, i) = prev /\ Cell(r, i + 1) = nxt
      BY <1>4, <1>a, <2>3, <3>1
    <3>3. QED BY <1>1, <1>2, <1>8, <3>2 DEF Pointers
  <2>4. CASE i > k - 1
    <3>1. /\ i \in Int /\ i >= k /\ i + 1 >= k /\ i + 1 \in 0 .. n
          /\ i + 1 + 1 \in 1 .. n + 1 /\ k + 1 \in 1 .. n + 1 /\ i + 1 + 1 # k + 1
      BY <1>8, <2>4
    <3>2. Cell(r, i) = Cell(s, i + 1) /\ Cell(r, i + 1) = Cell(s, i + 1 + 1)
      BY <1>4, <3>1
    <3>3. Cell(s, i + 1 + 1) # nxt /\ Cell(s, i + 1 + 1) \in Cells
      BY <1>5, <1>a, <3>1
    <3>4. pPrev[Cell(s, i + 1 + 1)] = Cell(s, i + 1)
      BY <1>6, <3>1
    <3>5. QED BY <1>1, <1>2, <3>2, <3>3, <3>4 DEF Pointers
  <2>5. QED BY <1>8, <2>2, <2>3, <2>4
<1>12. 0 \in 0 .. Len(r)
  BY <1>8, <1>a
<1>13. ErasesAt(r, 0)'
  BY <1>1 DEF ErasesAt
<1>14. QED BY <1>1, <1>3, <1>7, <1>9, <1>10, <1>11, <1>12, <1>13 DEF ChildrenAt, ListAt

\* A push that does not follow a child on its way out as the last.
LEMMA PushBetween ==
    ASSUME NEW s \in Seq(Nodes), NEW k \in Nat, ChildrenAt(s, k),
           NEW y \in Nodes, LockedPush(y), UNCHANGED <<cpc, ptr, nxt, prev>>,
           ~(cpc \in {"left", "right"} /\ nxt = Dummy)
    PROVE  \E r \in Seq(Nodes) : ChildrenAt(r, k)'
<1> DEFINE n == Len(s)
           r == Append(s, y)
<1>h. PICK h \in Int : h = IF cpc = "right" THEN k ELSE 0
  OBVIOUS
<1>1. /\ ListAt(s, h) /\ ErasesAt(s, k) /\ Distinct(s) /\ n \in Nat /\ k \in 0 .. n
      /\ linked = {s[i] : i \in 1 .. n}
  BY <1>h, LenProperties DEF ChildrenAt, ListAt, Holds
<1>2. Cell(s, n + 1) = Dummy
  BY <1>1, CellsOf
<1>3. cpc \in {"left", "right"} => k # n
  BY <1>1, <1>2 DEF ErasesAt
<1>4. h \in 0 .. n /\ (h = 0 \/ h # n)
  BY <1>1, <1>3, <1>h
<1>5. ListAt(r, h)' /\ ~In(y, s)
  BY <1>1, <1>4, PushKeeps
<1>6. /\ r \in Seq(Nodes) /\ Len(r) = n + 1
      /\ \A i \in Int : Cell(r, i) = IF i = n + 1 THEN y ELSE Cell(s, i)
      /\ \A i \in 1 .. n : r[i] = s[i]
  BY <1>1, <1>5, CellsAppended, AppendProperties
<1>7. cpc' = cpc /\ ptr' = ptr /\ nxt' = nxt /\ prev' = prev
  OBVIOUS
<1> HIDE DEF r, n
<1>8. ErasesAt(r, k)'
  <2>1. ASSUME cpc # "idle" PROVE k \in 1 .. Len(r) /\ ptr = r[k] /\ prev = Cell(r, k - 1)
    <3>1. k \in 1 .. n /\ ptr = s[k] /\ prev = Cell(s, k - 1)
      BY <1>1, <2>1 DEF ErasesAt, n
    <3>2. k - 1 # n + 1 /\ k - 1 \in Int /\ k \in 1 .. n + 1
      BY <1>1, <3>1
    <3>3. QED BY <1>6, <3>1, <3>2
  <2>2. ASSUME cpc \in {"left", "right"} PROVE nxt = Cell(r, k + 1)
    <3>1. k + 1 # n + 1 /\ k + 1 \in Int
      BY <1>1, <1>3, <2>2
    <3>2. nxt = Cell(s, k + 1)
      BY <1>1, <2>2 DEF ErasesAt
    <3>3. QED BY <1>6, <3>1, <3>2
  <2>3. QED BY <1>7, <2>1, <2>2 DEF ErasesAt
<1>9. k \in 0 .. Len(r)
  BY <1>1, <1>6
<1>10. QED BY <1>h, <1>5, <1>6, <1>7, <1>8, <1>9 DEF ChildrenAt

\* An erase that takes no neighbour that the idle task has read.
LEMMA EraseBetween ==
    ASSUME NEW s \in Seq(Nodes), NEW k \in Nat, ChildrenAt(s, k),
           cpc \in {"idle", "erase", "left", "right"}, NEW y \in Nodes, LockedErase(y), UNCHANGED <<cpc, ptr, nxt, prev>>,
           cpc # "idle" => y # ptr /\ y # prev /\ (cpc # "erase" => y # nxt)
    PROVE  \E r \in Seq(Nodes), m \in Nat : ChildrenAt(r, m)'
<1> DEFINE n == Len(s)
<1>h. PICK h \in Int : h = IF cpc = "right" THEN k ELSE 0
  OBVIOUS
<1>1. /\ ListAt(s, h) /\ ErasesAt(s, k) /\ Distinct(s) /\ n \in Nat /\ k \in 0 .. n
      /\ linked = {s[i] : i \in 1 .. n}
      /\ cpc' = cpc /\ ptr' = ptr /\ nxt' = nxt /\ prev' = prev
  BY <1>h, LenProperties DEF ChildrenAt, ListAt, Holds
<1>2. PICK j \in 1 .. n : y = s[j]
  BY <1>1 DEF LockedErase
<1>3. cpc # "idle" => k \in 1 .. n /\ j # k /\ j # k - 1 /\ (cpc # "erase" => j # k + 1)
  <2>1. Cell(s, j) = y
    BY <1>2 DEF Cell
  <2>2. ASSUME cpc # "idle" PROVE k \in 1 .. n /\ j # k /\ j # k - 1
    BY <1>1, <1>2, <2>1, <2>2 DEF ErasesAt
  <2>3. ASSUME cpc # "idle", cpc # "erase" PROVE j # k + 1
    <3>1. nxt = Cell(s, k + 1)
      BY <1>1, <2>3 DEF ErasesAt
    <3>2. QED BY <2>1, <2>3, <3>1
  <2>4. QED BY <2>2, <2>3
<1> DEFINE r == Erase(s, s[j])
<1>m. PICK m \in Int : m = IF cpc = "idle" THEN 0 ELSE IF j < k THEN k - 1 ELSE k
  OBVIOUS
<1>4. h \in 0 .. n /\ (h = 0 \/ j \notin {h - 1, h, h + 1})
  BY <1>1, <1>3, <1>h
<1>5. ListAt(r, IF j < h THEN h - 1 ELSE h)'
  BY <1>1, <1>2, <1>4, EraseKeeps
<1>6. /\ r \in Seq(Nodes) /\ Len(r) = n - 1
      /\ \A i \in Int : i < j => Cell(r, i) = Cell(s, i)
      /\ \A i \in Int : i >= j => Cell(r, i) = Cell(s, i + 1)
  BY <1>1, <1>2, CellsErased
<1> HIDE DEF r
<1>7. (IF j < h THEN h - 1 ELSE h) = IF cpc = "right" THEN m ELSE 0
  BY <1>1, <1>2, <1>3, <1>h, <1>m
<1>8. m \in Nat /\ m \in 0 .. n - 1 /\ (cpc # "idle" => m \in 1 .. n - 1)
  BY <1>1, <1>2, <1>3, <1>m
<1> HIDE DEF n
<1>a. cpc # "idle" => ptr = Cell(s, k) /\ prev = Cell(s, k - 1)
  BY <1>1 DEF ErasesAt, Cell, n
<1>b. \A i \in 1 .. n - 1 : Cell(r, i) = r[i]
  BY <1>6 DEF Cell
<1>9. ErasesAt(r, m)'
  <2>1. ASSUME cpc # "idle" PROVE ptr = Cell(r, m) /\ prev = Cell(r, m - 1)
    <3>1. CASE j < k
      <4>1. m = k - 1 /\ m \in Int /\ m >= j /\ m + 1 = k /\ m - 1 \in Int /\ m - 1 >= j /\ m - 1 + 1 = k - 1
        BY <1>1, <1>2, <1>3, <1>m, <2>1, <3>1
      <4>2. Cell(r, m) = Cell(s, k) /\ Cell(r, m - 1) = Cell(s, k - 1)
        BY <1>6, <4>1
      <4>3. QED BY <1>a, <2>1, <4>2
    <3>2. CASE ~(j < k)
      <4>1. m = k /\ k \in Int /\ k - 1 \in Int /\ k < j /\ k - 1 < j
        BY <1>1, <1>2, <1>3, <1>m, <2>1, <3>2
      <4>2. Cell(r, k) = Cell(s, k) /\ Cell(r, k - 1) = Cell(s, k - 1)
        BY <1>6, <4>1
      <4>3. QED BY <1>a, <2>1, <4>1, <4>2
    <3>3. QED BY <3>1, <3>2
  <2>2. ASSUME cpc \in {"left", "right"} PROVE nxt = Cell(r, m + 1)
    <3>1. nxt = Cell(s, k + 1)
      BY <1>1, <2>2 DEF ErasesAt
    <3>2. CASE j < k
      <4>1. m + 1 \in Int /\ m + 1 >= j /\ m + 1 + 1 = k + 1
        BY <1>1, <1>2, <1>3, <1>m, <2>2, <3>2
      <4>2. QED BY <1>6, <3>1, <4>1
    <3>3. CASE ~(j < k)
      <4>1. m = k /\ m + 1 \in Int /\ m + 1 < j
        BY <1>1, <1>2, <1>3, <1>m, <2>2, <3>3
      <4>2. QED BY <1>6, <3>1, <4>1
    <3>4. QED BY <3>2, <3>3
  <2>3. cpc # "idle" => m \in 1 .. Len(r) /\ ptr = r[m] /\ prev = Cell(r, m - 1)
    BY <1>6, <1>8, <1>b, <2>1
  <2>4. QED BY <1>1, <2>2, <2>3 DEF ErasesAt
<1>10. QED BY <1>1, <1>5, <1>6, <1>7, <1>8, <1>9 DEF ChildrenAt

\* A push behind a child on its way out as the last is lost with it.
LEMMA PushDamages ==
    ASSUME NEW s \in Seq(Nodes), NEW k \in Nat, ChildrenAt(s, k), linked \subseteq Nodes,
           NEW y \in Nodes, LockedPush(y), UNCHANGED <<cpc, ptr, nxt, prev>>,
           cpc \in {"left", "right"}, nxt = Dummy, y # ptr
    PROVE  Damaged'
<1> DEFINE n == Len(s)
           h == IF cpc = "right" THEN k ELSE 0
<1>1. /\ ListAt(s, h) /\ Pointers /\ Distinct(s) /\ n \in Nat /\ k \in 1 .. n
      /\ ptr = s[k] /\ nxt = Cell(s, k + 1)
  BY LenProperties DEF ChildrenAt, ListAt, Holds, ErasesAt
<1>2. /\ Cell(s, n + 1) = Dummy
      /\ Cell(s, k) = ptr /\ ptr \in Nodes /\ ptr # Dummy
      /\ \A i, m \in 1 .. n + 1 : Cell(s, i) = Cell(s, m) => i = m
  BY <1>1, CellsOf
<1>3. k = n
  BY <1>1, <1>2
<1>4. pPrev[Dummy] = ptr
  BY <1>1, <1>2, <1>3 DEF ListAt, Backwards
<1>5. y # Dummy /\ y \in Cells /\ Dummy \in Cells
  BY DummyAssumption DEF Cells
<1>6. pPrev'[y] = ptr
  BY <1>1, <1>4, <1>5 DEF LockedPush, Pointers
<1>7. cpc' = cpc /\ ptr' = ptr /\ nxt' = nxt /\ linked' = linked \cup {y}
  BY DEF LockedPush
<1>8. y \in Remaining' /\ ptr \notin Remaining'
  BY <1>2, <1>7 DEF Remaining
<1>9. QED BY <1>5, <1>6, <1>7, <1>8 DEF Damaged

\* A neighbour that the idle task has read, once it is taken off, comes back.
LEMMA EraseDamages ==
    ASSUME NEW s \in Seq(Nodes), NEW k \in Nat, ChildrenAt(s, k), linked \subseteq Nodes,
           NEW y \in Nodes, LockedErase(y), UNCHANGED <<cpc, ptr, nxt, prev>>,
           cpc \in {"erase", "left", "right"}, y # ptr, y = prev \/ (cpc # "erase" /\ y = nxt)
    PROVE  Damaged'
<1> DEFINE n == Len(s)
           h == IF cpc = "right" THEN k ELSE 0
<1>1. /\ ListAt(s, h) /\ Pointers /\ Distinct(s) /\ n \in Nat /\ k \in 1 .. n
      /\ ptr = s[k] /\ prev = Cell(s, k - 1) /\ (cpc # "erase" => nxt = Cell(s, k + 1))
      /\ linked = {s[i] : i \in 1 .. n}
  BY LenProperties DEF ChildrenAt, ListAt, Holds, ErasesAt
<1>2. /\ Cell(s, 0) = Dummy /\ Cell(s, n + 1) = Dummy
      /\ \A i \in Int : Cell(s, i) \in Cells
      /\ \A i \in 1 .. n : Cell(s, i) = s[i] /\ Cell(s, i) # Dummy
      /\ \A i, m \in 0 .. n : Cell(s, i) = Cell(s, m) => i = m
      /\ \A i, m \in 1 .. n + 1 : Cell(s, i) = Cell(s, m) => i = m
  BY <1>1, CellsOf
<1>3. /\ \A i \in 0 .. n : pNext[Cell(s, i)] = IF i + 1 = h THEN Cell(s, i + 2) ELSE Cell(s, i + 1)
      /\ \A i \in 0 .. n : pPrev[Cell(s, i + 1)] = Cell(s, i)
  BY <1>1 DEF ListAt, Forwards, Backwards
<1>4. /\ cpc' = cpc /\ ptr' = ptr /\ nxt' = nxt /\ prev' = prev /\ linked' = linked \ {y}
      /\ pNext' = [pNext EXCEPT ![pPrev[y]] = pNext[y]]
      /\ pPrev' = [pPrev EXCEPT ![pNext[y]] = pPrev[y]]
  BY DEF LockedErase
<1>5. /\ \A i \in 0 .. n + 1 : Cell(s, i) # y /\ Cell(s, i) # ptr => Cell(s, i) \in Remaining'
      /\ y \notin Remaining' /\ ptr \notin Remaining' /\ y # Dummy
  <2>1. Remaining' = ((linked \ {y}) \ {ptr}) \cup {Dummy}
    BY <1>4 DEF Remaining
  <2>2. \A i \in 0 .. n + 1 : Cell(s, i) \in linked \/ Cell(s, i) = Dummy
    <3>1. \A i \in 1 .. n : Cell(s, i) \in linked
      BY <1>1, <1>2
    <3>2. n \in Nat /\ Cell(s, 0) = Dummy /\ Cell(s, n + 1) = Dummy
      BY <1>1, <1>2
    <3>3. QED BY <3>1, <3>2
  <2>3. ptr # Dummy /\ y # Dummy
    BY <1>1, <1>2, DummyAssumption
  <2>4. QED BY <2>1, <2>2, <2>3
<1>6. ptr = Cell(s, k)
  BY <1>1, <1>2
<1> HIDE DEF n, h
<1>7. CASE y = prev
  <2>1. k - 1 \in 0 .. n /\ k - 2 \in 0 .. n /\ k - 2 + 1 = k - 1 /\ k \in 0 .. n /\ k - 1 + 1 = k /\ k - 2 # k - 1 /\ k - 2 # k /\ k - 1 + 2 = k + 1
    <3>1. k - 1 # 0
      BY <1>1, <1>2, <1>5, <1>7
    <3>2. QED BY <1>1, <3>1
  <2>2. pPrev[y] = Cell(s, k - 2)
    BY <1>1, <1>3, <1>7, <2>1
  <2> DEFINE c == Cell(s, k - 2)
  <2>3. c \in Cells /\ c # y /\ c # ptr /\ c \in Remaining'
    <3>1. k - 2 \in Int /\ k - 2 \in 0 .. n + 1
      BY <1>1, <2>1
    <3>2. c \in Cells
      BY <1>2, <3>1
    <3>3. c # Cell(s, k - 1)
      BY <1>2, <2>1
    <3>4. c # Cell(s, k)
      BY <1>2, <2>1
    <3>5. QED BY <1>1, <1>5, <1>6, <1>7, <3>1, <3>2, <3>3, <3>4
  <2>4. CASE cpc # "right"
    <3>1. pNext[y] = ptr
      BY <1>1, <1>3, <1>6, <1>7, <2>1, <2>4 DEF h
    <3>2. pNext'[c] = ptr
      BY <1>1, <1>4, <2>2, <2>3, <3>1 DEF Pointers
    <3>3. QED BY <1>4, <1>5, <1>7, <2>3, <2>4, <3>2 DEF Damaged
  <2>5. CASE cpc = "right"
    <3>1. nxt = Cell(s, k + 1) /\ k + 1 \in 0 .. n + 1 /\ k + 1 \in 1 .. n + 1 /\ k - 1 \in 1 .. n + 1 /\ k \in 1 .. n + 1 /\ k + 1 # k - 1 /\ k + 1 # k
      BY <1>1, <2>1, <2>5
    <3>2. nxt # ptr
      BY <1>2, <1>6, <3>1
    <3>3. nxt # y
      BY <1>1, <1>2, <1>7, <3>1
    <3>4. nxt \in Remaining'
      BY <1>5, <3>1, <3>2, <3>3
    <3>5. QED BY <1>4, <1>5, <1>7, <2>5, <3>4 DEF Damaged
  <2>6. QED BY <2>4, <2>5
<1>8. CASE y # prev
  <2>1. cpc # "erase" /\ y = nxt /\ nxt = Cell(s, k + 1)
    BY <1>1, <1>8
  <2>2. k + 1 \in 1 .. n /\ k + 2 \in 1 .. n + 1 /\ k + 1 \in 1 .. n + 1 /\ k \in 1 .. n + 1 /\ k + 2 # k + 1 /\ k + 2 # k
    <3>1. k + 1 # n + 1
      BY <1>2, <1>5, <2>1
    <3>2. QED BY <1>1, <3>1
  <2>3. CASE cpc = "left"
    <3>1. k - 1 \in 0 .. n + 1 /\ k - 1 \in 0 .. n /\ k \in 0 .. n /\ k - 1 # k
      BY <1>1
    <3>2. prev # ptr
      BY <1>1, <1>2, <1>6, <3>1
    <3>3. prev \in Remaining'
      BY <1>1, <1>5, <1>8, <3>1, <3>2
    <3>4. QED BY <1>4, <1>5, <2>1, <2>3, <3>3 DEF Damaged
  <2>4. CASE cpc = "right"
    <3> DEFINE c == Cell(s, k + 2)
    <3>1. /\ k + 1 \in 0 .. n /\ k \in 0 .. n /\ k + 1 + 1 = k + 2 /\ k + 1 + 1 # k /\ k + 2 \in Int /\ k + 2 \in 0 .. n + 1
      BY <1>1, <2>2
    <3>2. pPrev[y] = ptr
      BY <1>3, <1>6, <2>1, <3>1
    <3>3. pNext[y] = c
      BY <1>3, <2>1, <2>4, <3>1 DEF h
    <3>4. c # y /\ c # ptr /\ c \in Cells
      <4>1. c # Cell(s, k + 1)
        BY <1>2, <2>2
      <4>2. c # Cell(s, k)
        BY <1>2, <2>2
      <4>3. QED BY <1>2, <1>6, <2>1, <3>1, <4>1, <4>2
    <3>5. c \in Remaining'
      BY <1>5, <3>1, <3>4
    <3>6. pPrev'[c] = ptr
      BY <1>1, <1>4, <3>2, <3>3, <3>4 DEF Pointers
    <3>7. QED BY <1>4, <1>5, <2>1, <2>4, <3>4, <3>5, <3>6 DEF Damaged
  <2>5. QED BY <2>1, <2>3, <2>4
<1>9. QED BY <1>7, <1>8

\* Until the erase has ended the damage is not undone.
LEMMA DamageStays ==
    ASSUME ChildrenType, Damaged, EraseReadNext \/ EraseLeft \/ EraseRight
    PROVE  Damaged'
<1>1. Pointers /\ Dummy \in Cells
  BY DEF ChildrenType, Cells
<1>2. ptr' = ptr /\ prev' = prev /\ cpc # "idle" /\ Remaining' = Remaining /\ Remaining \subseteq Cells
  <2>1. linked \subseteq Nodes
    BY DEF ChildrenType
  <2>2. QED BY <2>1 DEF EraseReadNext, EraseLeft, EraseRight, Remaining, Cells
<1>3. CASE EraseReadNext
  <2>1. PICK c \in Remaining : pNext[c] \notin Remaining /\ c # prev
    BY <1>3 DEF EraseReadNext, Damaged
  <2>2. QED BY <1>2, <1>3, <2>1 DEF EraseReadNext, listVars, Damaged
<1>4. CASE EraseLeft
  <2>1. cpc = "left" /\ cpc' = "right" /\ pPrev' = pPrev /\ nxt' = nxt /\ prev \in Cells /\ nxt \in Cells
        /\ pNext' = [pNext EXCEPT ![prev] = nxt]
    BY <1>4 DEF EraseLeft, ChildrenType
  <2>2. CASE \E c \in Remaining : pNext[c] \notin Remaining /\ c # prev
    BY <1>1, <1>2, <2>1, <2>2 DEF Damaged, Pointers
  <2>3. CASE \E c \in Remaining : pPrev[c] \notin Remaining /\ c # nxt
    BY <1>2, <2>1, <2>3 DEF Damaged
  <2>4. CASE prev \in Remaining /\ nxt \notin Remaining
    <3>1. pNext'[prev] = nxt
      BY <1>1, <2>1 DEF Pointers
    <3>2. QED BY <1>2, <2>1, <2>4, <3>1 DEF Damaged
  <2>5. QED BY <2>1, <2>2, <2>3, <2>4 DEF Damaged
<1>5. CASE EraseRight
  <2>1. cpc = "right" /\ cpc' = "idle" /\ pNext' = pNext /\ nxt' = nxt /\ prev \in Cells /\ nxt \in Cells
        /\ pPrev' = [pPrev EXCEPT ![nxt] = prev]
    BY <1>5 DEF EraseRight, ChildrenType
  <2>2. CASE \E c \in Remaining : pNext[c] \notin Remaining
    BY <1>2, <2>1, <2>2 DEF Damaged
  <2>3. CASE \E c \in Remaining : pPrev[c] \notin Remaining /\ c # nxt
    BY <1>1, <1>2, <2>1, <2>3 DEF Damaged, Pointers
  <2>4. CASE nxt \in Remaining /\ prev \notin Remaining
    <3>1. pPrev'[nxt] = prev
      BY <1>1, <2>1 DEF Pointers
    <3>2. QED BY <1>2, <2>1, <2>4, <3>1 DEF Damaged
  <2>5. QED BY <2>1, <2>2, <2>3, <2>4 DEF Damaged
<1>6. QED BY <1>3, <1>4, <1>5

\* What is read from a cell is a cell.
LEMMA ChildrenTyped ==
    ASSUME ChildrenType, users = "children", ChildUsers
    PROVE  ChildrenType'
<1>1. Pointers /\ linked \subseteq Nodes /\ Dummy \in Cells /\ \A x \in Nodes : x \in Cells
  BY DEF ChildrenType, Cells
<1>2. CASE LockedBetween
  <2>1. PICK y \in Nodes : LockedPush(y) \/ LockedErase(y)
    BY <1>2 DEF LockedBetween
  <2>2. Pointers' /\ linked' \subseteq Nodes
    <3>1. y \in Cells /\ pNext[y] \in Cells /\ pPrev[y] \in Cells /\ pPrev[Dummy] \in Cells
      BY <1>1, <2>1 DEF Pointers
    <3>2. CASE LockedPush(y)
      BY <1>1, <3>1, <3>2 DEF LockedPush, Pointers
    <3>3. CASE LockedErase(y)
      BY <1>1, <3>1, <3>3 DEF LockedErase, Pointers
    <3>4. QED BY <2>1, <3>2, <3>3
  <2>3. QED BY <1>2, <2>2 DEF LockedBetween, ChildrenType
<1>3. CASE \E x \in Nodes : EraseBegin(x)
  <2>1. PICK x \in Nodes : EraseBegin(x)
    BY <1>3
  <2>2. pPrev[x] \in Cells
    BY <1>1 DEF Pointers
  <2>3. QED BY <1>1, <2>1, <2>2 DEF EraseBegin, ChildrenType, listVars, Pointers
<1>4. CASE EraseReadNext
  <2>1. ptr \in Nodes
    BY <1>4 DEF EraseReadNext, ChildrenType
  <2>2. pNext[ptr] \in Cells
    BY <1>1, <2>1 DEF Pointers
  <2>3. QED BY <1>1, <1>4, <2>2 DEF EraseReadNext, ChildrenType, listVars, Pointers
<1>5. CASE EraseLeft \/ EraseRight
  <2>1. prev \in Cells /\ nxt \in Cells
    BY <1>5 DEF EraseLeft, EraseRight, ChildrenType
  <2>2. QED BY <1>1, <1>5, <2>1 DEF EraseLeft, EraseRight, ChildrenType, Pointers
<1>6. QED BY <1>2, <1>3, <1>4, <1>5 DEF ChildUsers

\* A step of the users of a list of children.
LEMMA ChildrenKeeps ==
    ASSUME ChildrenInv, users = "children", ChildUsers
    PROVE  ChildrenInv'
<1>1. ChildrenType /\ ChildrenType' /\ disturbed \in BOOLEAN /\ users' = "children"
  BY ChildrenTyped DEF ChildrenInv, ChildUsers
<1>2. cpc \in {"idle", "erase", "left", "right"} /\ linked \subseteq Nodes
  BY <1>1 DEF ChildrenType
<1>3. CASE disturbed = TRUE
  <2>1. EraseReadNext \/ EraseLeft \/ EraseRight
    BY <1>3 DEF ChildUsers, LockedBetween
  <2>2. disturbed' = TRUE
    BY <1>3, <2>1 DEF ChildUsers, LockedBetween
  <2>3. Damaged'
    BY <1>1, <1>3, <2>1, DamageStays DEF ChildrenInv
  <2>4. QED BY <1>1, <2>2, <2>3 DEF ChildrenInv
<1>4. CASE disturbed = FALSE
  <2>1. PICK s \in Seq(Nodes), k \in Nat : ChildrenAt(s, k)
    BY <1>4 DEF ChildrenInv
  <2>2. ASSUME disturbed' = FALSE, \E r \in Seq(Nodes), j \in Nat : ChildrenAt(r, j)'
        PROVE  ChildrenInv'
    BY <1>1, <2>2 DEF ChildrenInv
  <2>3. CASE LockedBetween
    <3>1. PICK y \in Nodes :
             /\ cpc # "idle" => y # ptr
             /\ \/ LockedPush(y) /\ disturbed' = (cpc \in {"left", "right"} /\ nxt = Dummy)
                \/ LockedErase(y) /\ disturbed' = (cpc # "idle" /\ (y = prev \/ (cpc # "erase" /\ y = nxt)))
      BY <2>3 DEF LockedBetween
    <3>2. UNCHANGED <<cpc, ptr, nxt, prev>>
      BY <2>3 DEF LockedBetween
    <3>3. CASE LockedPush(y) /\ disturbed' = (cpc \in {"left", "right"} /\ nxt = Dummy)
      <4>1. CASE cpc \in {"left", "right"} /\ nxt = Dummy
        <5>1. Damaged'
          BY <1>2, <2>1, <3>1, <3>2, <3>3, <4>1, PushDamages
        <5>2. disturbed' = TRUE
          BY <3>3, <4>1
        <5>3. QED BY <1>1, <5>1, <5>2 DEF ChildrenInv
      <4>2. CASE ~(cpc \in {"left", "right"} /\ nxt = Dummy)
        <5>1. \E r \in Seq(Nodes) : ChildrenAt(r, k)'
          BY <2>1, <3>2, <3>3, <4>2, PushBetween
        <5>2. disturbed' = FALSE
          BY <3>3, <4>2
        <5>3. QED BY <2>2, <5>1, <5>2
      <4>3. QED BY <4>1, <4>2
    <3>4. CASE LockedErase(y) /\ disturbed' = (cpc # "idle" /\ (y = prev \/ (cpc # "erase" /\ y = nxt)))
      <4>1. CASE cpc # "idle" /\ (y = prev \/ (cpc # "erase" /\ y = nxt))
        <5>1. Damaged'
          BY <1>2, <2>1, <3>1, <3>2, <3>4, <4>1, EraseDamages
        <5>2. disturbed' = TRUE
          BY <3>4, <4>1
        <5>3. QED BY <1>1, <5>1, <5>2 DEF ChildrenInv
      <4>2. CASE ~(cpc # "idle" /\ (y = prev \/ (cpc # "erase" /\ y = nxt)))
        <5>1. \E r \in Seq(Nodes), m \in Nat : ChildrenAt(r, m)'
          BY <1>2, <2>1, <3>1, <3>2, <3>4, <4>2, EraseBetween
        <5>2. disturbed' = FALSE
          BY <3>4, <4>2
        <5>3. QED BY <2>2, <5>1, <5>2
      <4>3. QED BY <4>1, <4>2
    <3>5. QED BY <3>1, <3>3, <3>4
  <2>4. CASE ~LockedBetween
    <3>1. disturbed' = FALSE /\ ((\E x \in Nodes : EraseBegin(x)) \/ EraseReadNext \/ EraseLeft \/ EraseRight)
      BY <1>4, <2>4 DEF ChildUsers
    <3>2. CASE \E x \in Nodes : EraseBegin(x)
      BY <2>1, <2>2, <3>1, <3>2, EraseBeginKeeps
    <3>3. CASE EraseReadNext
      BY <2>1, <2>2, <3>1, <3>3, EraseReadNextKeeps
    <3>4. CASE EraseLeft
      BY <2>1, <2>2, <3>1, <3>4, EraseLeftKeeps
    <3>5. CASE EraseRight
      <4>1. \E r \in Seq(Nodes) : ChildrenAt(r, 0)'
        BY <2>1, <3>5, EraseRightKeeps
      <4>2. QED BY <2>2, <3>1, <4>1
    <3>6. QED BY <3>1, <3>2, <3>3, <3>4, <3>5
  <2>5. QED BY <2>3, <2>4
<1>5. QED BY <1>1, <1>3, <1>4

\* No pointer leads out of a list that is well linked.
LEMMA WholeUndamaged ==
    ASSUME Pointers, linked \subseteq Nodes, cpc = "idle", WellLinked
    PROVE  ~Damaged
<1> DEFINE w == Walk(pNext)
           N == Cardinality(Nodes)
           Ends == {i \in 0 .. N : w[i] = Dummy}
           Back(i) == w[i] = Dummy /\ \A j \in 0 .. i - 1 : w[j] # Dummy
           e == CHOOSE i \in DOMAIN w : Back(i)
           R == linked \cup {Dummy}
<1>1. /\ N \in Nat /\ DOMAIN w = 0 .. N
      /\ w[0] = pNext[Dummy]
      /\ \A i \in 1 .. N : w[i] = pNext[w[i - 1]]
  BY WalkSteps DEF Pointers
<1>2. /\ \E i \in 0 .. N : w[i] = Dummy
      /\ {Forward[i] : i \in DOMAIN Forward} = linked
      /\ \A c \in R : pPrev[pNext[c]] = c
  BY DEF WellLinked
<1>3. Forward = [i \in 1 .. e |-> w[i - 1]]
  BY DEF Forward
<1> HIDE DEF w, N
<1>4. \E i \in DOMAIN w : Back(i)
  <2>1. Ends # {} /\ Ends \subseteq Nat
    BY <1>1, <1>2
  <2> HIDE DEF Ends
  <2>2. \E i \in Ends : \A j \in Ends : ~ (<<j, i>> \in OpToRel(<, Nat))
    BY <2>1, WFMin, NatLessThanWellFounded
  <2>3. PICK i \in Ends : \A j \in Ends : ~ (j < i)
    BY <2>1, <2>2 DEF OpToRel
  <2>4. i \in 0 .. N /\ w[i] = Dummy
    BY <2>3 DEF Ends
  <2>5. ASSUME NEW j \in 0 .. i - 1 PROVE w[j] # Dummy
    <3>1. j \in 0 .. N /\ j < i
      BY <1>1, <2>4
    <3>2. j \notin Ends
      BY <2>3, <3>1
    <3>3. QED BY <3>1, <3>2 DEF Ends
  <2>6. QED BY <1>1, <2>4, <2>5
<1>5. e \in 0 .. N /\ w[e] = Dummy
  <2> HIDE DEF Back
  <2>1. e \in DOMAIN w /\ Back(e)
    BY <1>4
  <2>2. QED BY <1>1, <2>1 DEF Back
<1> HIDE DEF e
<1>6. DOMAIN Forward = 1 .. e /\ \A i \in 1 .. e : Forward[i] = w[i - 1]
  BY <1>3
<1>7. \A i \in 1 .. e : w[i - 1] \in linked
  BY <1>2, <1>6
<1>8. \A c \in linked : \E i \in 1 .. e : c = w[i - 1]
  BY <1>2, <1>6
<1>9. \A i \in 0 .. e : w[i] \in R
  <2>1. TAKE i \in 0 .. e
  <2>2. CASE i = e
    BY <1>5, <2>2
  <2>3. CASE i # e
    <3>1. i + 1 \in 1 .. e /\ i + 1 - 1 = i
      BY <1>1, <1>5, <2>3
    <3>2. QED BY <1>7, <3>1
  <2>4. QED BY <2>2, <2>3
<1>10. \A c \in R : pNext[c] \in R
  <2>1. TAKE c \in R
  <2>2. CASE c = Dummy
    <3>1. 0 \in 0 .. e
      BY <1>5
    <3>2. QED BY <1>1, <1>9, <2>2, <3>1
  <2>3. CASE c \in linked
    <3>1. PICK i \in 1 .. e : c = w[i - 1]
      BY <1>8, <2>3
    <3>2. i \in 0 .. e /\ i \in 1 .. N
      BY <1>1, <1>5
    <3>3. QED BY <1>1, <1>9, <3>1, <3>2
  <2>4. QED BY <2>2, <2>3
<1>11. \A i \in 0 .. e : pPrev[w[i]] \in R
  <2>1. TAKE i \in 0 .. e
  <2>2. CASE i = 0
    <3>1. Dummy \in R /\ w[i] = pNext[Dummy]
      BY <1>1, <2>2
    <3>2. QED BY <1>2, <3>1
  <2>3. CASE i # 0
    <3>1. i - 1 \in 0 .. e /\ i \in 1 .. N
      BY <1>1, <1>5, <2>3
    <3>2. w[i] = pNext[w[i - 1]] /\ w[i - 1] \in R
      BY <1>1, <1>9, <3>1
    <3>3. QED BY <1>2, <3>2
  <2>4. QED BY <2>2, <2>3
<1>12. \A c \in R : pPrev[c] \in R
  <2>1. TAKE c \in R
  <2>2. \E i \in 0 .. e : c = w[i]
    <3>1. CASE c = Dummy
      <4>1. e \in 0 .. e
        BY <1>5
      <4>2. QED BY <1>5, <3>1, <4>1
    <3>2. CASE c \in linked
      <4>1. PICK i \in 1 .. e : c = w[i - 1]
        BY <1>8, <3>2
      <4>2. i - 1 \in 0 .. e
        BY <1>5
      <4>3. QED BY <4>1, <4>2
    <3>3. QED BY <3>1, <3>2
  <2>3. QED BY <1>11, <2>2
<1>13. Remaining = R
  BY DEF Remaining
<1>14. QED BY <1>10, <1>12, <1>13 DEF Damaged

-----------------------------------------------------------------------------
(* What holds whoever uses the list. *)

\* A list begins empty, and its users stay the same.
LEMMA ListStarts == Init => ListInv
<1>1. SUFFICES ASSUME Init PROVE ListInv
  OBVIOUS
<1>2. ListAt(<<>>, 0) /\ linked = {} /\ Pointers
  BY <1>1, EmptyList DEF Init, ListInit, ListAt
<1>3. <<>> \in Seq(Nodes) /\ Len(<<>>) = 0 /\ Distinct(<<>>) /\ \A i \in Int : Cell(<<>>, i) = Dummy
  BY EmptySeq, EmptyLemma DEF Cell
<1>4. LockedInv
  BY <1>2, <1>3 DEF LockedInv
<1>5. ChildrenInv
  <2>1. ChildrenType
    BY <1>1, <1>2 DEF Init, ChildrenType
  <2>2. ChildrenAt(<<>>, 0)
    BY <1>1, <1>2, <1>3 DEF Init, ChildrenAt, ErasesAt
  <2>3. QED BY <1>1, <1>3, <2>1, <2>2 DEF Init, ChildrenInv
<1>6. LockFreeInv
  <2>1. Waiting = <<>> /\ cpc = "idle" /\ ppc = "idle" /\ queue = <<>> /\ size = 0
    BY <1>1 DEF Init, ListInit, Waiting, Taken
  <2>2. Dummy \in Cells
    BY DEF Cells
  <2>3. pNext[Dummy] = Dummy /\ pPrev[Dummy] = Dummy
    BY <1>1, <2>2 DEF Init, ListInit
  <2>4. LockFreeType
    BY <1>1, <1>2, <1>3, <2>1, <2>2 DEF Init, LockFreeType
  <2>5. Pushing(<<>>) /\ Chained(<<>>) /\ Popping(<<>>) /\ HeadLeads(<<>>) /\ Counted
    BY <1>3, <2>1, <2>3 DEF Pushing, Chained, Popping, HeadLeads, Counted, Last
  <2>6. users = "lockfree" => LockFreeAt(<<>>)
    BY <2>1, <2>4, <2>5 DEF LockFreeAt
  <2>7. QED BY <1>3, <2>1, <2>6 DEF LockFreeInv
<1>7. QED BY <1>1, <1>4, <1>5, <1>6 DEF Init, ListInv

\* A step without change.
LEMMA ListRests == ASSUME ListInv, UNCHANGED vars PROVE ListInv'
<1>1. /\ UNCHANGED <<pNext, pPrev, size, linked, users, ppc, pNode, tail>>
      /\ UNCHANGED <<cpc, ptr, nxt, dnext, queue, prev, disturbed>>
  BY DEF vars, listVars, producer, consumer, eraser
<1>2. ASSUME NEW s \in Seq(Nodes), NEW k \in Int, ListAt(s, k) PROVE ListAt(s, k)'
  BY <1>1, <1>2 DEF ListAt, Pointers, Holds, Forwards, Backwards
<1>3. LockedInv'
  BY <1>1, <1>2 DEF ListInv, LockedInv
<1>4. ChildrenInv'
  <2>1. ASSUME Damaged PROVE Damaged'
    BY <1>1, <2>1 DEF Damaged, Remaining
  <2>2. ASSUME NEW s \in Seq(Nodes), NEW k \in Nat, ChildrenAt(s, k) PROVE ChildrenAt(s, k)'
    <3>1. ErasesAt(s, k)'
      BY <1>1, <2>2 DEF ChildrenAt, ErasesAt
    <3>2. CASE cpc = "right"
      BY <1>1, <1>2, <2>2, <3>1, <3>2 DEF ChildrenAt
    <3>3. CASE cpc # "right"
      BY <1>1, <1>2, <2>2, <3>1, <3>3 DEF ChildrenAt
    <3>4. QED BY <3>2, <3>3
  <2>3. ChildrenType => ChildrenType'
    BY <1>1 DEF ChildrenType, Pointers
  <2>4. QED BY <1>1, <2>1, <2>2, <2>3 DEF ListInv, ChildrenInv
<1>5. LockFreeInv'
  <2>1. ASSUME NEW w \in Seq(Nodes), LockFreeAt(w) PROVE LockFreeAt(w)'
    <3>1. Waiting' = Waiting
      BY <1>1 DEF Waiting, Taken
    <3>2. LockFreeType' /\ Counted'
      BY <1>1, <2>1 DEF LockFreeAt, LockFreeType, Pointers, Counted
    <3>3. Pushing(w)' /\ Chained(w)'
      BY <1>1, <2>1 DEF LockFreeAt, Pushing, Chained
    <3>4. Popping(w)' /\ HeadLeads(w)'
      BY <1>1, <2>1 DEF LockFreeAt, Popping, HeadLeads
    <3>5. QED BY <1>1, <2>1, <3>1, <3>2, <3>3, <3>4 DEF LockFreeAt
  <2>2. QED BY <1>1, <2>1 DEF ListInv, LockFreeInv
<1>6. QED BY <1>1, <1>3, <1>4, <1>5 DEF ListInv

\* Every step of its users keeps it.
LEMMA ListKeeps == ASSUME ListInv, [Next]_vars PROVE ListInv'
<1>1. CASE LockedUsers
  <2>1. users = "locked" /\ users' = "locked" /\ UNCHANGED lockFreeVars
    BY <1>1 DEF LockedUsers
  <2>2. LockedInv'
    BY <2>1, LockedKeeps DEF ListInv
  <2>3. QED BY <2>1, <2>2 DEF ListInv, ChildrenInv, LockFreeInv, lockFreeVars, consumer, eraser
<1>2. CASE LockFreeUsers
  <2>1. users = "lockfree" /\ users' = "lockfree" /\ UNCHANGED eraser
    BY <1>2 DEF LockFreeUsers
  <2>2. PICK w \in Seq(Nodes) : LockFreeAt(w)
    BY <2>1 DEF ListInv, LockFreeInv
  <2>3. \E v \in Seq(Nodes) : LockFreeAt(v)'
    BY <1>2, <2>2, LockFreeKeeps
  <2>4. QED BY <2>1, <2>3 DEF ListInv, LockedInv, ChildrenInv, LockFreeInv, eraser
<1>3. CASE ChildUsers
  <2>1. users = "children" /\ users' = "children" /\ queue' = queue
    BY <1>3 DEF ChildUsers
  <2>2. ChildrenInv'
    BY <1>3, <2>1, ChildrenKeeps DEF ListInv
  <2>3. cpc' \notin {"head", "relink", "size"}
    BY <2>1, <2>2 DEF ChildrenInv, ChildrenType
  <2>4. QED BY <2>1, <2>2, <2>3 DEF ListInv, LockedInv, LockFreeInv
<1>4. QED BY <1>1, <1>2, <1>3, ListRests DEF Next

\* Where the pointers of a list lead, under a lock, between a producer and a consumer
\* and for a list of children.
THEOREM ListInvariant == Spec => []ListInv
<1>1. Init => ListInv
  BY ListStarts
<1>2. ListInv /\ [Next]_vars => ListInv'
  BY ListKeeps
<1>3. QED BY <1>1, <1>2, PTL DEF Spec

\* A list is whole whenever its header promises it, for any number of nodes, and a
\* list of children exactly if nobody disturbed the erase that takes no lock
\* (linkedlist.h:57-58 and 137-145, task.c:704-706).
THEOREM ListsWhole == Spec => []ListWhole
<1>1. ListInv => ListWhole
  <2>1. SUFFICES ASSUME ListInv PROVE ListWhole
    OBVIOUS
  <2>2. CASE users = "locked"
    <3>1. PICK s \in Seq(Nodes) : ListAt(s, 0)
      BY <2>1, <2>2 DEF ListInv, LockedInv
    <3>2. QED BY <2>2, <3>1, ListMet DEF ListWhole
  <2>3. CASE users = "lockfree"
    <3>1. Counted
      BY <2>1, <2>3 DEF ListInv, LockFreeInv, LockFreeAt
    <3>2. queue \in Seq(Nodes)
      BY <2>1, <2>3 DEF ListInv, LockFreeInv, LockFreeAt, LockFreeType
    <3>3. Quiet => size = Len(queue)
      BY <3>1, <3>2, LenProperties DEF Counted, Quiet
    <3>4. QED BY <2>3, <3>3 DEF ListWhole
  <2>4. CASE users = "children"
    <3>1. ASSUME cpc = "idle" PROVE WellLinked = ~disturbed
      <4>1. ChildrenType /\ disturbed \in BOOLEAN
        BY <2>1, <2>4 DEF ListInv, ChildrenInv
      <4>2. CASE disturbed = FALSE
        <5>1. PICK s \in Seq(Nodes), k \in Nat : ChildrenAt(s, k)
          BY <2>1, <2>4, <4>2 DEF ListInv, ChildrenInv
        <5>2. ListAt(s, 0)
          BY <3>1, <5>1 DEF ChildrenAt
        <5>3. WellLinked
          BY <5>2, ListMet
        <5>4. WellLinked \in BOOLEAN
          BY DEF WellLinked
        <5>5. QED BY <4>2, <5>3, <5>4
      <4>3. CASE disturbed = TRUE
        <5>1. Damaged
          BY <2>1, <2>4, <4>3 DEF ListInv, ChildrenInv
        <5>2. ~WellLinked
          BY <3>1, <4>1, <5>1, WholeUndamaged DEF ChildrenType
        <5>3. WellLinked \in BOOLEAN
          BY DEF WellLinked
        <5>4. QED BY <4>3, <5>2, <5>3
      <4>4. QED BY <4>1, <4>2, <4>3
    <3>2. QED BY <2>4, <3>1 DEF ListWhole
  <2>5. QED BY <2>1, <2>2, <2>3, <2>4 DEF ListInv
<1>2. QED BY <1>1, ListInvariant, PTL

\* Under a lock the pointers are the ordered list the callers rely on, for any number
\* of nodes (linkedlist.h:49).
THEOREM ListIsFifo == Spec => QueueSpec
<1>1. Init => Queue!Init
  <2>1. SUFFICES ASSUME Init PROVE Queue!Init
    OBVIOUS
  <2>2. ListAt(<<>>, 0) /\ <<>> \in Seq(Nodes)
    BY <2>1, EmptyList, EmptySeq DEF Init
  <2>3. Forward = <<>>
    BY <2>2, ListMet
  <2>4. QED BY <2>3 DEF Queue!Init
<1>2. ListInv /\ [Next]_vars => [Queue!Next]_(IF users = "locked" THEN Forward ELSE <<>>)
  <2>1. SUFFICES ASSUME ListInv, [Next]_vars
                 PROVE  [Queue!Next]_(IF users = "locked" THEN Forward ELSE <<>>)
    OBVIOUS
  <2>2. CASE users = "locked"
    BY <2>1, <2>2, LockedKeeps DEF ListInv
  <2>3. CASE users # "locked"
    <3>1. users' # "locked"
      BY <2>1, <2>3 DEF Next, LockedUsers, LockFreeUsers, ChildUsers, vars
    <3>2. QED BY <2>3, <3>1
  <2>4. QED BY <2>2, <2>3
<1>3. QED BY <1>1, <1>2, ListInvariant, PTL DEF Spec, QueueSpec, Queue!Spec

\* However the steps of a producer and a consumer interleave, for any number of nodes
\* and whether or not a push can be interrupted, nodes come out in the order they went
\* in until a push lands in the one window that cuts the queue (linkedlist.c:34-78).
THEOREM ListIsExitQueue == Spec => ExitSpec
<1>1. Init => Exit!Init
  BY DEF Init, ListInit, Exit!Init, Taken, Waiting
<1>2. ListInv /\ [Next]_vars => [Exit!Next]_(Exit!vars)
  <2>1. SUFFICES ASSUME ListInv, [Next]_vars PROVE [Exit!Next]_(Exit!vars)
    OBVIOUS
  <2>2. CASE LockFreeUsers
    <3>1. PICK w \in Seq(Nodes) : LockFreeAt(w)
      BY <2>1, <2>2 DEF LockFreeUsers, ListInv, LockFreeInv
    <3>2. QED BY <2>2, <3>1, LockFreeKeeps
  <2>3. CASE LockedUsers \/ ChildUsers
    <3>1. users # "lockfree" /\ users' # "lockfree" /\ queue' = queue
      BY <2>3 DEF LockedUsers, ChildUsers, lockFreeVars
    <3>2. LockFreeInv /\ LockFreeInv'
      BY <2>1, ListKeeps DEF ListInv
    <3>3. queue = <<>> /\ cpc \notin {"head", "relink", "size"} /\ cpc' \notin {"head", "relink", "size"}
      BY <3>1, <3>2 DEF LockFreeInv
    <3>4. QED BY <3>1, <3>3 DEF Exit!vars, Taken, Waiting
  <2>4. CASE UNCHANGED vars
    BY <2>4 DEF vars, listVars, producer, consumer, eraser, Exit!vars, Taken, Waiting
  <2>5. QED BY <2>1, <2>2, <2>3, <2>4 DEF Next
<1>3. QED BY <1>1, <1>2, ListInvariant, PTL DEF Spec, ExitSpec, Exit!Spec

-----------------------------------------------------------------------------
(* Powers of two. *)

\* A set of numbers that is not empty has a least one.
LEMMA LeastIs ==
    ASSUME NEW S, S \subseteq Nat, S # {}
    PROVE  \E x \in S : \A y \in S : x <= y
<1>1. \E x \in S : \A y \in S : ~ (<<y, x>> \in OpToRel(<, Nat))
  BY NatLessThanWellFounded, WFMin
<1>2. PICK x \in S : \A y \in S : ~ (y < x)
  BY <1>1 DEF OpToRel
<1>3. \A y \in S : x <= y
  BY <1>2
<1>4. QED BY <1>3

\* f doubles n times, from 1.
Doubles(f, n) == f \in [0 .. n -> Nat] /\ f[0] = 1 /\ \A d \in 1 .. n : f[d] = 2 * f[d - 1]

\* Doubling can be done as often as one likes.
LEMMA DoublesExist == \A n \in Nat : \E f : Doubles(f, n)
<1> DEFINE Short == {n \in Nat : ~ \E f : Doubles(f, n)}
<1>1. SUFFICES ASSUME Short # {} PROVE FALSE
  OBVIOUS
<1>2. PICK n \in Short : \A m \in Short : n <= m
  <2>1. Short \subseteq Nat
    OBVIOUS
  <2> HIDE DEF Short
  <2>2. QED BY <1>1, <2>1, LeastIs
<1>3. n \in Nat /\ ~ \E f : Doubles(f, n)
  OBVIOUS
<1>4. CASE n = 0
  <2> DEFINE g == [d \in 0 .. 0 |-> 1]
  <2>1. Doubles(g, 0)
    BY DEF Doubles
  <2>2. QED BY <1>3, <1>4, <2>1
<1>5. CASE n # 0
  <2>1. n - 1 \in Nat /\ ~ (n <= n - 1)
    BY <1>3, <1>5
  <2>2. n - 1 \notin Short
    BY <1>2, <2>1
  <2>3. PICK f : Doubles(f, n - 1)
    BY <2>1, <2>2
  <2> DEFINE g == [d \in 0 .. n |-> IF d = n THEN 2 * f[n - 1] ELSE f[d]]
  <2>4. /\ \A d \in 0 .. n - 1 : f[d] \in Nat /\ g[d] = f[d]
        /\ g[n] = 2 * f[n - 1] /\ f[n - 1] \in Nat
    BY <1>3, <2>1, <2>3 DEF Doubles
  <2>5. \A d \in 0 .. n : g[d] \in Nat
    <3> HIDE DEF g
    <3>1. ASSUME NEW d \in 0 .. n PROVE g[d] \in Nat
      <4>1. d = n \/ d \in 0 .. n - 1
        BY <1>3
      <4>2. QED BY <2>4, <4>1
    <3>2. QED BY <3>1
  <2>6. g \in [0 .. n -> Nat]
    <3> DEFINE h(d) == IF d = n THEN 2 * f[n - 1] ELSE f[d]
    <3>1. \A d \in 0 .. n : h(d) \in Nat
      BY <2>5
    <3> HIDE DEF h
    <3>2. [d \in 0 .. n |-> h(d)] \in [0 .. n -> Nat]
      BY <3>1
    <3>3. QED BY <3>2 DEF h
  <2> HIDE DEF g
  <2>7. g[0] = 1
    BY <2>1, <2>3, <2>4 DEF Doubles
  <2>8. ASSUME NEW d \in 1 .. n PROVE g[d] = 2 * g[d - 1]
    <3>1. d - 1 \in 0 .. n - 1 /\ (d = n \/ d \in 1 .. n - 1)
      BY <1>3
    <3>2. g[d - 1] = f[d - 1]
      BY <2>4, <3>1
    <3>3. CASE d = n
      BY <2>4, <3>2, <3>3
    <3>4. CASE d \in 1 .. n - 1
      <4>1. d \in 0 .. n - 1
        BY <3>4
      <4>2. QED BY <2>3, <2>4, <3>2, <3>4, <4>1 DEF Doubles
    <3>5. QED BY <3>1, <3>3, <3>4
  <2>9. Doubles(g, n)
    BY <2>6, <2>7, <2>8 DEF Doubles
  <2>10. QED BY <1>3, <2>9
<1>6. QED BY <1>4, <1>5

\* It comes to the same each time.
LEMMA DoublesSame ==
    ASSUME NEW m \in Nat, NEW n \in Nat, NEW f, NEW g, Doubles(f, m), Doubles(g, n), m <= n
    PROVE  \A d \in 0 .. m : f[d] = g[d]
<1> DEFINE Bad == {d \in 0 .. m : f[d] # g[d]}
<1>1. SUFFICES ASSUME Bad # {} PROVE FALSE
  OBVIOUS
<1>2. PICK d \in Bad : \A e \in Bad : d <= e
  <2>1. Bad \subseteq Nat
    OBVIOUS
  <2> HIDE DEF Bad
  <2>2. QED BY <1>1, <2>1, LeastIs
<1>3. d \in 0 .. m /\ f[d] # g[d]
  OBVIOUS
<1>4. d # 0
  BY <1>3 DEF Doubles
<1>5. d \in 1 .. m /\ d \in 1 .. n /\ d - 1 \in 0 .. m /\ ~ (d <= d - 1)
  BY <1>3, <1>4
<1>6. f[d - 1] = g[d - 1]
  BY <1>2, <1>5
<1>7. QED BY <1>3, <1>5, <1>6 DEF Doubles

\* Pow2 is what its definition asks for, and grows faster than its argument.
LEMMA PowIs ==
    /\ Pow2[0] = 1
    /\ \A n \in Nat : Pow2[n] \in Nat \ {0} /\ Pow2[n + 1] = 2 * Pow2[n]
<1> DEFINE Body(f) == [n \in Nat |-> IF n = 0 THEN 1 ELSE 2 * f[n - 1]]
           F(n) == CHOOSE f : Doubles(f, n)
           h == [n \in Nat |-> F(n)[n]]
           p == CHOOSE f : f = Body(f)
<1>1. \A n \in Nat : Doubles(F(n), n)
  BY DoublesExist
<1> HIDE DEF F
<1>2. ASSUME NEW n \in Nat PROVE h[n] = IF n = 0 THEN 1 ELSE 2 * h[n - 1]
  <2>1. CASE n = 0
    BY <1>1, <2>1 DEF Doubles
  <2>2. CASE n # 0
    <3>1. n - 1 \in Nat /\ n - 1 <= n /\ n \in 1 .. n /\ n - 1 \in 0 .. n - 1
      BY <2>2
    <3>2. F(n - 1)[n - 1] = F(n)[n - 1]
      BY <1>1, <3>1, DoublesSame
    <3>3. F(n)[n] = 2 * F(n)[n - 1]
      BY <1>1, <3>1 DEF Doubles
    <3>4. QED BY <2>2, <3>1, <3>2, <3>3
  <2>3. QED BY <2>1, <2>2
<1>3. h = Body(h)
  BY <1>2
<1> HIDE DEF h
<1>4. p = Body(p)
  BY <1>3
<1>5. Pow2 = p
  BY DEF Pow2
<1> HIDE DEF p
<1>6. \A n \in Nat : Pow2[n] = IF n = 0 THEN 1 ELSE 2 * Pow2[n - 1]
  BY <1>4, <1>5
<1> DEFINE Bad == {n \in Nat : Pow2[n] \notin Nat \ {0}}
<1>7. Bad = {}
  <2>1. SUFFICES ASSUME Bad # {} PROVE FALSE
    OBVIOUS
  <2>2. PICK n \in Bad : \A m \in Bad : n <= m
    <3>1. Bad \subseteq Nat
      OBVIOUS
    <3> HIDE DEF Bad
    <3>2. QED BY <2>1, <3>1, LeastIs
  <2>3. n \in Nat /\ Pow2[n] \notin Nat \ {0}
    OBVIOUS
  <2>4. n # 0
    BY <1>6, <2>3
  <2>5. n - 1 \in Nat /\ ~ (n <= n - 1)
    BY <2>3, <2>4
  <2>6. Pow2[n - 1] \in Nat \ {0}
    BY <2>2, <2>5
  <2>7. QED BY <1>6, <2>3, <2>4, <2>6
<1>8. ASSUME NEW n \in Nat PROVE Pow2[n + 1] = 2 * Pow2[n]
  BY <1>6
<1>9. QED BY <1>6, <1>7, <1>8

\* A power of two is more than its exponent.
LEMMA PowGrows == \A n \in Nat : n < Pow2[n]
<1> DEFINE Bad == {n \in Nat : ~ (n < Pow2[n])}
<1>1. SUFFICES ASSUME Bad # {} PROVE FALSE
  OBVIOUS
<1>2. PICK n \in Bad : \A m \in Bad : n <= m
  <2>1. Bad \subseteq Nat
    OBVIOUS
  <2> HIDE DEF Bad
  <2>2. QED BY <1>1, <2>1, LeastIs
<1>3. n \in Nat /\ ~ (n < Pow2[n])
  OBVIOUS
<1>4. n # 0
  BY <1>3, PowIs
<1>5. n - 1 \in Nat /\ ~ (n <= n - 1) /\ n - 1 + 1 = n
  BY <1>3, <1>4
<1>6. n - 1 < Pow2[n - 1]
  BY <1>2, <1>5
<1>7. Pow2[n] = 2 * Pow2[n - 1] /\ Pow2[n - 1] \in Nat
  BY <1>5, PowIs
<1>8. QED BY <1>3, <1>5, <1>6, <1>7

\* Exponents add up.
LEMMA PowAdds == \A m, n \in Nat : Pow2[m + n] = Pow2[m] * Pow2[n]
<1> TAKE m \in Nat
<1> DEFINE Bad == {n \in Nat : Pow2[m + n] # Pow2[m] * Pow2[n]}
<1>1. SUFFICES ASSUME Bad # {} PROVE FALSE
  OBVIOUS
<1>2. PICK n \in Bad : \A k \in Bad : n <= k
  <2>1. Bad \subseteq Nat
    OBVIOUS
  <2> HIDE DEF Bad
  <2>2. QED BY <1>1, <2>1, LeastIs
<1>3. n \in Nat /\ Pow2[m + n] # Pow2[m] * Pow2[n]
  OBVIOUS
<1>4. Pow2[m] \in Nat
  BY PowIs
<1>5. n # 0
  BY <1>3, <1>4, PowIs
<1>6. n - 1 \in Nat /\ ~ (n <= n - 1) /\ n - 1 + 1 = n /\ m + (n - 1) \in Nat /\ m + (n - 1) + 1 = m + n
  BY <1>3, <1>5
<1>7. Pow2[m + (n - 1)] = Pow2[m] * Pow2[n - 1]
  BY <1>2, <1>6
<1>8. Pow2[n] = 2 * Pow2[n - 1] /\ Pow2[m + n] = 2 * Pow2[m + (n - 1)] /\ Pow2[n - 1] \in Nat
  BY <1>6, PowIs
<1> DEFINE a == Pow2[m]
           b == Pow2[n - 1]
<1>9. 2 * (a * b) = a * (2 * b)
  <2> HIDE DEF a, b
  <2>1. a \in Nat /\ b \in Nat
    BY <1>4, <1>8 DEF a, b
  <2>2. QED BY <2>1
<1>10. QED BY <1>3, <1>7, <1>8, <1>9

-----------------------------------------------------------------------------
(* Dividing by powers of two. *)

\* A quotient is the one number whose multiple is next below.
LEMMA DivBounds ==
    ASSUME NEW u \in Nat, NEW p \in Nat \ {0}
    PROVE  u \div p \in Nat /\ (u \div p) * p <= u /\ u < (u \div p) * p + p
OBVIOUS

\* Multiples of p are at least p apart.
LEMMA Apart2 ==
    ASSUME NEW a \in Int, NEW b \in Int, NEW p \in Nat, a < b
    PROVE  a * p + p <= b * p
<1>1. \E d \in Nat : b = a + 1 + d
  <2>1. b - a - 1 \in Nat /\ b = a + 1 + (b - a - 1)
    OBVIOUS
  <2>2. QED BY <2>1
<1>2. PICK d \in Nat : b = a + 1 + d
  BY <1>1
<1>3. b * p = a * p + p + d * p /\ d * p >= 0
  BY <1>2
<1>4. a * p \in Int /\ d * p \in Int /\ b * p \in Int
  OBVIOUS
<1>5. QED BY <1>3, <1>4

\* No other number has it.
LEMMA DivUnique ==
    ASSUME NEW u \in Nat, NEW p \in Nat \ {0}, NEW q \in Int, q * p <= u, u < q * p + p
    PROVE  u \div p = q
<1> DEFINE d == u \div p
<1>1. d \in Nat /\ d * p <= u /\ u < d * p + p
  BY DivBounds
<1>2. d * p \in Int /\ q * p \in Int
  BY <1>1
<1> HIDE DEF d
<1>3. ~ (d < q)
  BY <1>1, <1>2, Apart2
<1>4. ~ (q < d)
  BY <1>1, <1>2, Apart2
<1>5. QED BY <1>1, <1>3, <1>4 DEF d

\* To divide twice is to divide by the product.
LEMMA DivTwice ==
    ASSUME NEW u \in Nat, NEW a \in Nat \ {0}, NEW b \in Nat \ {0}
    PROVE  (u \div a) \div b = u \div (a * b)
<1> DEFINE q == u \div a
           r == q \div b
           c == a * b
<1>1. q \in Nat /\ q * a <= u /\ u < q * a + a
  BY DivBounds
<1> HIDE DEF q
<1>2. r \in Nat /\ r * b <= q /\ q < r * b + b
  BY <1>1, DivBounds
<1> HIDE DEF r
<1>3. c \in Nat \ {0}
  OBVIOUS
<1>4. r * b \in Nat /\ q * a \in Nat /\ r * c \in Nat /\ (r * b) * a = r * c /\ (r * b + b) * a = r * c + c
  BY <1>1, <1>2
<1>5. r * c <= q * a
  <2>1. CASE r * b = q
    BY <1>4, <2>1
  <2>2. CASE r * b < q
    <3>1. (r * b) * a + a <= q * a
      BY <1>1, <1>4, <2>2, Apart2
    <3>2. QED BY <1>4, <3>1
  <2>3. QED BY <1>1, <1>2, <1>4, <2>1, <2>2
<1>6. q * a + a <= r * c + c
  <2>1. r * b + b \in Int
    BY <1>4
  <2>2. q * a + a <= (r * b + b) * a
    BY <1>1, <1>2, <2>1, Apart2
  <2>3. QED BY <1>4, <2>2
<1> HIDE DEF c
<1>7. u \div c = r
  <2>1. r * c <= u /\ u < r * c + c /\ r \in Int
    BY <1>1, <1>2, <1>3, <1>4, <1>5, <1>6
  <2>2. QED BY <1>3, <2>1, DivUnique
<1>8. QED BY <1>7 DEF r, q, c

\* The block of level l that unit u is in
At(u, l) == u \div Pow2[l]

\* Blocks are numbered from 0; a unit is a block of level 0; two blocks of a level make one
\* of the next.
LEMMA AtIs ==
    ASSUME NEW u \in Nat, NEW l \in Nat
    PROVE  /\ At(u, l) \in Nat /\ At(u, 0) = u
           /\ At(u, l + 1) = At(u, l) \div 2
<1>1. Pow2[l] \in Nat \ {0} /\ Pow2[0] = 1 /\ Pow2[l + 1] = 2 * Pow2[l]
  BY PowIs
<1>2. At(u, l) \in Nat
  BY <1>1, DivBounds DEF At
<1>3. At(u, 0) = u
  BY <1>1 DEF At
<1> DEFINE p == Pow2[l]
<1>4. p \in Nat \ {0} /\ At(u, l) = u \div p /\ At(u, l + 1) = u \div (2 * p)
  BY <1>1 DEF At
<1> HIDE DEF p
<1>5. p * 2 = 2 * p /\ 2 \in Nat \ {0}
  BY <1>4
<1>6. (u \div p) \div 2 = u \div (p * 2)
  BY <1>4, <1>5, DivTwice
<1>7. QED BY <1>2, <1>3, <1>4, <1>5, <1>6

\* The block that a unit's block of level k is part of
LEMMA AtTwice ==
    ASSUME NEW u \in Nat, NEW k \in Nat, NEW l \in Nat, k <= l
    PROVE  At(u, k) \div Pow2[l - k] = At(u, l)
<1>1. l - k \in Nat /\ k + (l - k) = l
  OBVIOUS
<1>2. Pow2[k] \in Nat \ {0} /\ Pow2[l - k] \in Nat \ {0} /\ Pow2[l] = Pow2[k] * Pow2[l - k]
  BY <1>1, PowIs, PowAdds
<1> DEFINE a == Pow2[k]
           b == Pow2[l - k]
<1>3. a \in Nat \ {0} /\ b \in Nat \ {0} /\ Pow2[l] = a * b
  BY <1>2
<1> HIDE DEF a, b
<1>4. (u \div a) \div b = u \div (a * b)
  BY <1>3, DivTwice
<1>5. QED BY <1>3, <1>4 DEF At, a, b

\* Units of one block are in one block of each higher level.
LEMMA AtUp ==
    ASSUME NEW u \in Nat, NEW v \in Nat, NEW k \in Nat, NEW l \in Nat, k <= l, At(u, k) = At(v, k)
    PROVE  At(u, l) = At(v, l)
BY AtTwice

\* What precedes is in no later block.
LEMMA AtOrder ==
    ASSUME NEW u \in Nat, NEW v \in Nat, NEW l \in Nat, u <= v
    PROVE  At(u, l) <= At(v, l)
<1> DEFINE p == Pow2[l]
           a == At(u, l)
           b == At(v, l)
<1>1. p \in Nat \ {0}
  BY PowIs
<1>2. a \in Nat /\ b \in Nat
  BY AtIs
<1>3. a * p <= u /\ v < b * p + p
  <2>1. a = u \div p /\ b = v \div p
    BY DEF At
  <2> HIDE DEF p, a, b
  <2>2. QED BY <1>1, <2>1, DivBounds
<1> HIDE DEF p, a, b
<1>4. ~ (b < a)
  <2>1. b < a => b * p + p <= a * p
    BY <1>1, <1>2, Apart2
  <2>2. b * p \in Int /\ a * p \in Int
    BY <1>1, <1>2
  <2>3. QED BY <1>1, <1>3, <2>1, <2>2
<1>5. QED BY <1>2, <1>4 DEF a, b

\* The units of block b of level l are those whose block of level l is b; it has one.
LEMMA UnitsAre ==
    ASSUME NEW l \in Nat, NEW b \in Nat
    PROVE  /\ \A u \in Nat : u \in Units(l, b) <=> At(u, l) = b
           /\ Units(l, b) \subseteq Nat
           /\ b * Pow2[l] \in Nat /\ At(b * Pow2[l], l) = b
<1> DEFINE p == Pow2[l]
           s == b * p
<1>1. p \in Nat \ {0}
  BY PowIs
<1>2. Units(l, b) = s .. s + p - 1 /\ s \in Nat
  <2>1. (b + 1) * p = s + p
    <3> HIDE DEF p
    <3>1. QED BY <1>1
  <2>2. Units(l, b) = s .. (b + 1) * p - 1
    BY DEF Units
  <2>3. s \in Nat
    <3> HIDE DEF p
    <3>1. QED BY <1>1
  <2> HIDE DEF s, p
  <2>4. QED BY <1>1, <2>1, <2>2, <2>3
<1>3. ASSUME NEW u \in Nat PROVE u \in Units(l, b) <=> u \div p = b
  <2>1. u \in Units(l, b) <=> (s <= u /\ u < s + p)
    <3> HIDE DEF s, p
    <3>1. QED BY <1>1, <1>2
  <2> HIDE DEF p
  <2>2. s <= u /\ u < s + p => u \div p = b
    BY <1>1, DivUnique
  <2>3. u \div p = b => s <= u /\ u < s + p
    BY <1>1, DivBounds
  <2>4. QED BY <1>1, <2>1, <2>2, <2>3
<1>4. s \in Units(l, b)
  <2> HIDE DEF s, p
  <2>1. QED BY <1>1, <1>2
<1>5. Units(l, b) \subseteq Nat
  <2> HIDE DEF s, p
  <2>1. QED BY <1>1, <1>2
<1>6. \A u \in Nat : At(u, l) = u \div p
  BY DEF At
<1> HIDE DEF p
<1>7. s \div p = b
  BY <1>2, <1>3, <1>4
<1>8. QED BY <1>2, <1>3, <1>5, <1>6, <1>7 DEF p

\* CountsAgree in blocks of the lower level k, the first unit of block b of level l.
LEMMA AtStart ==
    ASSUME NEW b \in Nat, NEW k \in Nat, NEW l \in Nat, k <= l
    PROVE  /\ At(b * Pow2[l], k) = b * Pow2[l - k]
           /\ k < l => (b * Pow2[l - k]) % 2 = 0
<1>1. l - k \in Nat /\ k + (l - k) = l
  OBVIOUS
<1>2. Pow2[k] \in Nat \ {0} /\ Pow2[l - k] \in Nat \ {0} /\ Pow2[l] = Pow2[k] * Pow2[l - k]
  BY <1>1, PowIs, PowAdds
<1> DEFINE p == Pow2[k]
           q == Pow2[l - k]
           s == b * q
<1>3. p \in Nat \ {0} /\ q \in Nat \ {0} /\ Pow2[l] = p * q
  BY <1>2
<1>4. s \in Nat /\ b * (p * q) = s * p
  <2> HIDE DEF p, q
  <2>1. QED BY <1>3
<1>5. At(s * p, k) = s
  <2> HIDE DEF s
  <2>1. QED BY <1>4, UnitsAre
<1>6. b * Pow2[l] = s * p
  BY <1>3, <1>4
<1>7. ASSUME k < l PROVE s % 2 = 0
  <2>1. l - k - 1 \in Nat /\ l - k - 1 + 1 = l - k
    BY <1>7
  <2> DEFINE r == Pow2[l - k - 1]
  <2>2. q = 2 * r /\ r \in Nat
    BY <2>1, PowIs
  <2> HIDE DEF r, q
  <2>3. s = 2 * (b * r) /\ b * r \in Nat
    BY <2>2
  <2>4. QED BY <2>3
<1>8. QED BY <1>5, <1>6, <1>7

-----------------------------------------------------------------------------
(* Sums over a set. *)

One(s) == CHOOSE x \in s : TRUE

\* it is the sum of F over each part of S that has n elements or fewer.
SumsTo(it, F, S, n) ==
    /\ it \in [SUBSET S -> Nat]
    /\ \A s \in SUBSET S : Cardinality(s) <= n => it[s] = IF s = {} THEN 0 ELSE F[One(s)] + it[s \ {One(s)}]

Sums(it, F, S) ==
    /\ it \in [SUBSET S -> Nat]
    /\ \A s \in SUBSET S : it[s] = IF s = {} THEN 0 ELSE F[One(s)] + it[s \ {One(s)}]

\* A part of a finite set is finite, and less one element by one smaller.
LEMMA PartsAre ==
    ASSUME NEW S, IsFiniteSet(S), NEW s \in SUBSET S
    PROVE  /\ IsFiniteSet(s) /\ Cardinality(s) \in Nat /\ Cardinality(s) <= Cardinality(S)
           /\ Cardinality(S) \in Nat
           /\ s # {} => One(s) \in s
           /\ \A x \in s : /\ s \ {x} \in SUBSET S
                           /\ Cardinality(s \ {x}) = Cardinality(s) - 1
                           /\ Cardinality(s) > 0
<1>1. IsFiniteSet(s) /\ Cardinality(s) <= Cardinality(S)
  BY FS_Subset
<1>2. Cardinality(s) \in Nat /\ Cardinality(S) \in Nat
  BY <1>1, FS_CardinalityType
<1>3. s # {} => One(s) \in s
  BY DEF One
<1>4. ASSUME NEW x \in s
      PROVE  s \ {x} \in SUBSET S /\ Cardinality(s \ {x}) = Cardinality(s) - 1 /\ Cardinality(s) > 0
  <2>1. Cardinality(s \ {x}) = Cardinality(s) - 1 /\ IsFiniteSet(s \ {x})
    BY <1>1, FS_RemoveElement
  <2>2. Cardinality(s \ {x}) \in Nat
    BY <2>1, FS_CardinalityType
  <2>3. QED BY <1>2, <2>1, <2>2
<1>5. QED BY <1>1, <1>2, <1>3, <1>4

\* There are such sums: put together for one element more at a time.
LEMMA SumsExist ==
    ASSUME NEW S, IsFiniteSet(S), NEW F, \A x \in S : F[x] \in Nat
    PROVE  \E it : Sums(it, F, S)
<1> DEFINE Bad == {n \in Nat : ~ \E it : SumsTo(it, F, S, n)}
<1>1. Bad = {}
  <2>1. SUFFICES ASSUME Bad # {} PROVE FALSE
    OBVIOUS
  <2>2. PICK n \in Bad : \A m \in Bad : n <= m
    <3>1. Bad \subseteq Nat
      OBVIOUS
    <3> HIDE DEF Bad
    <3>2. QED BY <2>1, <3>1, LeastIs
  <2>3. n \in Nat /\ ~ \E it : SumsTo(it, F, S, n)
    OBVIOUS
  <2>4. CASE n = 0
    <3> DEFINE it == [s \in SUBSET S |-> 0]
    <3>1. it \in [SUBSET S -> Nat]
      OBVIOUS
    <3>2. ASSUME NEW s \in SUBSET S, Cardinality(s) <= 0 PROVE s = {} /\ it[s] = 0
      <4>1. \A x \in s : Cardinality(s) > 0 /\ Cardinality(s) \in Nat
        BY PartsAre
      <4>2. s = {}
        BY <3>2, <4>1
      <4>3. QED BY <4>2
    <3> HIDE DEF it
    <3>3. SumsTo(it, F, S, 0)
      BY <3>1, <3>2 DEF SumsTo
    <3>4. QED BY <2>3, <2>4, <3>3
  <2>5. CASE n # 0
    <3>1. n - 1 \in Nat /\ ~ (n <= n - 1)
      BY <2>3, <2>5
    <3>2. n - 1 \notin Bad
      BY <2>2, <3>1
    <3>3. PICK f : SumsTo(f, F, S, n - 1)
      BY <3>1, <3>2
    <3> DEFINE new(s) == IF Cardinality(s) = n THEN F[One(s)] + f[s \ {One(s)}] ELSE f[s]
               it == [s \in SUBSET S |-> new(s)]
    <3>4. ASSUME NEW s \in SUBSET S PROVE new(s) \in Nat
      <4>1. f[s] \in Nat
        BY <3>3 DEF SumsTo
      <4>2. CASE Cardinality(s) = n
        <5>1. Cardinality({}) = 0
          BY FS_EmptySet
        <5>2. s # {}
          BY <2>5, <4>2, <5>1
        <5>3. One(s) \in S /\ s \ {One(s)} \in SUBSET S
          BY <5>2, PartsAre
        <5>4. F[One(s)] \in Nat /\ f[s \ {One(s)}] \in Nat
          BY <3>3, <5>3 DEF SumsTo
        <5>5. QED BY <4>2, <5>4
      <4>3. QED BY <4>1, <4>2
    <3>5. it \in [SUBSET S -> Nat]
      BY <3>4
    <3>6. \A s \in SUBSET S : it[s] = new(s)
      OBVIOUS
    <3> HIDE DEF it
    <3>7. ASSUME NEW s \in SUBSET S, Cardinality(s) <= n
          PROVE  it[s] = IF s = {} THEN 0 ELSE F[One(s)] + it[s \ {One(s)}]
      <4>1. /\ Cardinality(s) \in Nat
            /\ s # {} => /\ s \ {One(s)} \in SUBSET S
                         /\ Cardinality(s \ {One(s)}) = Cardinality(s) - 1
        BY PartsAre
      <4>2. s # {} => it[s \ {One(s)}] = f[s \ {One(s)}]
        <5>1. s # {} => Cardinality(s \ {One(s)}) # n
          BY <2>3, <3>7, <4>1
        <5>2. QED BY <3>6, <4>1, <5>1
      <4>3. CASE Cardinality(s) = n
        <5>1. s # {}
          BY <2>5, <4>3, FS_EmptySet
        <5>2. QED BY <3>6, <4>2, <4>3, <5>1
      <4>4. CASE Cardinality(s) # n
        <5>1. Cardinality(s) <= n - 1
          BY <2>3, <3>7, <4>1, <4>4
        <5>2. it[s] = f[s]
          BY <3>6, <4>4
        <5>3. f[s] = IF s = {} THEN 0 ELSE F[One(s)] + f[s \ {One(s)}]
          BY <3>3, <5>1 DEF SumsTo
        <5>4. QED BY <4>2, <5>2, <5>3
      <4>5. QED BY <4>3, <4>4
    <3>8. SumsTo(it, F, S, n)
      BY <3>5, <3>7 DEF SumsTo
    <3>9. QED BY <2>3, <3>8
  <2>6. QED BY <2>4, <2>5
<1>2. Cardinality(S) \in Nat
  BY FS_CardinalityType
<1>3. PICK it : SumsTo(it, F, S, Cardinality(S))
  BY <1>1, <1>2
<1>4. \A s \in SUBSET S : Cardinality(s) <= Cardinality(S)
  BY PartsAre
<1>5. Sums(it, F, S)
  BY <1>3, <1>4 DEF SumsTo, Sums
<1>6. QED BY <1>5

\* Whichever element is taken out, the sum is its value and that of the others.
LEMMA SumsStep ==
    ASSUME NEW S, IsFiniteSet(S), NEW F, \A x \in S : F[x] \in Nat, NEW it, Sums(it, F, S)
    PROVE  \A s \in SUBSET S : \A x \in s : it[s] = F[x] + it[s \ {x}]
<1> DEFINE Wrong(s, x) == it[s] # F[x] + it[s \ {x}]
           Bad == {n \in Nat : \E s \in SUBSET S : Cardinality(s) = n /\ \E x \in s : Wrong(s, x)}
<1>1. Bad = {}
  <2>1. SUFFICES ASSUME Bad # {} PROVE FALSE
    OBVIOUS
  <2>2. PICK n \in Bad : \A m \in Bad : n <= m
    <3>1. Bad \subseteq Nat
      OBVIOUS
    <3> HIDE DEF Bad
    <3>2. QED BY <2>1, <3>1, LeastIs
  <2>3. PICK s \in SUBSET S : Cardinality(s) = n /\ \E x \in s : Wrong(s, x)
    OBVIOUS
  <2>4. PICK x \in s : Wrong(s, x)
    BY <2>3
  <2> DEFINE y == One(s)
             r == s \ {x}
             t == s \ {y}
  <2>5. n \in Nat /\ y \in s /\ r \in SUBSET S /\ t \in SUBSET S /\ Cardinality(r) = n - 1 /\ Cardinality(t) = n - 1
    BY <2>3, <2>4, PartsAre
  <2>6. it[s] = F[y] + it[t]
    BY <2>4 DEF Sums
  <2>7. x # y
    BY <2>4, <2>6
  <2>8. ~ (n <= n - 1) /\ n - 1 \in Nat
    <3>1. Cardinality(s) > 0
      BY <2>4, PartsAre
    <3>2. QED BY <2>3, <2>5, <3>1
  <2>9. n - 1 \notin Bad
    BY <2>2, <2>8
  <2>10. \A q \in SUBSET S : Cardinality(q) = n - 1 => \A z \in q : it[q] = F[z] + it[q \ {z}]
    BY <2>8, <2>9
  <2>11. x \in t /\ y \in r
    BY <2>5, <2>7
  <2>12. it[t] = F[x] + it[t \ {x}] /\ it[r] = F[y] + it[r \ {y}]
    BY <2>5, <2>10, <2>11
  <2>13. t \ {x} = r \ {y} /\ t \ {x} \in SUBSET S
    OBVIOUS
  <2>14. F[x] \in Nat /\ F[y] \in Nat /\ it[t \ {x}] \in Nat
    BY <2>5, <2>13 DEF Sums
  <2> DEFINE q == t \ {x}
  <2>15. it[s] = F[x] + it[r]
    <3>1. it[t] = F[x] + it[q] /\ it[r] = F[y] + it[q] /\ it[q] \in Nat
      BY <2>12, <2>13, <2>14
    <3> HIDE DEF y, r, t, q
    <3>2. QED BY <2>6, <2>14, <3>1
  <2>16. QED BY <2>4, <2>15 DEF r
<1>2. ASSUME NEW s \in SUBSET S, NEW x \in s PROVE ~ Wrong(s, x)
  <2>1. Cardinality(s) \in Nat
    BY PartsAre
  <2> HIDE DEF Wrong
  <2>2. QED BY <1>1, <2>1
<1>3. QED BY <1>2

\* Sums of the same values are the same.
LEMMA SumsAgree ==
    ASSUME NEW S, IsFiniteSet(S), NEW F, NEW a, Sums(a, F, S),
           NEW T, IsFiniteSet(T), NEW G, NEW b, Sums(b, G, T),
           S \subseteq T, \A x \in S : F[x] = G[x]
    PROVE  \A s \in SUBSET S : a[s] = b[s]
<1> DEFINE Bad == {n \in Nat : \E s \in SUBSET S : Cardinality(s) = n /\ a[s] # b[s]}
<1>1. Bad = {}
  <2>1. SUFFICES ASSUME Bad # {} PROVE FALSE
    OBVIOUS
  <2>2. PICK n \in Bad : \A m \in Bad : n <= m
    <3>1. Bad \subseteq Nat
      OBVIOUS
    <3> HIDE DEF Bad
    <3>2. QED BY <2>1, <3>1, LeastIs
  <2>3. PICK s \in SUBSET S : Cardinality(s) = n /\ a[s] # b[s]
    OBVIOUS
  <2>4. s \in SUBSET T
    OBVIOUS
  <2>5. s # {}
    BY <2>3, <2>4 DEF Sums
  <2> DEFINE x == One(s)
             r == s \ {x}
  <2>6. x \in s /\ r \in SUBSET S /\ r \in SUBSET T /\ n \in Nat /\ n > 0 /\ Cardinality(r) = n - 1
    BY <2>3, <2>5, PartsAre
  <2>7. a[s] = F[x] + a[r] /\ b[s] = G[x] + b[r]
    BY <2>4, <2>5 DEF Sums
  <2>8. n - 1 \in Nat /\ ~ (n <= n - 1)
    BY <2>6
  <2>9. n - 1 \notin Bad
    BY <2>2, <2>8
  <2>10. a[r] = b[r]
    BY <2>6, <2>8, <2>9
  <2>11. F[x] = G[x]
    BY <2>6
  <2>12. QED BY <2>3, <2>7, <2>10, <2>11
<1>2. \A s \in SUBSET S : Cardinality(s) \in Nat
  BY PartsAre
<1>3. QED BY <1>1, <1>2

\* What adds up the same is the same.
LEMMA SumsIs ==
    ASSUME NEW S, IsFiniteSet(S), NEW F, NEW it, Sums(it, F, S), NEW p,
           \A s \in SUBSET S : p[s] = IF s = {} THEN 0 ELSE F[One(s)] + p[s \ {One(s)}]
    PROVE  p[S] = it[S]
<1> DEFINE Bad == {n \in Nat : \E s \in SUBSET S : Cardinality(s) = n /\ p[s] # it[s]}
<1>1. Bad = {}
  <2>1. SUFFICES ASSUME Bad # {} PROVE FALSE
    OBVIOUS
  <2>2. PICK n \in Bad : \A m \in Bad : n <= m
    <3>1. Bad \subseteq Nat
      OBVIOUS
    <3> HIDE DEF Bad
    <3>2. QED BY <2>1, <3>1, LeastIs
  <2>3. PICK s \in SUBSET S : Cardinality(s) = n /\ p[s] # it[s]
    OBVIOUS
  <2>4. it[s] = IF s = {} THEN 0 ELSE F[One(s)] + it[s \ {One(s)}]
    BY DEF Sums
  <2>5. s # {}
    BY <2>3, <2>4
  <2>6. s \ {One(s)} \in SUBSET S /\ Cardinality(s \ {One(s)}) = n - 1 /\ n \in Nat /\ n > 0
    BY <2>3, <2>5, PartsAre
  <2>7. n - 1 \notin Bad
    <3>1. n - 1 \in Nat /\ ~ (n <= n - 1)
      BY <2>6
    <3>2. QED BY <2>2, <3>1
  <2>8. p[s \ {One(s)}] = it[s \ {One(s)}]
    <3>1. n - 1 \in Nat
      BY <2>6
    <3>2. QED BY <2>6, <2>7, <3>1
  <2>9. QED BY <2>3, <2>4, <2>8
<1>2. S \in SUBSET S /\ Cardinality(S) \in Nat
  BY FS_CardinalityType
<1>3. QED BY <1>1, <1>2

\* What callers hold of memory
Total(S) == MapThenSumSet(LAMBDA m : Ceil(m.size), S)

Sized(S) == \A m \in S : Ceil(m.size) \in Nat

\* It is the sum of what each was given.
LEMMA TotalIs ==
    ASSUME NEW S, IsFiniteSet(S), Sized(S)
    PROVE  \E it : Sums(it, [m \in S |-> Ceil(m.size)], S) /\ Total(S) = it[S]
<1> DEFINE F == [m \in S |-> Ceil(m.size)]
           Body(f) == [s \in SUBSET S |-> IF s = {} THEN 0 ELSE Ceil(One(s).size) + f[s \ {One(s)}]]
           p == CHOOSE f : f = Body(f)
<1>1. Total(S) = p[S]
  BY DEF Total, MapThenSumSet, MapThenFoldSet, One
<1>2. \A x \in S : F[x] = Ceil(x.size) /\ F[x] \in Nat
  BY DEF Sized
<1> HIDE DEF F
<1>3. PICK it : Sums(it, F, S)
  BY <1>2, SumsExist
<1>4. \A s \in SUBSET S : s # {} => F[One(s)] = Ceil(One(s).size)
  BY <1>2, PartsAre
<1>5. it = [s \in SUBSET S |-> it[s]]
  BY <1>3 DEF Sums
<1>6. it = Body(it)
  BY <1>3, <1>4, <1>5 DEF Sums
<1>7. p = Body(p)
  BY <1>6
<1> HIDE DEF p
<1>8. \A s \in SUBSET S : p[s] = IF s = {} THEN 0 ELSE F[One(s)] + p[s \ {One(s)}]
  BY <1>4, <1>7
<1>9. IsFiniteSet(S) /\ Sums(it, F, S)
  BY <1>3
<1>10. p[S] = it[S]
  BY <1>8, <1>9, SumsIs
<1>11. QED BY <1>1, <1>3, <1>10 DEF F

\* It grows by what is given, and shrinks by what is given back.
LEMMA TotalAdds ==
    ASSUME NEW S, IsFiniteSet(S), NEW m, m \notin S, Sized(S \cup {m})
    PROVE  Total(S) \in Nat /\ Total(S \cup {m}) = Total(S) + Ceil(m.size)
<1> DEFINE T == S \cup {m}
           F == [x \in S |-> Ceil(x.size)]
           G == [x \in T |-> Ceil(x.size)]
<1>1. IsFiniteSet(T) /\ Sized(S) /\ Sized(T)
  BY FS_AddElement DEF Sized
<1>2. PICK a : Sums(a, F, S) /\ Total(S) = a[S]
  BY <1>1, TotalIs
<1>3. PICK b : Sums(b, G, T) /\ Total(T) = b[T]
  BY <1>1, TotalIs
<1>4. /\ \A x \in S : F[x] = G[x]
      /\ \A x \in T : G[x] \in Nat
      /\ G[m] = Ceil(m.size)
  BY <1>1 DEF Sized
<1>5. T \in SUBSET T /\ m \in T /\ T \ {m} = S /\ S \in SUBSET S /\ S \subseteq T
  OBVIOUS
<1> HIDE DEF T, F, G
<1>6. b[T] = G[m] + b[S]
  BY <1>1, <1>3, <1>4, <1>5, SumsStep
<1>7. a[S] = b[S]
  BY <1>1, <1>2, <1>3, <1>4, <1>5, SumsAgree
<1>8. a[S] \in Nat
  BY <1>2, <1>5 DEF Sums
<1>9. G[m] \in Nat
  BY <1>4, <1>5
<1>10. Total(T) = Total(S) + Ceil(m.size)
  BY <1>2, <1>3, <1>4, <1>6, <1>7, <1>8, <1>9
<1>11. QED BY <1>2, <1>8, <1>10 DEF T

\* Nothing is held, nothing is used.
LEMMA TotalNone == Total({}) = 0
BY DEF Total, MapThenSumSet, MapThenFoldSet

-----------------------------------------------------------------------------
(* Layout. *)

\* Rounding up to units loses nothing, adds less than a unit, and leaves whole units alone.
LEMMA CeilIs ==
    ASSUME NEW n \in Nat
    PROVE  /\ Ceil(n) \in Nat /\ n <= Ceil(n) /\ Ceil(n) < n + Unit
           /\ Ceil(n) % Unit = 0
           /\ Ceil(n) <= n * Unit
           /\ n # 0 => Ceil(n) # 0
           /\ n % Unit = 0 => Ceil(n) = n
<1> DEFINE q == (n + Unit - 1) \div Unit
           c == q * Unit
<1>1. Unit \in Nat \ {0} /\ n + Unit - 1 \in Nat
  BY UnitAssumption
<1>2. q \in Nat /\ c <= n + Unit - 1 /\ n + Unit - 1 < c + Unit
  BY <1>1, DivBounds
<1>3. Ceil(n) = c
  BY DEF Ceil
<1> HIDE DEF q
<1>4. c \in Nat
  BY <1>1, <1>2
<1>5. c % Unit = 0
  <2>1. c \div Unit = q
    <3> HIDE DEF c
    <3>1. q * Unit = c
      BY DEF c
    <3>2. QED BY <1>1, <1>2, <1>4, <3>1, DivUnique
  <2>2. c = (c \div Unit) * Unit + (c % Unit)
    BY <1>1, <1>4
  <2>3. c % Unit \in Int
    BY <1>1, <1>4
  <2> DEFINE r == c % Unit
  <2>4. c = c + r /\ r \in Int
    BY <2>1, <2>2, <2>3
  <2> HIDE DEF c, r
  <2>5. r = 0
    BY <1>4, <2>4
  <2>6. QED BY <2>5 DEF r
<1>6. c <= n * Unit
  <2>1. CASE n = 0
    <3>1. q <= 0
      <4>1. 0 < q => 0 * Unit + Unit <= c
        BY <1>1, <1>2, Apart2
      <4>2. 0 * Unit = 0
        BY <1>1
      <4> HIDE DEF c
      <4>3. QED BY <1>1, <1>2, <1>4, <2>1, <4>1, <4>2
    <3>2. QED BY <1>1, <1>2, <2>1, <3>1
  <2>2. CASE n > 0
    <3>1. n * Unit \in Nat /\ n * Unit >= n
      BY <1>1
    <3>2. n < q => n * Unit + Unit <= c
      BY <1>1, <1>2, Apart2
    <3>3. n * Unit + Unit > n + Unit - 1
      BY <1>1, <3>1
    <3>4. q <= n
      <4> HIDE DEF c
      <4>1. QED BY <1>1, <1>2, <1>4, <3>1, <3>2, <3>3
    <3>5. q = n \/ q < n
      BY <1>2, <3>4
    <3>6. q < n => c + Unit <= n * Unit
      BY <1>1, <1>2, Apart2
    <3>7. q = n => c = n * Unit
      OBVIOUS
    <3> HIDE DEF c
    <3>8. QED BY <1>1, <1>4, <3>1, <3>5, <3>6, <3>7
  <2>3. QED BY <2>1, <2>2
<1>7. n % Unit = 0 => c = n
  <2>1. ASSUME n % Unit = 0 PROVE c = n
    <3> DEFINE d == n \div Unit
    <3>1. n = d * Unit /\ d \in Nat
      BY <1>1, <2>1
    <3> HIDE DEF d
    <3>2. d * Unit <= n + Unit - 1 /\ n + Unit - 1 < d * Unit + Unit
      BY <1>1, <3>1
    <3>3. q = d
      BY <1>1, <3>1, <3>2, DivUnique DEF q
    <3>4. QED BY <3>1, <3>3
  <2>2. QED BY <2>1
<1> HIDE DEF c
<1>8. QED BY <1>1, <1>2, <1>3, <1>4, <1>5, <1>6, <1>7

\* Levels go up to the one that is a single block.
LEMMA LevelsAre ==
    ASSUME NEW n \in Nat \ {0}
    PROVE  /\ NumLevels(n) \in Nat \ {0}
           /\ At(n, NumLevels(n)) = 0
           /\ \A l \in 0 .. NumLevels(n) - 1 : At(n, l) \in Nat \ {0}
<1> DEFINE OK(k) == Pow2[k - 1] <= n /\ n < Pow2[k]
           S == {k \in Nat : n < Pow2[k]}
<1>1. PICK k \in S : \A e \in S : k <= e
  <2>1. n \in S
    BY PowGrows
  <2>2. S \subseteq Nat
    OBVIOUS
  <2> HIDE DEF S
  <2>3. QED BY <2>1, <2>2, LeastIs
<1>2. k # 0
  BY PowIs
<1>3. k \in 1 .. n
  <2>1. n \in S
    BY PowGrows
  <2>2. QED BY <1>1, <1>2, <2>1
<1>4. OK(k)
  <2>1. k - 1 \in Nat /\ ~ (k <= k - 1)
    BY <1>3
  <2>2. k - 1 \notin S
    BY <1>1, <2>1
  <2>3. Pow2[k - 1] \in Nat
    BY <2>1, PowIs
  <2>4. QED BY <1>1, <2>1, <2>2, <2>3
<1> DEFINE K == NumLevels(n)
<1>5. K \in 1 .. n /\ OK(K)
  BY <1>3, <1>4 DEF NumLevels
<1> HIDE DEF K, S
<1>6. K - 1 \in Nat /\ K \in Nat \ {0} /\ K - 1 + 1 = K
  BY <1>5
<1> DEFINE a == Pow2[K]
           b == Pow2[K - 1]
<1>7. a \in Nat \ {0} /\ b \in Nat \ {0} /\ b <= n /\ n < a
  BY <1>5, <1>6, PowIs
<1>8. At(n, K) = 0
  <2>1. At(n, K) = n \div a
    BY DEF At
  <2> HIDE DEF a
  <2>2. 0 * a <= n /\ n < 0 * a + a
    BY <1>7
  <2>3. QED BY <1>7, <2>1, <2>2, DivUnique
<1>9. At(n, K - 1) # 0
  <2>1. At(n, K - 1) = n \div b
    BY DEF At
  <2> HIDE DEF b
  <2>2. n < (n \div b) * b + b
    BY <1>7, DivBounds
  <2>3. n \div b # 0
    BY <1>7, <2>2
  <2>4. QED BY <2>1, <2>3
<1>10. ASSUME NEW l \in 0 .. K - 1 PROVE At(n, l) \in Nat \ {0}
  <2>1. l \in Nat /\ l <= K - 1
    BY <1>6
  <2>2. \A m \in Nat : At(0, m) = 0
    <3>1. ASSUME NEW m \in Nat PROVE At(0, m) = 0
      <4> DEFINE p == Pow2[m]
      <4>1. p \in Nat \ {0} /\ At(0, m) = 0 \div p
        BY PowIs DEF At
      <4> HIDE DEF p
      <4>2. 0 * p <= 0 /\ 0 < 0 * p + p
        BY <4>1
      <4>3. QED BY <4>1, <4>2, DivUnique
    <3>2. QED BY <3>1
  <2>3. At(n, l) = At(0, l) => At(n, K - 1) = At(0, K - 1)
    BY <1>6, <2>1, AtUp
  <2>4. At(n, l) # 0
    BY <1>6, <1>9, <2>1, <2>2, <2>3
  <2>5. QED BY <2>1, <2>4, AtIs
<1>11. QED BY <1>6, <1>8, <1>10 DEF K

\* The metadata's size is a number.
LEMMA MetadataIs == MetadataSize \in Nat
<1> DEFINE n == (DynMemSize - 1) \div Unit + 1
           S == 0 .. NumLevels(n) - 1
           v(l) == Header + (n \div Pow2[l] - 1) \div 8 + 1
           F == [l \in S |-> v(l)]
           Body(f) == [s \in SUBSET S |-> IF s = {} THEN 0 ELSE v(One(s)) + f[s \ {One(s)}]]
           p == CHOOSE f : f = Body(f)
<1>1. n \in Nat \ {0}
  <2>1. DynMemSize - 1 \in Nat /\ Unit \in Nat \ {0}
    BY UnitAssumption, MemoryAssumption
  <2>2. (DynMemSize - 1) \div Unit \in Nat
    BY <2>1, DivBounds
  <2>3. QED BY <2>2
<1>2. MetadataSize = p[S]
  BY DEF MetadataSize, MapThenSumSet, MapThenFoldSet, One
<1> HIDE DEF n
<1>3. NumLevels(n) \in Nat \ {0} /\ \A l \in S : n \div Pow2[l] \in Nat \ {0}
  BY <1>1, LevelsAre DEF At
<1>4. \A l \in S : v(l) \in Nat
  <2>1. ASSUME NEW l \in S PROVE v(l) \in Nat
    <3> DEFINE c == n \div Pow2[l]
    <3>1. c \in Nat \ {0}
      BY <1>3
    <3> HIDE DEF c
    <3>2. (c - 1) \div 8 \in Nat
      BY <3>1
    <3>3. Header + (c - 1) \div 8 + 1 \in Nat
      BY <3>2, UnitAssumption
    <3>4. QED BY <3>3 DEF c
  <2>2. QED BY <2>1
<1>5. IsFiniteSet(S)
  <2>1. 0 \in Int /\ NumLevels(n) - 1 \in Int
    BY <1>3
  <2>2. QED BY <2>1, FS_Interval
<1> HIDE DEF v, S
<1>6. \A l \in S : F[l] = v(l) /\ F[l] \in Nat
  BY <1>4
<1> HIDE DEF F
<1>7. PICK it : Sums(it, F, S)
  BY <1>5, <1>6, SumsExist
<1>8. \A s \in SUBSET S : s # {} => F[One(s)] = v(One(s))
  BY <1>5, <1>6, PartsAre
<1>9. it = [s \in SUBSET S |-> it[s]]
  BY <1>7 DEF Sums
<1>10. it = Body(it)
  BY <1>7, <1>8, <1>9 DEF Sums
<1>11. p = Body(p)
  BY <1>10
<1> HIDE DEF p
<1>12. \A s \in SUBSET S : p[s] = IF s = {} THEN 0 ELSE F[One(s)] + p[s \ {One(s)}]
  BY <1>8, <1>11
<1>13. p[S] = it[S]
  BY <1>5, <1>7, <1>12, SumsIs
<1>14. it[S] \in Nat
  BY <1>7 DEF Sums
<1>15. QED BY <1>2, <1>13, <1>14

\* The memory that is given out begins at a whole unit and has at least one.
LEMMA LayoutIs ==
    /\ BeginAddr \in Nat /\ BeginAddr % Unit = 0
    /\ CountOfUnitBlock \in Nat \ {0}
<1>1. Start + MetadataSize \in Nat
  BY MetadataIs, MemoryAssumption
<1>2. BeginAddr \in Nat /\ BeginAddr % Unit = 0
  BY <1>1, CeilIs DEF BeginAddr
<1>3. DynMemSize - (BeginAddr - Start) - 1 \in Nat
  BY <1>2, LayoutAssumption, MemoryAssumption
<1>4. (DynMemSize - (BeginAddr - Start) - 1) \div Unit \in Nat
  BY <1>3, UnitAssumption, DivBounds
<1>5. CountOfUnitBlock \in Nat \ {0}
  BY <1>4 DEF CountOfUnitBlock
<1>6. QED BY <1>2, <1>5

\* There are levels from 0 up, each with at least one block.
LEMMA BlocksAre ==
    /\ BitmapLevel \in Nat \ {0} /\ Levels = 0 .. BitmapLevel - 1
    /\ At(CountOfUnitBlock, BitmapLevel) = 0
    /\ \A l \in Levels : LevelSize(l) = At(CountOfUnitBlock, l) /\ LevelSize(l) \in Nat \ {0}
<1>1. CountOfUnitBlock \in Nat \ {0}
  BY LayoutIs
<1>2. QED BY <1>1, LevelsAre DEF BitmapLevel, Levels, LevelSize, At

\* A level's blocks are those that end before the end of memory.
LEMMA BlockEnds ==
    ASSUME NEW l \in Nat, NEW b \in Nat
    PROVE  /\ b < At(CountOfUnitBlock, l) => \A u \in Nat : At(u, l) = b => u < CountOfUnitBlock
           /\ (\A u \in Nat : At(u, l) = b => u < CountOfUnitBlock) => b < At(CountOfUnitBlock, l)
<1> DEFINE n == CountOfUnitBlock
           p == Pow2[l]
           s == b * p
           e == s + p - 1
<1>1. n \in Nat /\ p \in Nat \ {0} /\ At(n, l) \in Nat
  BY LayoutIs, PowIs, AtIs
<1>2. ASSUME b < At(n, l), NEW u \in Nat, At(u, l) = b PROVE u < n
  <2>1. n <= u => At(n, l) <= At(u, l)
    BY <1>1, AtOrder
  <2>2. QED BY <1>1, <1>2, <2>1
<1>3. ASSUME \A u \in Nat : At(u, l) = b => u < n PROVE b < At(n, l)
  <2>1. s \in Nat /\ e \in Nat /\ e + 1 \in Nat
    <3> HIDE DEF p
    <3>1. QED BY <1>1
  <2>2. At(e, l) = b
    <3>1. s <= e /\ e < s + p /\ b \in Int
      <4> HIDE DEF p, s
      <4>1. QED BY <1>1, <2>1
    <3>2. At(e, l) = e \div p
      BY DEF At
    <3> HIDE DEF p, e
    <3>3. QED BY <1>1, <2>1, <3>1, <3>2, DivUnique
  <2>3. e + 1 <= n
    <3> HIDE DEF e, n
    <3>1. e < n
      BY <1>3, <2>1, <2>2
    <3>2. QED BY <1>1, <2>1, <3>1
  <2>4. At(e + 1, l) = b + 1
    <3>1. e + 1 = (b + 1) * p /\ (b + 1) * p <= e + 1 /\ e + 1 < (b + 1) * p + p /\ b + 1 \in Int
      <4> HIDE DEF p
      <4>1. QED BY <1>1
    <3>2. At(e + 1, l) = (e + 1) \div p
      BY DEF At
    <3> HIDE DEF p, e
    <3>3. QED BY <1>1, <2>1, <3>1, <3>2, DivUnique
  <2>5. At(e + 1, l) <= At(n, l)
    BY <1>1, <2>1, <2>3, AtOrder
  <2>6. QED BY <1>1, <2>4, <2>5
<1>4. QED BY <1>2, <1>3

\* The level of a request is the lowest whose blocks hold it.
LEMMA LevelForIs ==
    ASSUME NEW bytes \in Nat
    PROVE  /\ LevelFor(bytes) \in Nat
           /\ Ceil(bytes) <= Unit * Pow2[LevelFor(bytes)]
           /\ \A k \in 0 .. LevelFor(bytes) - 1 : Unit * Pow2[k] < Ceil(bytes)
<1> DEFINE c == Ceil(bytes)
           OK(l) == Unit * Pow2[l] >= c /\ \A k \in 0 .. l - 1 : Unit * Pow2[k] < c
           S == {l \in Nat : Unit * Pow2[l] >= c}
<1>1. c \in Nat /\ c <= bytes * Unit /\ Unit \in Nat \ {0}
  BY CeilIs, UnitAssumption
<1>2. bytes \in S
  <2> DEFINE p == Pow2[bytes]
  <2>1. p \in Nat /\ bytes < p
    BY PowIs, PowGrows
  <2> HIDE DEF p, c
  <2>2. bytes * Unit + Unit <= p * Unit
    BY <1>1, <2>1, Apart2
  <2>3. p * Unit = Unit * p /\ p * Unit \in Int /\ bytes * Unit \in Int
    BY <1>1, <2>1
  <2>4. Unit * p >= c
    BY <1>1, <2>2, <2>3
  <2>5. QED BY <2>4 DEF p
<1>3. PICK l \in S : \A k \in S : l <= k
  <2>1. S \subseteq Nat
    OBVIOUS
  <2> HIDE DEF S
  <2>2. QED BY <1>2, <2>1, LeastIs
<1>4. l \in 0 .. bytes
  BY <1>2, <1>3
<1>5. ASSUME NEW k \in 0 .. l - 1 PROVE Unit * Pow2[k] < c
  <2>1. k \in Nat /\ ~ (l <= k)
    BY <1>4
  <2>2. k \notin S
    BY <1>3, <2>1
  <2>3. ~ (Unit * Pow2[k] >= c)
    BY <2>1, <2>2
  <2> DEFINE p == Pow2[k]
  <2>4. p \in Nat
    BY <2>1, PowIs
  <2> HIDE DEF p, c
  <2>5. Unit * p \in Int
    BY <1>1, <2>4
  <2> DEFINE q == Unit * p
  <2>6. q \in Int /\ ~ (q >= c)
    BY <2>3, <2>5 DEF p
  <2> HIDE DEF q
  <2>7. q < c
    BY <1>1, <2>6
  <2>8. QED BY <2>7 DEF q, p
<1>6. OK(l)
  BY <1>3, <1>5
<1> DEFINE L == LevelFor(bytes)
<1>7. L \in 0 .. bytes /\ OK(L)
  BY <1>4, <1>6 DEF LevelFor
<1> HIDE DEF L
<1>8. L \in Nat /\ Unit * Pow2[L] >= c /\ \A k \in 0 .. L - 1 : Unit * Pow2[k] < c
  BY <1>7
<1> DEFINE p == Pow2[L]
<1>9. p \in Nat
  BY <1>8, PowIs
<1>10. c <= Unit * p
  <2>1. Unit * p >= c
    BY <1>8
  <2> HIDE DEF p, c
  <2>2. Unit * p \in Int
    BY <1>1, <1>9
  <2>3. QED BY <1>1, <2>1, <2>2
<1>11. QED BY <1>8, <1>10 DEF L

-----------------------------------------------------------------------------
(* Buddies. *)

\* A block and its buddy are the two halves of one block.
LEMMA BuddyIs ==
    ASSUME NEW b \in Nat
    PROVE  /\ BuddyOf(b) \in Nat /\ BuddyOf(b) # b /\ BuddyOf(BuddyOf(b)) = b
           /\ BuddyOf(b) \div 2 = b \div 2
           /\ \A c \in Nat : c \div 2 = b \div 2 => c = b \/ c = BuddyOf(b)
           /\ b % 2 = 0 => BuddyOf(b) = b + 1
<1>1. PICK q \in Nat : b = 2 * q \/ b = 2 * q + 1
  <2>1. b \div 2 \in Nat /\ (b = 2 * (b \div 2) \/ b = 2 * (b \div 2) + 1)
    OBVIOUS
  <2>2. QED BY <2>1
<1>2. CASE b = 2 * q
  <2>1. b % 2 = 0 /\ b \div 2 = q /\ (b + 1) % 2 = 1 /\ (b + 1) \div 2 = q
    BY <1>2
  <2>2. BuddyOf(b) = b + 1
    BY <2>1 DEF BuddyOf
  <2>3. BuddyOf(b + 1) = b
    BY <2>1 DEF BuddyOf
  <2>4. \A c \in Nat : c \div 2 = q => c = 2 * q \/ c = 2 * q + 1
    OBVIOUS
  <2>5. QED BY <1>2, <2>1, <2>2, <2>3, <2>4
<1>3. CASE b = 2 * q + 1
  <2>1. b % 2 = 1 /\ b \div 2 = q /\ (b - 1) % 2 = 0 /\ (b - 1) \div 2 = q /\ b - 1 \in Nat
    BY <1>3
  <2>2. BuddyOf(b) = b - 1
    BY <2>1 DEF BuddyOf
  <2>3. BuddyOf(b - 1) = b
    BY <2>1 DEF BuddyOf
  <2>4. \A c \in Nat : c \div 2 = q => c = 2 * q \/ c = 2 * q + 1
    OBVIOUS
  <2>5. QED BY <1>3, <2>1, <2>2, <2>3, <2>4
<1>4. QED BY <1>1, <1>2, <1>3

\* A block is the block of level k that unit s is in, and the buddies of the blocks between
\* that s is in: so blocks are split, and so they are merged.
LEMMA HalvesCover ==
    ASSUME NEW s \in Nat, NEW k \in Nat, NEW t \in Nat, k <= t, NEW u \in Nat
    PROVE  At(u, t) = At(s, t) <=> \/ At(u, k) = At(s, k)
                                   \/ \E a \in k .. t - 1 : At(u, a) = BuddyOf(At(s, a))
<1>1. ASSUME At(u, t) = At(s, t)
      PROVE  At(u, k) = At(s, k) \/ \E a \in k .. t - 1 : At(u, a) = BuddyOf(At(s, a))
  <2> DEFINE S == {l \in Nat : k <= l /\ At(u, l) = At(s, l)}
  <2>1. PICK l \in S : \A m \in S : l <= m
    <3>1. t \in S
      BY <1>1
    <3>2. S \subseteq Nat
      OBVIOUS
    <3> HIDE DEF S
    <3>3. QED BY <3>1, <3>2, LeastIs
  <2>2. l \in Nat /\ k <= l /\ At(u, l) = At(s, l) /\ l <= t
    BY <1>1, <2>1
  <2>3. CASE l = k
    BY <2>2, <2>3
  <2>4. CASE l # k
    <3>1. l - 1 \in k .. t - 1 /\ l - 1 \in Nat /\ l - 1 + 1 = l /\ ~ (l <= l - 1)
      BY <2>2, <2>4
    <3>2. At(u, l - 1) # At(s, l - 1)
      BY <2>1, <3>1
    <3> DEFINE m == l - 1
    <3> HIDE DEF m
    <3>3. m \in Nat /\ m + 1 = l
      BY <3>1 DEF m
    <3>4. At(u, m) \in Nat /\ At(u, m + 1) = At(u, m) \div 2
      BY <3>3, AtIs
    <3>5. At(s, m) \in Nat /\ At(s, m + 1) = At(s, m) \div 2
      BY <3>3, AtIs
    <3>6. At(u, m) \div 2 = At(s, m) \div 2 /\ At(u, m) # At(s, m)
      BY <2>2, <3>2, <3>3, <3>4, <3>5 DEF m
    <3>7. At(u, m) = BuddyOf(At(s, m))
      BY <3>4, <3>5, <3>6, BuddyIs
    <3>8. QED BY <3>1, <3>7 DEF m
  <2>5. QED BY <2>3, <2>4
<1>2. At(u, k) = At(s, k) => At(u, t) = At(s, t)
  BY AtUp
<1>3. ASSUME NEW a \in k .. t - 1, At(u, a) = BuddyOf(At(s, a)) PROVE At(u, t) = At(s, t)
  <2>1. a \in Nat /\ a + 1 \in Nat /\ a + 1 <= t
    OBVIOUS
  <2>2. At(s, a) \in Nat /\ At(u, a + 1) = At(u, a) \div 2 /\ At(s, a + 1) = At(s, a) \div 2
    BY <2>1, AtIs
  <2>3. At(u, a + 1) = At(s, a + 1)
    BY <1>3, <2>2, BuddyIs
  <2>4. QED BY <2>1, <2>3, AtUp
<1>4. QED BY <1>1, <1>2, <1>3

\* No two of these overlap.
LEMMA HalvesApart ==
    ASSUME NEW s \in Nat, NEW k \in Nat, NEW u \in Nat, NEW a \in Nat, k <= a, At(u, a) = BuddyOf(At(s, a))
    PROVE  /\ At(u, k) # At(s, k)
           /\ \A n \in Nat : n > a => At(u, n) = At(s, n) /\ At(u, n) # BuddyOf(At(s, n))
<1>1. At(s, a) \in Nat /\ At(s, a + 1) = At(s, a) \div 2 /\ a + 1 \in Nat
  BY AtIs
<1>2. At(u, a + 1) = At(u, a) \div 2
  BY AtIs
<1>3. At(u, a) # At(s, a) /\ At(u, a + 1) = At(s, a + 1)
  BY <1>1, <1>2, BuddyIs
<1>4. At(u, k) # At(s, k)
  BY <1>3, AtUp
<1>5. ASSUME NEW n \in Nat, n > a PROVE At(u, n) = At(s, n) /\ At(u, n) # BuddyOf(At(s, n))
  <2>1. a + 1 <= n
    BY <1>5
  <2>2. At(u, n) = At(s, n)
    BY <1>1, <1>3, <2>1, AtUp
  <2>3. At(s, n) \in Nat
    BY AtIs
  <2>4. QED BY <2>2, <2>3, BuddyIs
<1>6. QED BY <1>4, <1>5

-----------------------------------------------------------------------------
(* Who has a unit. *)

Level(m) == LevelFor(m.size)
Block(m) == (m.addr - BeginAddr) \div (Unit * Pow2[Level(m)])

IsRecord(m) == m = [addr |-> m.addr, size |-> m.size]

\* m is a block that a caller may have been given.
Proper(m) ==
    /\ IsRecord(m) /\ m.size \in Nat \ {0} /\ Level(m) \in Levels /\ Block(m) \in Nat
    /\ m.addr = BeginAddr + Block(m) * (Unit * Pow2[Level(m)])

\* The levels on which unit u is free, and the callers' blocks it is in
FreeOn(f, u) == {l \in Levels : At(u, l) \in f[l]}
HeldBy(S, u) == {m \in S : At(u, Level(m)) = Block(m)}

\* Unit u is free, once, or a caller holds it; if there is such a unit.
Placed(f, S, u) ==
    \/ u < CountOfUnitBlock /\ (\E l \in Levels : FreeOn(f, u) = {l}) /\ HeldBy(S, u) = {}
    \/ u < CountOfUnitBlock /\ FreeOn(f, u) = {} /\ \E m \in S : HeldBy(S, u) = {m}
    \/ u >= CountOfUnitBlock /\ FreeOn(f, u) = {} /\ HeldBy(S, u) = {}

BlocksType ==
    /\ bits \in [Levels -> SUBSET Nat] /\ count \in [Levels -> Nat]
    /\ IsFiniteSet(live) /\ \A m \in live : Proper(m)

AllPlaced == \A u \in Nat : Placed(bits, live, u)

\* No block is free in halves.
NoPairs == \A l \in Levels : \A b \in bits[l] : BuddyOf(b) \notin bits[l]

CountsAgree ==
    /\ \A l \in Levels : IsFiniteSet(bits[l]) /\ count[l] = Cardinality(bits[l])
    /\ UsedSize = Total(live)

BuddyInv == BlocksType /\ AllPlaced /\ NoPairs /\ CountsAgree

\* A free block is one the level has.
LEMMA FreeInside ==
    ASSUME NEW f, NEW S, \A u \in Nat : Placed(f, S, u), NEW l \in Levels, NEW b \in Nat, b \in f[l]
    PROVE  b < At(CountOfUnitBlock, l)
<1>1. l \in Nat
  BY BlocksAre
<1>2. ASSUME NEW u \in Nat, At(u, l) = b PROVE u < CountOfUnitBlock
  <2>1. l \in FreeOn(f, u)
    BY <1>2 DEF FreeOn
  <2>2. QED BY <2>1 DEF Placed
<1>3. QED BY <1>1, <1>2, BlockEnds

\* Every unit of the memory is in exactly one of the blocks the levels begin with, those without
\* a buddy, and no other unit is in one.
LEMMA LeftoversAre ==
    ASSUME NEW u \in Nat
    PROVE  /\ u < CountOfUnitBlock => \E l \in Levels : At(u, l) \in Leftover(l)
           /\ \A l \in Levels : At(u, l) \in Leftover(l) =>
                /\ u < CountOfUnitBlock
                /\ \A a \in Levels : At(u, a) \in Leftover(a) => a = l
<1> DEFINE n == CountOfUnitBlock
<1>1. n \in Nat \ {0} /\ BitmapLevel \in Nat \ {0} /\ Levels = 0 .. BitmapLevel - 1 /\ At(n, BitmapLevel) = 0
  BY LayoutIs, BlocksAre
<1>2. ASSUME NEW l \in Levels
      PROVE  At(u, l) \in Leftover(l) <=> At(n, l) % 2 = 1 /\ At(u, l) = At(n, l) - 1
  BY BlocksAre DEF Leftover
<1> HIDE DEF n
<1>3. ASSUME u < n PROVE \E l \in Levels : At(u, l) \in Leftover(l)
  <2> DEFINE S == {l \in Nat : At(u, l) = At(n, l)}
  <2>1. BitmapLevel \in S
    <3>1. At(u, BitmapLevel) \in Nat
      BY <1>1, AtIs
    <3>2. At(u, BitmapLevel) <= At(n, BitmapLevel)
      BY <1>1, <1>3, AtOrder
    <3>3. QED BY <1>1, <3>1, <3>2
  <2>2. PICK t \in S : \A m \in S : t <= m
    <3>1. S \subseteq Nat
      OBVIOUS
    <3> HIDE DEF S
    <3>2. QED BY <2>1, <3>1, LeastIs
  <2>3. t \in Nat /\ At(u, t) = At(n, t) /\ t <= BitmapLevel
    BY <2>1, <2>2
  <2>4. t # 0
    BY <1>1, <1>3, <2>3, AtIs
  <2> DEFINE l == t - 1
  <2>5. l \in Nat /\ l + 1 = t /\ l \in Levels /\ ~ (t <= l)
    BY <1>1, <2>3, <2>4
  <2>6. l \notin S
    BY <2>2, <2>5
  <2> HIDE DEF l
  <2>7. At(u, l) # At(n, l)
    BY <2>5, <2>6
  <2>8. At(u, l) \in Nat /\ At(u, l + 1) = At(u, l) \div 2
    BY <2>5, AtIs
  <2>9. At(n, l) \in Nat /\ At(n, l + 1) = At(n, l) \div 2
    BY <1>1, <2>5, AtIs
  <2>10. At(u, l) <= At(n, l)
    BY <1>1, <1>3, <2>5, AtOrder
  <2> DEFINE a == At(u, l)
             c == At(n, l)
  <2>11. a \in Nat /\ c \in Nat /\ a < c /\ a \div 2 = c \div 2
    BY <2>3, <2>5, <2>7, <2>8, <2>9, <2>10
  <2>12. c % 2 = 1 /\ a = c - 1
    <3> HIDE DEF a, c
    <3>1. QED BY <2>11
  <2>13. QED BY <1>2, <2>5, <2>12
<1>4. ASSUME NEW l \in Levels, At(u, l) \in Leftover(l) PROVE u < n
  <2>1. l \in Nat /\ At(u, l) = At(n, l) - 1
    BY <1>1, <1>2, <1>4
  <2>2. At(n, l) \in Nat
    BY <1>1, <2>1, AtIs
  <2>3. n <= u => At(n, l) <= At(u, l)
    BY <1>1, <2>1, AtOrder
  <2>4. QED BY <1>1, <2>1, <2>2, <2>3
<1>5. ASSUME NEW l \in Levels, At(u, l) \in Leftover(l), NEW a \in Levels, At(u, a) \in Leftover(a), l < a
      PROVE  FALSE
  <2>1. l \in Nat /\ a \in Nat /\ l + 1 <= a /\ l + 1 \in Nat
    BY <1>1, <1>5
  <2>2. At(u, l) \in Nat /\ At(u, l + 1) = At(u, l) \div 2
    BY <2>1, AtIs
  <2>3. At(n, l) \in Nat /\ At(n, l + 1) = At(n, l) \div 2
    BY <1>1, <2>1, AtIs
  <2>4. At(n, l) % 2 = 1 /\ At(u, l) = At(n, l) - 1
    BY <1>2, <1>5
  <2>5. At(u, l) \div 2 = At(n, l) \div 2
    BY <2>2, <2>3, <2>4
  <2>6. At(u, a) = At(n, a)
    BY <1>1, <2>1, <2>2, <2>3, <2>5, AtUp
  <2>7. At(n, a) \in Nat
    BY <1>1, <2>1, AtIs
  <2>8. At(u, a) = At(n, a) - 1
    BY <1>2, <1>5
  <2>9. QED BY <2>6, <2>7, <2>8
<1>6. ASSUME NEW l \in Levels, At(u, l) \in Leftover(l), NEW a \in Levels, At(u, a) \in Leftover(a)
      PROVE  a = l
  <2>1. ~ (l < a) /\ ~ (a < l)
    BY <1>5, <1>6
  <2>2. QED BY <1>1, <2>1
<1>7. QED BY <1>3, <1>4, <1>6 DEF n

\* BuddyInv holds at the start.
LEMMA BuddyInitially == BuddyInit => BuddyInv
<1> SUFFICES ASSUME BuddyInit PROVE BuddyInv
  OBVIOUS
<1>1. ASSUME NEW l \in Levels
      PROVE  /\ Leftover(l) \subseteq Nat /\ IsFiniteSet(Leftover(l))
             /\ Cardinality(Leftover(l)) \in Nat
             /\ \A b \in Leftover(l) : BuddyOf(b) \notin Leftover(l)
  <2>1. LevelSize(l) \in Nat \ {0}
    BY BlocksAre
  <2>2. Leftover(l) = {} \/ Leftover(l) = {LevelSize(l) - 1}
    BY DEF Leftover
  <2>3. IsFiniteSet(Leftover(l))
    BY <2>2, FS_EmptySet, FS_Singleton
  <2>4. Leftover(l) \subseteq Nat
    BY <2>1, <2>2
  <2>5. ASSUME NEW b \in Leftover(l) PROVE BuddyOf(b) \notin Leftover(l)
    <3>1. BuddyOf(b) # b
      BY <2>4, BuddyIs
    <3>2. QED BY <2>2, <3>1
  <2>6. QED BY <2>3, <2>4, <2>5, FS_CardinalityType
<1>2. bits = [l \in Levels |-> Leftover(l)] /\ count = [l \in Levels |-> Cardinality(Leftover(l))]
      /\ UsedSize = 0 /\ live = {}
  BY DEF BuddyInit
<1>3. BlocksType
  BY <1>1, <1>2, FS_EmptySet DEF BlocksType
<1>4. ASSUME NEW u \in Nat PROVE Placed(bits, live, u)
  <2>1. HeldBy(live, u) = {}
    BY <1>2 DEF HeldBy
  <2>2. FreeOn(bits, u) = {l \in Levels : At(u, l) \in Leftover(l)}
    BY <1>2 DEF FreeOn
  <2>3. CASE u < CountOfUnitBlock
    <3>1. PICK l \in Levels : At(u, l) \in Leftover(l)
      BY <2>3, LeftoversAre
    <3>2. FreeOn(bits, u) = {l}
      BY <2>2, <3>1, LeftoversAre
    <3>3. QED BY <2>1, <2>3, <3>2 DEF Placed
  <2>4. CASE ~ (u < CountOfUnitBlock)
    <3>1. FreeOn(bits, u) = {}
      BY <2>2, <2>4, LeftoversAre
    <3>2. u >= CountOfUnitBlock
      BY <2>4, LayoutIs
    <3>3. QED BY <2>1, <3>1, <3>2 DEF Placed
  <2>5. QED BY <2>3, <2>4
<1>5. NoPairs
  BY <1>1, <1>2 DEF NoPairs
<1>6. CountsAgree
  BY <1>1, <1>2, TotalNone DEF CountsAgree
<1>7. QED BY <1>3, <1>4, <1>5, <1>6 DEF BuddyInv, AllPlaced
-----------------------------------------------------------------------------
(* Giving out a block, and taking it back. *)

\* The free blocks f become g as the block of unit s, on level l, is split for one of level k.
SplitTo(f, g, k, l, s) ==
    /\ k <= l /\ At(s, l) \in f[l] /\ g[l] = f[l] \ {At(s, l)}
    /\ \A a \in k .. l - 1 : f[a] = {} /\ g[a] = {BuddyOf(At(s, a))}
    /\ \A a \in Levels : a # l /\ a \notin k .. l - 1 => g[a] = f[a]

\* ... and as the block of s, of level k, is given back and becomes part of one of level t.
MergeTo(f, g, k, t, s) ==
    /\ k <= t /\ g[t] = f[t] \cup {At(s, t)}
    /\ \A a \in k .. t - 1 : BuddyOf(At(s, a)) \in f[a] /\ g[a] = f[a] \ {At(s, a), BuddyOf(At(s, a))}
    /\ \A a \in Levels : a # t /\ a \notin k .. t - 1 => g[a] = f[a]

\* Splitting a free block down to the caller's leaves every unit in one place.
LEMMA SplitPlaces ==
    ASSUME NEW f, NEW S, \A u \in Nat : Placed(f, S, u),
           NEW m, m \notin S, NEW s \in Nat, Level(m) \in Levels, Block(m) = At(s, Level(m)),
           NEW l \in Levels, NEW g, SplitTo(f, g, Level(m), l, s)
    PROVE  \A u \in Nat : Placed(g, S \cup {m}, u)
<1> DEFINE k == Level(m)
<1> HIDE DEF k
<1>1. /\ k \in Levels /\ Level(m) = k /\ Block(m) = At(s, k)
      /\ k <= l /\ At(s, l) \in f[l] /\ g[l] = f[l] \ {At(s, l)}
      /\ \A a \in k .. l - 1 : f[a] = {} /\ g[a] = {BuddyOf(At(s, a))}
      /\ \A a \in Levels : a # l /\ a \notin k .. l - 1 => g[a] = f[a]
  BY DEF SplitTo, k
<1> USE <1>1
<1>2. k \in Nat /\ l \in Nat /\ \A a \in k .. l - 1 : a \in Nat /\ a \in Levels
  BY BlocksAre
<1> SUFFICES ASSUME NEW u \in Nat PROVE Placed(g, S \cup {m}, u)
  OBVIOUS
<1>3. At(u, l) = At(s, l) <=> (At(u, k) = At(s, k) \/ \E a \in k .. l - 1 : At(u, a) = BuddyOf(At(s, a)))
  BY <1>2, HalvesCover
<1>4. CASE At(u, l) = At(s, l)
  <2>1. l \in FreeOn(f, u)
    BY <1>4 DEF FreeOn
  <2>2. u < CountOfUnitBlock /\ FreeOn(f, u) = {l} /\ HeldBy(S, u) = {}
    BY <2>1 DEF Placed
  <2>3. ASSUME NEW c \in Levels, At(u, c) \in g[c] PROVE c \in k .. l - 1 /\ At(u, c) = BuddyOf(At(s, c))
    <3>1. c # l
      BY <1>4, <2>3
    <3>2. c \notin k .. l - 1 => c \in FreeOn(f, u)
      BY <2>3, <3>1 DEF FreeOn
    <3>3. c \in k .. l - 1
      BY <2>2, <3>1, <3>2
    <3>4. QED BY <2>3, <3>3
  <2>4. CASE At(u, k) = At(s, k)
    <3>1. HeldBy(S \cup {m}, u) = {m}
      BY <2>2, <2>4 DEF HeldBy
    <3>2. ASSUME NEW c \in Levels, At(u, c) \in g[c] PROVE FALSE
      <4>1. c \in k .. l - 1 /\ At(u, c) = BuddyOf(At(s, c)) /\ c \in Nat /\ k <= c
        BY <1>2, <2>3, <3>2
      <4>2. QED BY <1>2, <2>4, <4>1, HalvesApart
    <3>3. FreeOn(g, u) = {}
      BY <3>2 DEF FreeOn
    <3>4. QED BY <2>2, <3>1, <3>3 DEF Placed
  <2>5. CASE \E a \in k .. l - 1 : At(u, a) = BuddyOf(At(s, a))
    <3>1. PICK a \in k .. l - 1 : At(u, a) = BuddyOf(At(s, a))
      BY <2>5
    <3>2. a \in Nat /\ a \in Levels /\ k <= a
      BY <1>2
    <3>3. At(u, k) # At(s, k)
      BY <1>2, <3>1, <3>2, HalvesApart
    <3>4. HeldBy(S \cup {m}, u) = {}
      BY <2>2, <3>3 DEF HeldBy
    <3>5. At(u, a) \in g[a]
      BY <3>1
    <3>6. ASSUME NEW c \in Levels, At(u, c) \in g[c] PROVE c = a
      <4>1. c \in k .. l - 1 /\ At(u, c) = BuddyOf(At(s, c))
        BY <2>3, <3>6
      <4>2. c \in Nat /\ k <= c
        BY <1>2, <4>1
      <4>3. ~ (c > a)
        BY <1>2, <3>1, <3>2, <4>1, <4>2, HalvesApart
      <4>4. ~ (a > c)
        BY <1>2, <3>1, <3>2, <4>1, <4>2, HalvesApart
      <4>5. QED BY <3>2, <4>2, <4>3, <4>4
    <3>7. FreeOn(g, u) = {a}
      BY <3>2, <3>5, <3>6 DEF FreeOn
    <3>8. QED BY <2>2, <3>2, <3>4, <3>7 DEF Placed
  <2>6. QED BY <1>3, <1>4, <2>4, <2>5
<1>5. CASE At(u, l) # At(s, l)
  <2>1. HeldBy(S \cup {m}, u) = HeldBy(S, u)
    BY <1>3, <1>5 DEF HeldBy
  <2>2. ASSUME NEW c \in Levels PROVE At(u, c) \in g[c] <=> At(u, c) \in f[c]
    <3>1. CASE c = l
      BY <1>5, <3>1
    <3>2. CASE c \in k .. l - 1
      BY <1>3, <1>5, <3>2
    <3>3. QED BY <3>1, <3>2
  <2>3. FreeOn(g, u) = FreeOn(f, u)
    BY <2>2 DEF FreeOn
  <2>4. Placed(f, S, u)
    OBVIOUS
  <2>5. QED BY <2>1, <2>3, <2>4 DEF Placed
<1>6. QED BY <1>4, <1>5

\* So does merging a block that was given back with its free buddies.
LEMMA MergePlaces ==
    ASSUME NEW f, NEW S, \A u \in Nat : Placed(f, S, u),
           NEW m \in S, NEW s \in Nat, Level(m) \in Levels, Block(m) = At(s, Level(m)),
           NEW t \in Levels, NEW g, MergeTo(f, g, Level(m), t, s)
    PROVE  \A u \in Nat : Placed(g, S \ {m}, u)
<1> DEFINE k == Level(m)
<1> HIDE DEF k
<1>1. /\ k \in Levels /\ Level(m) = k /\ Block(m) = At(s, k)
      /\ k <= t /\ g[t] = f[t] \cup {At(s, t)}
      /\ \A a \in k .. t - 1 : BuddyOf(At(s, a)) \in f[a] /\ g[a] = f[a] \ {At(s, a), BuddyOf(At(s, a))}
      /\ \A a \in Levels : a # t /\ a \notin k .. t - 1 => g[a] = f[a]
  BY DEF MergeTo, k
<1> USE <1>1
<1>2. k \in Nat /\ t \in Nat /\ t \notin k .. t - 1 /\ \A a \in k .. t - 1 : a \in Nat /\ a \in Levels /\ k <= a
  BY BlocksAre
<1> SUFFICES ASSUME NEW u \in Nat PROVE Placed(g, S \ {m}, u)
  OBVIOUS
<1>3. At(u, t) = At(s, t) <=> (At(u, k) = At(s, k) \/ \E a \in k .. t - 1 : At(u, a) = BuddyOf(At(s, a)))
  BY <1>2, HalvesCover
<1>4. CASE At(u, t) = At(s, t)
  <2>1. At(u, t) \in g[t]
    BY <1>4
  <2>2. CASE At(u, k) = At(s, k)
    <3>1. m \in HeldBy(S, u)
      BY <2>2 DEF HeldBy
    <3>2. u < CountOfUnitBlock /\ FreeOn(f, u) = {} /\ HeldBy(S, u) = {m}
      BY <3>1 DEF Placed
    <3>3. HeldBy(S \ {m}, u) = {}
      BY <3>2 DEF HeldBy
    <3>4. ASSUME NEW c \in Levels, At(u, c) \in g[c], c # t PROVE FALSE
      <4>1. c \in FreeOn(f, u)
        BY <3>4 DEF FreeOn
      <4>2. QED BY <3>2, <4>1
    <3>5. FreeOn(g, u) = {t}
      BY <2>1, <3>4 DEF FreeOn
    <3>6. QED BY <3>2, <3>3, <3>5 DEF Placed
  <2>3. CASE \E a \in k .. t - 1 : At(u, a) = BuddyOf(At(s, a))
    <3>1. PICK a \in k .. t - 1 : At(u, a) = BuddyOf(At(s, a))
      BY <2>3
    <3>2. a \in FreeOn(f, u)
      BY <1>2, <3>1 DEF FreeOn
    <3>3. u < CountOfUnitBlock /\ FreeOn(f, u) = {a} /\ HeldBy(S, u) = {}
      BY <3>2 DEF Placed
    <3>4. HeldBy(S \ {m}, u) = {}
      BY <3>3 DEF HeldBy
    <3>5. ASSUME NEW c \in Levels, At(u, c) \in g[c], c # t PROVE FALSE
      <4>1. c # a
        BY <3>1, <3>5
      <4>2. c \in FreeOn(f, u)
        BY <3>5 DEF FreeOn
      <4>3. QED BY <3>3, <4>1, <4>2
    <3>6. FreeOn(g, u) = {t}
      BY <2>1, <3>5 DEF FreeOn
    <3>7. QED BY <3>3, <3>4, <3>6 DEF Placed
  <2>4. QED BY <1>3, <1>4, <2>2, <2>3
<1>5. CASE At(u, t) # At(s, t)
  <2>1. HeldBy(S \ {m}, u) = HeldBy(S, u)
    BY <1>3, <1>5 DEF HeldBy
  <2>2. ASSUME NEW c \in Levels PROVE At(u, c) \in g[c] <=> At(u, c) \in f[c]
    <3>1. CASE c = t
      BY <1>5, <3>1
    <3>2. CASE c \in k .. t - 1
      <4>1. At(u, c) # BuddyOf(At(s, c))
        BY <1>3, <1>5, <3>2
      <4>2. At(u, c) # At(s, c)
        <5>1. c \in Nat /\ c <= t
          BY <1>2, <3>2
        <5>2. QED BY <1>2, <1>5, <5>1, AtUp
      <4>3. QED BY <3>2, <4>1, <4>2
    <3>3. QED BY <3>1, <3>2
  <2>3. FreeOn(g, u) = FreeOn(f, u)
    BY <2>2 DEF FreeOn
  <2>4. m \notin HeldBy(S, u)
    BY <1>3, <1>5 DEF HeldBy
  <2>5. Placed(f, S, u)
    OBVIOUS
  <2>6. QED BY <2>1, <2>3, <2>4, <2>5 DEF Placed
<1>6. QED BY <1>4, <1>5

\* What ckDynMemAllocate gives is a new block, and the invariant holds after it.
LEMMA AllocateGives ==
    ASSUME BuddyInv, NEW bytes \in Nat, Allocate(bytes)
    PROVE  BuddyInv' /\ \E m : m \notin live /\ live' = live \cup {m} /\ m.size = bytes
<1> DEFINE k == LevelFor(bytes)
           S == Sources(bytes)
           l == Min(S)
           b == Min(bits[l])
           s == b * Pow2[l]
           c == b * Pow2[l - k]
           m == [addr |-> BeginAddr + c * (Unit * Pow2[k]), size |-> bytes]
<1>1. BlocksType /\ AllPlaced /\ NoPairs /\ CountsAgree
  BY DEF BuddyInv
<1>2. /\ bits' = [a \in Levels |-> IF a = l THEN bits[l] \ {b}
                                   ELSE IF a \in k .. l - 1 THEN bits[a] \cup Split(l, b, a) ELSE bits[a]]
      /\ count' = [a \in Levels |-> IF a = l THEN count[l] - 1
                                    ELSE IF a \in k .. l - 1 THEN count[a] + 1 ELSE count[a]]
      /\ UsedSize' = UsedSize + Ceil(bytes) /\ live' = live \cup {m}
      /\ bytes # 0 /\ S # {}
  BY DEF Allocate, Refused
<1>3. k \in Nat /\ BitmapLevel \in Nat /\ Levels = 0 .. BitmapLevel - 1
  BY LevelForIs, BlocksAre
<1>4. S = {a \in Levels : a >= k /\ count[a] # 0}
  BY DEF Sources
<1> HIDE DEF k, m, S
<1>5. l \in S /\ \A a \in S : l <= a
  <2>1. S \subseteq Nat
    BY <1>3, <1>4
  <2>2. QED BY <1>2, <2>1, LeastIs DEF Min
<1> HIDE DEF l
<1>6. l \in Levels /\ k \in Levels /\ k <= l /\ count[l] # 0 /\ l \in Nat
  BY <1>3, <1>4, <1>5
<1>7. ASSUME NEW a \in k .. l - 1 PROVE a \in Nat /\ a \in Levels /\ a < l /\ k <= a /\ count[a] = 0
  BY <1>3, <1>4, <1>5, <1>6
<1>8. b \in bits[l] /\ b \in Nat
  <2>1. bits[l] # {}
    BY <1>1, <1>6, FS_EmptySet DEF CountsAgree
  <2>2. bits[l] \subseteq Nat
    BY <1>1, <1>6 DEF BlocksType
  <2>3. QED BY <2>1, <2>2, LeastIs DEF Min
<1> HIDE DEF b
<1>9. \A a \in k .. l - 1 : bits[a] = {}
  BY <1>1, <1>7, FS_EmptySet DEF CountsAgree
<1>10. s \in Nat /\ At(s, l) = b
  BY <1>6, <1>8, UnitsAre
<1>11. At(s, k) = c
  BY <1>3, <1>6, <1>8, AtStart
<1>12. c \in Nat
  BY <1>3, <1>10, <1>11, AtIs
<1>13. \A a \in k .. l - 1 : Split(l, b, a) = {BuddyOf(At(s, a))}
  <2>1. ASSUME NEW a \in k .. l - 1 PROVE Split(l, b, a) = {BuddyOf(At(s, a))}
    <3>1. a \in Nat /\ a < l /\ a <= l
      BY <1>6, <1>7
    <3>2. At(s, a) = b * Pow2[l - a] /\ (b * Pow2[l - a]) % 2 = 0
      BY <1>6, <1>8, <3>1, AtStart
    <3> HIDE DEF s
    <3>3. At(s, a) \in Nat
      BY <1>10, <3>1, AtIs
    <3>4. BuddyOf(At(s, a)) = At(s, a) + 1
      BY <3>2, <3>3, BuddyIs
    <3>5. QED BY <3>2, <3>4 DEF Split
  <2>2. QED BY <2>1
<1> HIDE DEF s, c
<1>14. m.size = bytes /\ Level(m) = k /\ Block(m) = c /\ Proper(m)
  <2> DEFINE p == Unit * Pow2[k]
  <2>1. m.size = bytes /\ m.addr = BeginAddr + c * p /\ IsRecord(m)
    BY DEF m, IsRecord
  <2>2. Level(m) = k
    BY <2>1 DEF Level, k
  <2>3. p \in Nat \ {0}
    <3>1. Pow2[k] \in Nat \ {0} /\ Unit \in Nat \ {0}
      BY <1>3, PowIs, UnitAssumption
    <3>2. QED BY <3>1
  <2>4. Block(m) = (m.addr - BeginAddr) \div p
    BY <2>2 DEF Block
  <2> HIDE DEF p
  <2>5. BeginAddr \in Nat
    BY LayoutIs
  <2> DEFINE q == c * p
  <2>6. q \in Nat /\ m.addr - BeginAddr = q
    BY <1>12, <2>1, <2>3, <2>5
  <2>7. q \div p = c
    <3>1. c * p <= q /\ q < c * p + p
      <4>1. QED BY <2>3, <2>6
    <3>2. QED BY <1>12, <2>3, <2>6, <3>1, DivUnique
  <2>8. Block(m) = c
    BY <2>4, <2>6, <2>7
  <2>9. Proper(m)
    BY <1>2, <1>6, <1>12, <2>1, <2>2, <2>8 DEF Proper, p
  <2>10. QED BY <2>1, <2>2, <2>8, <2>9
<1>15. m \notin live
  <2>1. Placed(bits, live, s)
    BY <1>1, <1>10 DEF AllPlaced
  <2>2. l \in FreeOn(bits, s)
    BY <1>6, <1>8, <1>10 DEF FreeOn
  <2>3. HeldBy(live, s) = {}
    BY <2>1, <2>2 DEF Placed
  <2>4. m \in live => m \in HeldBy(live, s)
    BY <1>11, <1>14 DEF HeldBy
  <2>5. QED BY <2>3, <2>4
<1>16. /\ bits'[l] = bits[l] \ {At(s, l)}
       /\ \A a \in k .. l - 1 : bits'[a] = {BuddyOf(At(s, a))}
       /\ \A a \in Levels : a # l /\ a \notin k .. l - 1 => bits'[a] = bits[a]
  <2>1. bits'[l] = bits[l] \ {At(s, l)}
    BY <1>2, <1>6, <1>10
  <2>2. ASSUME NEW a \in k .. l - 1 PROVE bits'[a] = {BuddyOf(At(s, a))}
    <3>1. a # l /\ a \in Levels
      BY <1>6, <1>7
    <3>2. QED BY <1>2, <1>9, <1>13, <3>1
  <2>3. \A a \in Levels : a # l /\ a \notin k .. l - 1 => bits'[a] = bits[a]
    BY <1>2
  <2>4. QED BY <2>1, <2>2, <2>3
<1>17. \A a \in k .. l - 1 : BuddyOf(At(s, a)) \in Nat
  BY <1>7, <1>10, AtIs, BuddyIs
<1>18. ASSUME NEW a \in Levels PROVE a = l \/ a \in k .. l - 1 \/ (a # l /\ a \notin k .. l - 1)
  OBVIOUS
<1>19. \A a \in Levels : bits'[a] \subseteq Nat
  BY <1>1, <1>16, <1>17, <1>18 DEF BlocksType
<1>20. ASSUME NEW a \in Levels
       PROVE  /\ IsFiniteSet(bits[a])' /\ (count[a] = Cardinality(bits[a]))'
              /\ count'[a] \in Nat
  <2>1. IsFiniteSet(bits[a]) /\ count[a] = Cardinality(bits[a]) /\ count[a] \in Nat
    BY <1>1 DEF CountsAgree, BlocksType
  <2>2. CASE a = l
    <3>1. IsFiniteSet(bits[l] \ {b}) /\ Cardinality(bits[l] \ {b}) = Cardinality(bits[l]) - 1
      BY <1>8, <2>1, <2>2, FS_RemoveElement
    <3>2. count'[a] = count[a] - 1 /\ count[a] # 0
      BY <1>2, <1>6, <2>2
    <3>3. bits'[a] = bits[l] \ {b}
      BY <1>10, <1>16, <2>2
    <3>4. count[a] - 1 \in Nat
      BY <2>1, <3>2
    <3>5. QED BY <2>1, <2>2, <3>1, <3>2, <3>3, <3>4
  <2>3. CASE a \in k .. l - 1
    <3>1. count'[a] = count[a] + 1 /\ count[a] = 0
      BY <1>2, <1>6, <1>7, <2>3
    <3>2. bits'[a] = {BuddyOf(At(s, a))}
      BY <1>16, <2>3
    <3>3. IsFiniteSet(bits'[a]) /\ Cardinality(bits'[a]) = 1
      BY <3>2, FS_Singleton
    <3>4. count'[a] = 1
      BY <3>1
    <3>5. QED BY <3>3, <3>4
  <2>4. CASE a # l /\ a \notin k .. l - 1
    BY <1>2, <1>16, <2>1, <2>4
  <2>5. QED BY <2>2, <2>3, <2>4
<1>21. BlocksType'
  <2>1. \A x \in live' : Proper(x)
    BY <1>1, <1>2, <1>14 DEF BlocksType
  <2>2. IsFiniteSet(live')
    BY <1>1, <1>2, FS_AddElement DEF BlocksType
  <2>3. bits' \in [Levels -> SUBSET Nat]
    <3>1. bits' = [a \in Levels |-> bits'[a]]
      BY <1>2
    <3>2. QED BY <1>19, <3>1
  <2>4. count' \in [Levels -> Nat]
    <3>1. count' = [a \in Levels |-> count'[a]]
      BY <1>2
    <3>2. QED BY <1>20, <3>1
  <2>5. QED BY <2>1, <2>2, <2>3, <2>4 DEF BlocksType
<1>22. AllPlaced'
  <2>1. \A u \in Nat : Placed(bits, live, u)
    BY <1>1 DEF AllPlaced
  <2>2. At(s, l) \in bits[l]
    BY <1>8, <1>10
  <2>3. Level(m) \in Levels /\ Block(m) = At(s, Level(m))
    BY <1>6, <1>11, <1>14
  <2>4. SplitTo(bits, bits', Level(m), l, s)
    BY <1>6, <1>9, <1>14, <1>16, <2>2 DEF SplitTo
  <2>5. \A u \in Nat : Placed(bits', live \cup {m}, u)
    BY <1>6, <1>10, <1>15, <2>1, <2>3, <2>4, SplitPlaces
  <2>6. QED BY <1>2, <2>5 DEF AllPlaced
<1>23. NoPairs'
  <2>1. ASSUME NEW a \in Levels, NEW x \in bits'[a] PROVE BuddyOf(x) \notin bits'[a]
    <3>1. CASE a \in k .. l - 1
      <4>1. x = BuddyOf(At(s, a)) /\ bits'[a] = {x} /\ x \in Nat
        BY <1>16, <1>17, <2>1, <3>1
      <4>2. QED BY <4>1, BuddyIs
    <3>2. CASE a \notin k .. l - 1
      <4>1. bits'[a] \subseteq bits[a]
        BY <1>16, <3>2
      <4>2. QED BY <1>1, <2>1, <4>1 DEF NoPairs
    <3>3. QED BY <3>1, <3>2
  <2>2. QED BY <2>1 DEF NoPairs
<1>24. CountsAgree'
  <2>1. Sized(live \cup {m})
    <3>1. ASSUME NEW x \in live \cup {m} PROVE Ceil(x.size) \in Nat
      <4>1. x.size \in Nat
        BY <1>1, <1>14 DEF BlocksType, Proper
      <4>2. QED BY <4>1, CeilIs
    <3>2. QED BY <3>1 DEF Sized
  <2>2. IsFiniteSet(live)
    BY <1>1 DEF BlocksType
  <2>3. Total(live \cup {m}) = Total(live) + Ceil(m.size)
    BY <1>15, <2>1, <2>2, TotalAdds
  <2>4. UsedSize' = Total(live')
    BY <1>1, <1>2, <1>14, <2>3 DEF CountsAgree
  <2>5. QED BY <1>20, <2>4 DEF CountsAgree
<1>25. QED BY <1>2, <1>14, <1>15, <1>21, <1>22, <1>23, <1>24 DEF BuddyInv

\* A block's address is a number of units.
LEMMA AddrIs ==
    ASSUME NEW m, Proper(m), NEW addr \in {m.addr, m.addr + Unit - 1}
    PROVE  (addr \div Unit) * Unit = m.addr
<1> DEFINE p == Pow2[Level(m)]
           c == Block(m)
           d == BeginAddr \div Unit
           q == d + c * p
<1>1. c \in Nat /\ Level(m) \in Nat /\ m.addr = BeginAddr + c * (Unit * p)
  BY BlocksAre DEF Proper
<1>2. p \in Nat \ {0} /\ Unit \in Nat \ {0} /\ BeginAddr \in Nat /\ BeginAddr % Unit = 0
  BY <1>1, PowIs, UnitAssumption, LayoutIs
<1>3. d \in Nat /\ BeginAddr = d * Unit
  BY <1>2
<1> HIDE DEF p, c, d
<1>4. q \in Nat
  BY <1>1, <1>2, <1>3
<1>5. m.addr = q * Unit
  <2>1. c * (Unit * p) = (c * p) * Unit
    BY <1>1, <1>2
  <2>2. c * p \in Nat
    BY <1>1, <1>2
  <2> DEFINE x == c * p
  <2>3. q * Unit = d * Unit + x * Unit
    <3>1. x \in Nat /\ q = d + x
      BY <2>2
    <3> HIDE DEF x, q
    <3>2. QED BY <1>2, <1>3, <3>1
  <2>4. QED BY <1>1, <1>3, <2>1, <2>3
<1> HIDE DEF q
<1>6. q * Unit \in Nat
  BY <1>2, <1>4
<1>7. addr \in Nat /\ q * Unit <= addr /\ addr < q * Unit + Unit
  <2> DEFINE x == q * Unit
  <2>1. x \in Nat /\ m.addr = x
    BY <1>5, <1>6
  <2> HIDE DEF x
  <2>2. addr \in Nat /\ x <= addr /\ addr < x + Unit
    BY <1>2, <2>1
  <2>3. QED BY <2>2 DEF x
<1>8. addr \div Unit = q
  BY <1>2, <1>4, <1>7, DivUnique
<1>9. QED BY <1>5, <1>8

\* What a caller gives back is free again, and the invariant holds after it.
LEMMA FreeTakes ==
    ASSUME BuddyInv, NEW m \in live, NEW addr \in {m.addr, m.addr + Unit - 1}, Free(m, addr)
    PROVE  BuddyInv' /\ live' = live \ {m}
<1> DEFINE k == Level(m)
           b == ((addr \div Unit) * Unit - BeginAddr) \div (Unit * Pow2[k])
           merged == Merges(k, b)
           top == k + Cardinality(merged)
           s == b * Pow2[k]
           On(l) == IF l \in merged THEN bits[l] \ {Above(k, b, l), BuddyOf(Above(k, b, l))}
                    ELSE IF l = top THEN bits[l] \cup {Above(k, b, l)} ELSE bits[l]
<1>1. BlocksType /\ AllPlaced /\ NoPairs /\ CountsAgree
  BY DEF BuddyInv
<1>2. /\ bits' = [l \in Levels |-> On(l)]
      /\ count' = [l \in Levels |-> IF l \in merged THEN count[l] + 1 - 2
                                    ELSE IF l = top THEN count[l] + 1 ELSE count[l]]
      /\ UsedSize' = UsedSize - Ceil(m.size) /\ live' = live \ {m}
  BY DEF Free, Level
<1>3. Proper(m) /\ k \in Levels /\ Block(m) \in Nat
  BY <1>1 DEF BlocksType, Proper
<1>4. b = Block(m)
  BY <1>3, AddrIs DEF Block
<1> HIDE DEF b, k
<1>5. k \in Nat /\ BitmapLevel \in Nat /\ Levels = 0 .. BitmapLevel - 1
  BY <1>3, BlocksAre
<1>6. s \in Nat /\ At(s, k) = b /\ b \in Nat
  BY <1>3, <1>4, <1>5, UnitsAre
<1> HIDE DEF s
<1>7. \A l \in Nat : k <= l => Above(k, b, l) = At(s, l)
  BY <1>5, <1>6, AtTwice DEF Above
<1>8. merged = {l \in Levels : l >= k /\ l + 1 \in Levels /\ \A a \in k .. l : BuddyOf(At(s, a)) \in bits[a]}
  <2>1. ASSUME NEW l \in Levels, l >= k
        PROVE  (\A a \in k .. l : BuddyOf(Above(k, b, a)) \in bits[a])
                 <=> \A a \in k .. l : BuddyOf(At(s, a)) \in bits[a]
    BY <1>5, <1>7, <2>1
  <2>2. QED BY <2>1 DEF Merges
<1> HIDE DEF merged
<1>9. PICK t \in Nat : k <= t /\ t \notin merged /\ \A l \in Nat : k <= l /\ l \notin merged => t <= l
  <2> DEFINE S == {l \in Nat : k <= l /\ l \notin merged}
  <2>1. BitmapLevel \in S
    BY <1>3, <1>5, <1>8
  <2>2. S \subseteq Nat
    OBVIOUS
  <2>3. \E t \in S : \A l \in S : t <= l
    <3> HIDE DEF S
    <3>1. QED BY <2>1, <2>2, LeastIs
  <2>4. QED BY <2>3
<1>10. merged = k .. t - 1
  <2>1. ASSUME NEW l \in k .. t - 1 PROVE l \in merged
    <3>1. l \in Nat /\ k <= l /\ ~ (t <= l)
      BY <1>5, <1>9
    <3>2. QED BY <1>9, <3>1
  <2>2. ASSUME NEW l \in merged, l \notin k .. t - 1 PROVE FALSE
    <3>1. l \in Nat /\ k <= l /\ t <= l /\ l \in Levels /\ l + 1 \in Levels
      BY <1>5, <1>8, <1>9, <2>2
    <3>2. t \in Levels /\ t + 1 \in Levels /\ t >= k
      BY <1>5, <1>9, <3>1
    <3>3. \A a \in k .. t : BuddyOf(At(s, a)) \in bits[a]
      BY <1>5, <1>8, <1>9, <2>2, <3>1
    <3>4. QED BY <1>8, <1>9, <3>2, <3>3
  <2>3. QED BY <2>1, <2>2
<1>11. top = t
  <2>1. Cardinality(k .. t - 1) = t - k
    <3>1. k \in Int /\ t - 1 \in Int
      BY <1>5, <1>9
    <3>2. Cardinality(k .. t - 1) = IF k > t - 1 THEN 0 ELSE (t - 1) - k + 1
      BY <3>1, FS_Interval
    <3>3. QED BY <1>5, <1>9, <3>2
  <2>2. QED BY <1>5, <1>9, <1>10, <2>1
<1> HIDE DEF top
<1>12. t \in Levels
  <2>1. t # k => t - 1 \in merged
    BY <1>5, <1>9, <1>10
  <2>2. t # k => t - 1 + 1 \in Levels
    BY <1>8, <2>1
  <2>3. QED BY <1>3, <1>9, <2>2
<1>13. ASSUME NEW l \in k .. t - 1
       PROVE  l \in Nat /\ k <= l /\ l < t /\ l \in Levels /\ BuddyOf(At(s, l)) \in bits[l]
  <2>1. l \in merged
    BY <1>10
  <2>2. l \in Levels /\ l >= k /\ BuddyOf(At(s, l)) \in bits[l]
    BY <1>5, <1>8, <2>1
  <2>3. QED BY <1>5, <1>9, <2>2
<1>14. ~ (t + 1 \in Levels /\ BuddyOf(At(s, t)) \in bits[t])
  <2>1. ASSUME t + 1 \in Levels, BuddyOf(At(s, t)) \in bits[t] PROVE FALSE
    <3>1. ASSUME NEW a \in k .. t PROVE BuddyOf(At(s, a)) \in bits[a]
      <4>1. a = t \/ a \in k .. t - 1
        BY <1>5, <1>9
      <4>2. QED BY <1>13, <2>1, <4>1
    <3>2. QED BY <1>8, <1>9, <1>12, <2>1, <3>1
  <2>2. QED BY <2>1
<1>15. /\ bits'[t] = bits[t] \cup {At(s, t)}
       /\ \A l \in k .. t - 1 : bits'[l] = bits[l] \ {At(s, l), BuddyOf(At(s, l))}
       /\ \A l \in Levels : l # t /\ l \notin k .. t - 1 => bits'[l] = bits[l]
  <2>1. bits'[t] = bits[t] \cup {At(s, t)}
    BY <1>2, <1>7, <1>9, <1>11, <1>12
  <2>2. ASSUME NEW l \in k .. t - 1 PROVE bits'[l] = bits[l] \ {At(s, l), BuddyOf(At(s, l))}
    <3>1. Above(k, b, l) = At(s, l) /\ l \in Levels /\ l \in merged
      BY <1>7, <1>10, <1>13
    <3>2. QED BY <1>2, <3>1
  <2>3. ASSUME NEW l \in Levels, l # t, l \notin k .. t - 1 PROVE bits'[l] = bits[l]
    BY <1>2, <1>10, <1>11, <2>3
  <2>4. QED BY <2>1, <2>2, <2>3
<1>16. At(s, t) \notin bits[t] /\ HeldBy(live, s) = {m} /\ s < CountOfUnitBlock
  <2>1. Placed(bits, live, s)
    BY <1>1, <1>6 DEF AllPlaced
  <2>2. m \in HeldBy(live, s)
    BY <1>4, <1>6 DEF HeldBy, k
  <2>3. FreeOn(bits, s) = {} /\ HeldBy(live, s) = {m} /\ s < CountOfUnitBlock
    BY <2>1, <2>2 DEF Placed
  <2>4. At(s, t) \in bits[t] => t \in FreeOn(bits, s)
    BY <1>12 DEF FreeOn
  <2>5. QED BY <2>3, <2>4
<1>17. ASSUME NEW l \in Nat PROVE At(s, l) \in Nat /\ BuddyOf(At(s, l)) \in Nat
  BY <1>6, AtIs, BuddyIs
<1>18. ASSUME NEW l \in Levels PROVE l = t \/ l \in k .. t - 1 \/ (l # t /\ l \notin k .. t - 1)
  OBVIOUS
<1>19. \A l \in Levels : bits'[l] \subseteq Nat
  <2>1. \A l \in Levels : bits[l] \subseteq Nat
    BY <1>1 DEF BlocksType
  <2>2. QED BY <1>9, <1>15, <1>17, <1>18, <2>1
<1>20. ASSUME NEW l \in Levels
       PROVE  /\ IsFiniteSet(bits[l])' /\ (count[l] = Cardinality(bits[l]))'
              /\ count'[l] \in Nat
  <2>1. IsFiniteSet(bits[l]) /\ count[l] = Cardinality(bits[l]) /\ count[l] \in Nat
    BY <1>1 DEF CountsAgree, BlocksType
  <2>2. CASE l = t
    <3>1. IsFiniteSet(bits'[l]) /\ Cardinality(bits'[l]) = Cardinality(bits[l]) + 1
      <4> DEFINE B == bits[t]
                 x == At(s, t)
      <4>1. IsFiniteSet(B) /\ x \notin B /\ bits'[l] = B \cup {x}
        BY <1>15, <1>16, <2>1, <2>2
      <4> HIDE DEF B, x
      <4>2. IsFiniteSet(B \cup {x}) /\ Cardinality(B \cup {x}) = Cardinality(B) + 1
        BY <4>1, FS_AddElement
      <4>3. QED BY <2>2, <4>1, <4>2 DEF B
    <3>2. count'[l] = count[l] + 1
      BY <1>2, <1>9, <1>10, <1>11, <2>2
    <3>3. QED BY <2>1, <3>1, <3>2
  <2>3. CASE l \in k .. t - 1
    <3> DEFINE x == BuddyOf(At(s, l))
    <3>1. x \in bits[l]
      BY <1>13, <2>3
    <3>2. At(s, l) \notin bits[l]
      <4>1. BuddyOf(x) = At(s, l)
        BY <1>13, <1>17, <2>3, BuddyIs
      <4>2. QED BY <1>1, <3>1, <4>1 DEF NoPairs
    <3>3. bits'[l] = bits[l] \ {x}
      BY <1>15, <2>3, <3>2
    <3> HIDE DEF x
    <3>4. IsFiniteSet(bits'[l]) /\ Cardinality(bits'[l]) = Cardinality(bits[l]) - 1
      BY <2>1, <3>1, <3>3, FS_RemoveElement
    <3>5. count[l] # 0
      BY <2>1, <3>1, FS_EmptySet
    <3>6. count'[l] = count[l] + 1 - 2
      BY <1>2, <1>10, <2>3
    <3>7. QED BY <2>1, <3>4, <3>5, <3>6
  <2>4. CASE l # t /\ l \notin k .. t - 1
    <3>1. count'[l] = count[l] /\ bits'[l] = bits[l]
      BY <1>2, <1>10, <1>11, <1>15, <2>4
    <3>2. QED BY <2>1, <3>1
  <2>5. QED BY <2>2, <2>3, <2>4
<1>21. BlocksType'
  <2>1. \A x \in live' : Proper(x)
    BY <1>1, <1>2 DEF BlocksType
  <2>2. IsFiniteSet(live')
    BY <1>1, <1>2, FS_RemoveElement DEF BlocksType
  <2>3. bits' \in [Levels -> SUBSET Nat]
    <3>1. bits' = [a \in Levels |-> bits'[a]]
      BY <1>2
    <3>2. QED BY <1>19, <3>1
  <2>4. count' \in [Levels -> Nat]
    <3>1. count' = [a \in Levels |-> count'[a]]
      BY <1>2
    <3>2. QED BY <1>20, <3>1
  <2>5. QED BY <2>1, <2>2, <2>3, <2>4 DEF BlocksType
<1>22. AllPlaced'
  <2>1. \A u \in Nat : Placed(bits, live, u)
    BY <1>1 DEF AllPlaced
  <2>2. Level(m) \in Levels /\ Block(m) = At(s, Level(m))
    BY <1>3, <1>4, <1>6 DEF k
  <2>3. MergeTo(bits, bits', Level(m), t, s)
    BY <1>9, <1>13, <1>15 DEF MergeTo, k
  <2>4. \A u \in Nat : Placed(bits', live \ {m}, u)
    BY <1>6, <1>12, <2>1, <2>2, <2>3, MergePlaces
  <2>5. QED BY <1>2, <2>4 DEF AllPlaced
<1>23. BuddyOf(At(s, t)) \notin bits[t]
  <2>1. SUFFICES ASSUME BuddyOf(At(s, t)) \in bits[t] PROVE FALSE
    OBVIOUS
  <2> DEFINE x == BuddyOf(At(s, t))
  <2>2. t + 1 = BitmapLevel
    BY <1>5, <1>9, <1>12, <1>14, <2>1
  <2>3. At(CountOfUnitBlock, t) \in {0, 1}
    <3>1. CountOfUnitBlock \in Nat /\ At(CountOfUnitBlock, BitmapLevel) = 0
      BY LayoutIs, BlocksAre
    <3>2. At(CountOfUnitBlock, t) \in Nat /\ At(CountOfUnitBlock, t + 1) = At(CountOfUnitBlock, t) \div 2
      BY <1>9, <3>1, AtIs
    <3> DEFINE y == At(CountOfUnitBlock, t)
    <3>3. y \in Nat /\ y \div 2 = 0
      BY <2>2, <3>1, <3>2
    <3> HIDE DEF y
    <3>4. y \in {0, 1}
      BY <3>3
    <3>5. QED BY <3>4 DEF y
  <2>4. x < At(CountOfUnitBlock, t)
    <3>1. \A u \in Nat : Placed(bits, live, u)
      BY <1>1 DEF AllPlaced
    <3>2. x \in Nat
      BY <1>9, <1>17
    <3>3. QED BY <1>12, <2>1, <3>1, <3>2, FreeInside
  <2>5. At(s, t) < At(CountOfUnitBlock, t)
    <3>1. \A u \in Nat : Placed(bits', live', u)
      BY <1>22 DEF AllPlaced
    <3>2. At(s, t) \in bits'[t] /\ At(s, t) \in Nat
      BY <1>9, <1>15, <1>17
    <3>3. QED BY <1>12, <3>1, <3>2, FreeInside
  <2>6. x # At(s, t) /\ x \in Nat /\ At(s, t) \in Nat
    BY <1>9, <1>17, BuddyIs
  <2> HIDE DEF x
  <2>7. QED BY <2>3, <2>4, <2>5, <2>6
<1>24. NoPairs'
  <2>1. ASSUME NEW l \in Levels, NEW x \in bits'[l] PROVE BuddyOf(x) \notin bits'[l]
    <3>1. CASE l = t
      <4>1. At(s, t) \in Nat /\ BuddyOf(At(s, t)) # At(s, t)
        BY <1>9, <1>17, BuddyIs
      <4>2. CASE x = At(s, t)
        BY <1>15, <1>23, <3>1, <4>1, <4>2
      <4>3. CASE x # At(s, t)
        <5>1. x \in bits[t] /\ x \in Nat
          BY <1>1, <1>12, <1>15, <2>1, <3>1, <4>3 DEF BlocksType
        <5>2. BuddyOf(x) \notin bits[t]
          BY <1>1, <1>12, <5>1 DEF NoPairs
        <5>3. BuddyOf(BuddyOf(x)) = x
          BY <5>1, BuddyIs
        <5>4. BuddyOf(x) # At(s, t)
          BY <1>23, <5>1, <5>3
        <5>5. QED BY <1>15, <3>1, <5>2, <5>4
      <4>4. QED BY <4>2, <4>3
    <3>2. CASE l # t
      <4>1. bits'[l] \subseteq bits[l]
        BY <1>15, <3>2
      <4>2. QED BY <1>1, <2>1, <4>1 DEF NoPairs
    <3>3. QED BY <3>1, <3>2
  <2>2. QED BY <2>1 DEF NoPairs
<1>25. CountsAgree'
  <2> DEFINE S == live \ {m}
  <2>1. S \cup {m} = live /\ m \notin S
    OBVIOUS
  <2>2. \A x \in live : Ceil(x.size) \in Nat
    <3>1. ASSUME NEW x \in live PROVE Ceil(x.size) \in Nat
      <4>1. x.size \in Nat
        BY <1>1 DEF BlocksType, Proper
      <4>2. QED BY <4>1, CeilIs
    <3>2. QED BY <3>1
  <2>3. Sized(S \cup {m}) /\ Ceil(m.size) \in Nat
    BY <2>1, <2>2 DEF Sized
  <2>4. IsFiniteSet(S)
    BY <1>1, FS_RemoveElement DEF BlocksType
  <2> HIDE DEF S
  <2>5. Total(S) \in Nat /\ Total(S \cup {m}) = Total(S) + Ceil(m.size)
    BY <2>1, <2>3, <2>4, TotalAdds
  <2>6. UsedSize' = UsedSize - Ceil(m.size) /\ UsedSize = Total(live) /\ live' = S
    BY <1>1, <1>2 DEF CountsAgree, S
  <2> DEFINE y == Ceil(m.size)
  <2>7. y \in Nat /\ Total(live) = Total(S) + y /\ UsedSize' = UsedSize - y
    BY <2>1, <2>3, <2>5, <2>6
  <2> HIDE DEF y
  <2>8. UsedSize' = Total(live')
    BY <2>5, <2>6, <2>7
  <2>9. QED BY <1>20, <2>8 DEF CountsAgree
<1>26. QED BY <1>2, <1>21, <1>22, <1>24, <1>25 DEF BuddyInv

\* Whatever is neither allocated nor given back keeps the invariant.
LEMMA BuddyStutters ==
    ASSUME BuddyInv, UNCHANGED buddyVars
    PROVE  BuddyInv'
<1>1. bits' = bits /\ count' = count /\ UsedSize' = UsedSize /\ live' = live
  BY DEF buddyVars
<1>2. BlocksType /\ AllPlaced /\ NoPairs /\ CountsAgree
  BY DEF BuddyInv
<1>3. BlocksType'
  BY <1>1, <1>2 DEF BlocksType
<1>4. AllPlaced'
  BY <1>1, <1>2 DEF AllPlaced
<1>5. NoPairs'
  BY <1>1, <1>2 DEF NoPairs
<1>6. CountsAgree'
  BY <1>1, <1>2 DEF CountsAgree
<1>7. QED BY <1>3, <1>4, <1>5, <1>6 DEF BuddyInv

\* The units of a caller's block are those that it is said to hold.
LEMMA UnitsOfAre ==
    ASSUME NEW m, Proper(m), NEW u \in Nat
    PROVE  u \in UnitsOf(m) <=> At(u, Level(m)) = Block(m)
<1>1. UnitsOf(m) = Units(Level(m), Block(m))
  BY DEF UnitsOf, Level, Block
<1>2. Level(m) \in Nat /\ Block(m) \in Nat
  BY BlocksAre DEF Proper
<1>3. QED BY <1>1, <1>2, UnitsAre

\* Every unit is in exactly one block that is free or held, and the counts are right.
LEMMA PartitionHolds == BuddyInv => Partition
<1> SUFFICES ASSUME BuddyInv PROVE Partition
  OBVIOUS
<1>1. BlocksType /\ AllPlaced /\ CountsAgree
  BY DEF BuddyInv
<1>2. ASSUME NEW u \in 0 .. CountOfUnitBlock - 1
      PROVE  Cardinality({m \in live : u \in UnitsOf(m)})
                + Cardinality({l \in Levels : \E b \in bits[l] : u \in Units(l, b)}) = 1
  <2>1. u \in Nat /\ ~ (u >= CountOfUnitBlock)
    BY LayoutIs
  <2>2. {m \in live : u \in UnitsOf(m)} = HeldBy(live, u)
    <3>1. \A m \in live : u \in UnitsOf(m) <=> At(u, Level(m)) = Block(m)
      BY <1>1, <2>1, UnitsOfAre DEF BlocksType
    <3>2. QED BY <3>1 DEF HeldBy
  <2>3. {l \in Levels : \E b \in bits[l] : u \in Units(l, b)} = FreeOn(bits, u)
    <3>1. ASSUME NEW l \in Levels PROVE (\E b \in bits[l] : u \in Units(l, b)) <=> At(u, l) \in bits[l]
      <4>1. l \in Nat /\ bits[l] \subseteq Nat
        BY <1>1, BlocksAre DEF BlocksType
      <4>2. \A b \in bits[l] : u \in Units(l, b) <=> At(u, l) = b
        BY <2>1, <4>1, UnitsAre
      <4>3. QED BY <4>2
    <3>2. QED BY <3>1 DEF FreeOn
  <2>4. Placed(bits, live, u)
    BY <1>1, <2>1 DEF AllPlaced
  <2> DEFINE H == HeldBy(live, u)
             F == FreeOn(bits, u)
  <2>5. (\E l : F = {l} /\ H = {}) \/ (\E m : F = {} /\ H = {m})
    BY <2>1, <2>4 DEF Placed
  <2> HIDE DEF H, F
  <2>6. Cardinality(H) + Cardinality(F) = 1
    <3>1. Cardinality({}) = 0
      BY FS_EmptySet
    <3>2. ASSUME NEW l, F = {l}, H = {} PROVE Cardinality(H) = 0 /\ Cardinality(F) = 1
      BY <3>1, <3>2, FS_Singleton
    <3>3. ASSUME NEW m, F = {}, H = {m} PROVE Cardinality(H) = 1 /\ Cardinality(F) = 0
      BY <3>1, <3>3, FS_Singleton
    <3>4. (Cardinality(H) = 0 /\ Cardinality(F) = 1) \/ (Cardinality(H) = 1 /\ Cardinality(F) = 0)
      BY <2>5, <3>2, <3>3
    <3>5. QED BY <3>4
  <2>7. QED BY <2>2, <2>3, <2>6 DEF H, F
<1>3. UsedSize = MapThenSumSet(LAMBDA m : Ceil(m.size), live)
  BY <1>1 DEF CountsAgree, Total
<1>4. \A l \in Levels : count[l] = Cardinality(bits[l])
  BY <1>1 DEF CountsAgree
<1>5. QED BY <1>2, <1>3, <1>4 DEF Partition

\* A block no part of which a caller holds is part of a free one.
LEMMA WholeIsFree ==
    ASSUME BuddyInv, NEW k \in Levels, NEW b \in Nat, b < At(CountOfUnitBlock, k),
           \A u \in Nat : At(u, k) = b => HeldBy(live, u) = {}
    PROVE  \E l \in Levels : k <= l /\ \E u \in Nat : At(u, k) = b /\ At(u, l) \in bits[l]
<1>1. /\ \A u \in Nat : Placed(bits, live, u)
      /\ NoPairs
      /\ k \in Nat /\ \A l \in Levels : l \in Nat /\ bits[l] \subseteq Nat
  BY BlocksAre DEF BuddyInv, AllPlaced, BlocksType
<1>2. ASSUME NEW u \in Nat, At(u, k) = b PROVE \E l \in Levels : FreeOn(bits, u) = {l}
  <2>1. u < CountOfUnitBlock
    BY <1>1, <1>2, BlockEnds
  <2>2. Placed(bits, live, u) /\ HeldBy(live, u) = {}
    BY <1>1, <1>2
  <2>3. ~ (u >= CountOfUnitBlock)
    BY <2>1, LayoutIs
  <2>4. QED BY <2>2, <2>3 DEF Placed
<1> DEFINE S == {l \in Levels : \E u \in Nat : At(u, k) = b /\ FreeOn(bits, u) = {l}}
<1>3. PICK l \in S : \A a \in S : l <= a
  <2>1. b * Pow2[k] \in Nat /\ At(b * Pow2[k], k) = b
    BY <1>1, UnitsAre
  <2>2. S # {}
    BY <1>2, <2>1
  <2>3. S \subseteq Nat
    BY <1>1
  <2> HIDE DEF S
  <2>4. QED BY <2>2, <2>3, LeastIs
<1>4. PICK u \in Nat : At(u, k) = b /\ FreeOn(bits, u) = {l}
  BY <1>3
<1>5. l \in Levels /\ l \in Nat /\ At(u, l) \in bits[l]
  BY <1>1, <1>4 DEF FreeOn
<1>6. CASE k <= l
  BY <1>4, <1>5, <1>6
<1>7. CASE ~ (k <= l)
  <2> DEFINE c == At(u, l)
             d == BuddyOf(c)
             v == d * Pow2[l]
  <2>1. c \in Nat /\ At(u, l + 1) = c \div 2
    BY <1>5, AtIs
  <2>2. d \in Nat /\ d \div 2 = c \div 2 /\ d \notin bits[l]
    BY <1>1, <1>5, <2>1, BuddyIs DEF NoPairs
  <2> HIDE DEF d
  <2>3. v \in Nat /\ At(v, l) = d
    BY <1>5, <2>2, UnitsAre
  <2> HIDE DEF c, v
  <2>4. At(v, l + 1) = d \div 2
    BY <1>5, <2>3, AtIs
  <2>5. At(v, l + 1) = At(u, l + 1) /\ l + 1 \in Nat /\ l + 1 <= k
    BY <1>1, <1>5, <1>7, <2>1, <2>2, <2>4
  <2>6. At(v, k) = b
    BY <1>1, <1>4, <2>3, <2>5, AtUp
  <2>7. PICK a \in Levels : FreeOn(bits, v) = {a}
    BY <1>2, <2>3, <2>6
  <2>8. a \in S /\ At(v, a) \in bits[a] /\ a \in Nat
    BY <1>1, <2>3, <2>6, <2>7 DEF FreeOn
  <2>9. l <= a /\ a # l
    BY <1>3, <2>2, <2>3, <2>8
  <2>10. l + 1 <= a
    BY <1>5, <2>8, <2>9
  <2>11. At(u, a) = At(v, a)
    BY <2>3, <2>5, <2>8, <2>10, AtUp
  <2>12. a \in FreeOn(bits, u)
    BY <2>8, <2>11 DEF FreeOn
  <2>13. QED BY <1>4, <2>9, <2>12
<1>8. QED BY <1>6, <1>7

\* When nothing is held the free blocks are those of the start.
LEMMA EmptiedIsInitial ==
    ASSUME BuddyInv, live = {}
    PROVE  bits = [l \in Levels |-> Leftover(l)]
<1>1. /\ \A u \in Nat : Placed(bits, live, u)
      /\ NoPairs
      /\ bits \in [Levels -> SUBSET Nat]
      /\ \A l \in Levels : l \in Nat /\ bits[l] \subseteq Nat
  BY BlocksAre DEF BuddyInv, AllPlaced, BlocksType
<1>2. \A u \in Nat : HeldBy(live, u) = {}
  BY DEF HeldBy
<1>3. ASSUME NEW l \in Levels, NEW b \in bits[l] PROVE b \in Leftover(l)
  <2> DEFINE d == BuddyOf(b)
             n == At(CountOfUnitBlock, l)
             w == b * Pow2[l]
  <2>1. l \in Nat /\ b \in Nat
    BY <1>1
  <2>2. d \in Nat /\ d # b /\ BuddyOf(d) = b /\ d \div 2 = b \div 2 /\ d \notin bits[l]
    BY <1>1, <2>1, BuddyIs DEF NoPairs
  <2>3. w \in Nat /\ At(w, l) = b
    BY <2>1, UnitsAre
  <2>4. b < n
    BY <1>1, <2>1, FreeInside
  <2>5. n \in Nat /\ LevelSize(l) = n
    BY BlocksAre
  <2>6. d < n => FALSE
    <3>1. SUFFICES ASSUME d < n PROVE FALSE
      OBVIOUS
    <3> HIDE DEF d, w
    <3>2. PICK a \in Levels : l <= a /\ \E u \in Nat : At(u, l) = d /\ At(u, a) \in bits[a]
      BY <1>2, <2>2, <3>1, WholeIsFree
    <3>3. PICK u \in Nat : At(u, l) = d /\ At(u, a) \in bits[a]
      BY <3>2
    <3>4. a # l /\ a \in Nat
      BY <1>1, <2>2, <3>3
    <3>5. l + 1 <= a /\ l + 1 \in Nat
      BY <2>1, <3>2, <3>4
    <3>6. At(u, l + 1) = d \div 2
      BY <2>1, <3>3, AtIs
    <3>7. At(w, l + 1) = b \div 2
      BY <2>1, <2>3, AtIs
    <3>8. At(w, a) = At(u, a)
      BY <2>2, <2>3, <3>4, <3>5, <3>6, <3>7, AtUp
    <3>9. a \in FreeOn(bits, w) /\ l \in FreeOn(bits, w)
      BY <2>3, <3>3, <3>8 DEF FreeOn
    <3>10. Placed(bits, live, w)
      BY <1>1, <2>3
    <3>11. QED BY <3>4, <3>9, <3>10 DEF Placed
  <2>7. d = b + 1 /\ b % 2 = 0
    <3>1. d = b + 1 \/ d = b - 1
      BY DEF BuddyOf
    <3>2. b % 2 # 0 => d = b - 1
      BY DEF BuddyOf
    <3> HIDE DEF d, n
    <3>3. d >= n
      BY <2>2, <2>5, <2>6
    <3>4. QED BY <2>1, <2>2, <2>4, <2>5, <3>1, <3>2, <3>3
  <2> HIDE DEF d, n
  <2>8. n % 2 = 1 /\ b = n - 1
    BY <2>1, <2>2, <2>4, <2>5, <2>6, <2>7
  <2>9. QED BY <2>5, <2>8 DEF Leftover
<1>4. ASSUME NEW l \in Levels, NEW b \in Leftover(l) PROVE b \in bits[l]
  <2> DEFINE u == b * Pow2[l]
  <2>1. l \in Nat /\ b \in Nat
    <3>1. LevelSize(l) \in Nat \ {0}
      BY BlocksAre
    <3>2. QED BY <1>1, <3>1 DEF Leftover
  <2>2. u \in Nat /\ At(u, l) = b
    BY <2>1, UnitsAre
  <2> HIDE DEF u
  <2>3. u < CountOfUnitBlock
    BY <2>2, LeftoversAre
  <2>4. Placed(bits, live, u) /\ HeldBy(live, u) = {} /\ ~ (u >= CountOfUnitBlock)
    BY <1>1, <1>2, <2>2, <2>3, LayoutIs
  <2>5. PICK a \in Levels : FreeOn(bits, u) = {a}
    BY <2>4 DEF Placed
  <2>6. At(u, a) \in bits[a]
    BY <2>5 DEF FreeOn
  <2>7. At(u, a) \in Leftover(a)
    BY <1>3, <2>6
  <2>8. a = l
    BY <2>2, <2>7, LeftoversAre
  <2>9. QED BY <2>2, <2>6, <2>8
<1>5. \A l \in Levels : bits[l] = Leftover(l)
  BY <1>3, <1>4
<1>6. QED BY <1>1, <1>5

\* A request is refused only when no block of its size is free of callers; when all is given
\* back the memory is as at the start.
LEMMA ServesHolds == BuddyInv => Serves
<1> SUFFICES ASSUME BuddyInv PROVE Serves
  OBVIOUS
<1>1. BlocksType /\ CountsAgree
  BY DEF BuddyInv
<1>2. ASSUME NEW k \in Levels, NEW b \in 0 .. LevelSize(k) - 1,
             \A m \in live : UnitsOf(m) \cap Units(k, b) = {}
      PROVE  \E l \in Levels : l >= k /\ count[l] # 0
  <2>1. k \in Nat /\ b \in Nat /\ b < At(CountOfUnitBlock, k)
    <3>1. k \in Nat /\ LevelSize(k) = At(CountOfUnitBlock, k) /\ LevelSize(k) \in Nat
      BY BlocksAre
    <3>2. QED BY <3>1
  <2>2. ASSUME NEW u \in Nat, At(u, k) = b PROVE HeldBy(live, u) = {}
    <3>1. ASSUME NEW m \in live, At(u, Level(m)) = Block(m) PROVE FALSE
      <4>1. u \in UnitsOf(m)
        BY <1>1, <3>1, UnitsOfAre DEF BlocksType
      <4>2. u \in Units(k, b)
        BY <2>1, <2>2, UnitsAre
      <4>3. QED BY <1>2, <4>1, <4>2
    <3>2. QED BY <3>1 DEF HeldBy
  <2>3. PICK l \in Levels : k <= l /\ bits[l] # {}
    BY <2>1, <2>2, WholeIsFree
  <2>4. count[l] # 0
    BY <1>1, <2>3, FS_EmptySet DEF CountsAgree
  <2>5. l >= k
    BY <2>1, <2>3, BlocksAre
  <2>6. QED BY <2>4, <2>5
<1>3. live = {} => bits = [l \in Levels |-> Leftover(l)]
  BY EmptiedIsInitial
<1>4. QED BY <1>2, <1>3 DEF Serves

\* The invariant of the allocator: what is free and what callers hold share out the memory,
\* and no block is free in halves.
THEOREM BuddyInvariant == BuddySpec => []BuddyInv
<1>1. BuddyInv /\ [BuddyNext]_buddyVars => BuddyInv'
  <2> SUFFICES ASSUME BuddyInv, [BuddyNext]_buddyVars PROVE BuddyInv'
    OBVIOUS
  <2>1. ASSUME NEW bytes \in Requests, Allocate(bytes) PROVE BuddyInv'
    <3>1. bytes \in Nat
      BY RequestsAssumption
    <3>2. QED BY <2>1, <3>1, AllocateGives
  <2>2. ASSUME NEW m \in live, NEW addr \in {m.addr, m.addr + Unit - 1}, Free(m, addr) PROVE BuddyInv'
    BY <2>2, FreeTakes
  <2>3. CASE UNCHANGED buddyVars
    BY <2>3, BuddyStutters
  <2>4. QED BY <2>1, <2>2, <2>3 DEF BuddyNext
<1>2. QED BY <1>1, BuddyInitially, PTL DEF BuddySpec

\* Whatever callers ask for and give back, in any order: no unit of memory is lost or given
\* out twice, and a block that is nobody's can be had.
THEOREM AllocatorCorrect == BuddySpec => [](Partition /\ Serves)
<1>1. BuddyInv => Partition /\ Serves
  BY PartitionHolds, ServesHolds
<1>2. QED BY <1>1, BuddyInvariant, PTL

-----------------------------------------------------------------------------
(* The blocks of testdynseq. *)

BlockAt(l, b) == [addr |-> BeginAddr + Unit * Pow2[l] * b, size |-> Unit * Pow2[l]]
BlocksFrom(l, a) == {BlockAt(l, b) : b \in a .. LevelSize(l) - 1}
OfLevel(S, l) == \A m \in S : m.size = Unit * Pow2[l]
NumbersOf(S) == {Block(m) : m \in S}

\* Higher levels have longer blocks.
LEMMA PowRises ==
    ASSUME NEW k \in Nat, NEW l \in Nat, k < l
    PROVE  Unit * Pow2[k] < Unit * Pow2[l]
<1> DEFINE a == Pow2[k]
           c == Pow2[l - k]
           b == Pow2[l]
<1>1. l - k \in Nat /\ k + (l - k) = l /\ l - k # 0
  OBVIOUS
<1>2. a \in Nat \ {0} /\ c \in Nat \ {0} /\ b = a * c
  BY <1>1, PowIs, PowAdds
<1>3. c > 1
  <2>1. l - k < c
    BY <1>1, PowGrows
  <2> HIDE DEF c
  <2>2. QED BY <1>1, <1>2, <2>1
<1> HIDE DEF a, b, c
<1>4. a < b
  <2>1. 1 * a + a <= c * a
    BY <1>2, <1>3, Apart2
  <2>2. c * a = b /\ b \in Int
    BY <1>2
  <2>3. QED BY <1>2, <2>1, <2>2
<1>5. a * Unit + Unit <= b * Unit
  BY <1>2, <1>4, UnitAssumption, Apart2
<1>6. a * Unit = Unit * a /\ b * Unit = Unit * b /\ Unit * a \in Int /\ Unit * b \in Int
  BY <1>2, UnitAssumption
<1> DEFINE x == Unit * a
           y == Unit * b
<1>7. x \in Int /\ y \in Int /\ x + Unit <= y
  BY <1>5, <1>6
<1> HIDE DEF x, y
<1>8. x < y
  BY <1>7, UnitAssumption
<1>9. QED BY <1>8 DEF x, y, a, b

\* A block of level l is the smallest that holds what it holds.
LEMMA WholeLevel ==
    ASSUME NEW l \in Nat
    PROVE  Unit * Pow2[l] \in Nat \ {0} /\ LevelFor(Unit * Pow2[l]) = l
<1> DEFINE n == Unit * Pow2[l]
           L == LevelFor(n)
<1>1. Unit \in Nat \ {0} /\ Pow2[l] \in Nat \ {0}
  BY PowIs, UnitAssumption
<1>2. n \in Nat \ {0} /\ n % Unit = 0
  <2> DEFINE p == Pow2[l]
  <2>1. p \in Nat \ {0}
    BY <1>1
  <2> HIDE DEF p
  <2>2. Unit * p \in Nat \ {0} /\ (Unit * p) % Unit = 0
    BY <1>1, <2>1
  <2>3. QED BY <2>2 DEF p
<1>3. Unit * Pow2[l] = n
  OBVIOUS
<1> HIDE DEF n
<1>4. Ceil(n) = n
  BY <1>2, CeilIs
<1>5. L \in Nat /\ n <= Unit * Pow2[L] /\ \A k \in 0 .. L - 1 : Unit * Pow2[k] < n
  BY <1>2, <1>4, LevelForIs
<1> HIDE DEF L
<1>6. ~ (l < L)
  <2>1. SUFFICES ASSUME l < L PROVE FALSE
    OBVIOUS
  <2>2. l \in 0 .. L - 1
    BY <1>5, <2>1
  <2>3. n < n
    BY <1>3, <1>5, <2>2
  <2>4. QED BY <1>2, <2>3
<1>7. ~ (L < l)
  <2>1. SUFFICES ASSUME L < l PROVE FALSE
    OBVIOUS
  <2> DEFINE x == Unit * Pow2[L]
  <2>2. x < n
    BY <1>3, <1>5, <2>1, PowRises
  <2>3. n <= x
    BY <1>5
  <2>4. x \in Int
    <3>1. Pow2[L] \in Int
      BY <1>5, PowIs
    <3>2. QED BY <1>1, <3>1
  <2> HIDE DEF x
  <2>5. QED BY <1>2, <2>2, <2>3, <2>4
<1>8. L = l
  BY <1>5, <1>6, <1>7
<1>9. QED BY <1>2, <1>3, <1>8 DEF L

\* So the blocks testdynseq asks for are of its level.
LEMMA OfLevelIs ==
    ASSUME NEW l \in Levels, NEW S, OfLevel(S, l)
    PROVE  \A m \in S : Level(m) = l
<1>1. l \in Nat
  BY BlocksAre
<1>2. ASSUME NEW m \in S PROVE Level(m) = l
  <2>1. m.size = Unit * Pow2[l]
    BY DEF OfLevel
  <2>2. QED BY <1>1, <2>1, WholeLevel DEF Level
<1>3. QED BY <1>2

\* Those it computes the addresses of are numbered by their offset.
LEMMA BlockAtIs ==
    ASSUME NEW l \in Levels, NEW b \in Nat
    PROVE  /\ Level(BlockAt(l, b)) = l /\ Block(BlockAt(l, b)) = b
           /\ BlockAt(l, b).size = Unit * Pow2[l] /\ BlockAt(l, b).addr = BeginAddr + b * (Unit * Pow2[l])
<1> DEFINE p == Unit * Pow2[l]
           m == BlockAt(l, b)
           q == p * b
<1>1. l \in Nat
  BY BlocksAre
<1>2. p \in Nat \ {0} /\ LevelFor(p) = l
  BY <1>1, WholeLevel
<1>3. m.size = p /\ m.addr = BeginAddr + q
  BY DEF BlockAt
<1> HIDE DEF m
<1>4. Level(m) = l
  BY <1>2, <1>3 DEF Level
<1>5. Block(m) = (m.addr - BeginAddr) \div p
  BY <1>4 DEF Block
<1> HIDE DEF p
<1>6. q \in Nat /\ q = b * p
  BY <1>2
<1> HIDE DEF q
<1>7. m.addr - BeginAddr = q
  <2>1. BeginAddr \in Nat
    BY LayoutIs
  <2>2. QED BY <1>3, <1>6, <2>1
<1>8. q \div p = b
  <2>1. b * p <= q /\ q < b * p + p
    BY <1>2, <1>6
  <2>2. QED BY <1>2, <1>6, <2>1, DivUnique
<1>9. QED BY <1>3, <1>4, <1>5, <1>6, <1>7, <1>8 DEF m, p

\* Whoever holds blocks of one level holds no two of one number, and none past the end.
LEMMA NumbersAre ==
    ASSUME BuddyInv, NEW l \in Levels, NEW S, S \subseteq live, OfLevel(S, l)
    PROVE  /\ NumbersOf(S) \subseteq 0 .. LevelSize(l) - 1
           /\ IsFiniteSet(S) /\ Cardinality(NumbersOf(S)) = Cardinality(S)
<1>1. l \in Nat /\ LevelSize(l) = At(CountOfUnitBlock, l) /\ LevelSize(l) \in Nat
  BY BlocksAre
<1>2. \A m \in S : Level(m) = l
  BY OfLevelIs
<1>3. \A u \in Nat : Placed(bits, live, u)
  BY DEF BuddyInv, AllPlaced
<1>4. \A m \in S : Block(m) \in Nat
  BY DEF BuddyInv, BlocksType, Proper
<1>5. IsFiniteSet(S)
  BY FS_Subset DEF BuddyInv, BlocksType
<1>6. ASSUME NEW m \in S PROVE Block(m) \in 0 .. LevelSize(l) - 1
  <2>1. ASSUME NEW u \in Nat, At(u, l) = Block(m) PROVE u < CountOfUnitBlock
    <3>1. m \in HeldBy(live, u)
      BY <1>2, <2>1 DEF HeldBy
    <3>2. QED BY <1>3, <3>1 DEF Placed
  <2>2. Block(m) < At(CountOfUnitBlock, l)
    BY <1>1, <1>4, <2>1, BlockEnds
  <2>3. QED BY <1>1, <1>4, <2>2
<1>7. ASSUME NEW m \in S, NEW x \in S, Block(m) = Block(x) PROVE m = x
  <2> DEFINE u == Block(m) * Pow2[l]
  <2>1. u \in Nat /\ At(u, l) = Block(m)
    BY <1>1, <1>4, UnitsAre
  <2> HIDE DEF u
  <2>2. m \in HeldBy(live, u) /\ x \in HeldBy(live, u)
    BY <1>2, <1>7, <2>1 DEF HeldBy
  <2>3. Placed(bits, live, u)
    BY <1>3, <2>1
  <2>4. QED BY <2>2, <2>3 DEF Placed
<1>8. Cardinality(NumbersOf(S)) = Cardinality(S)
  <2> DEFINE f == [m \in S |-> Block(m)]
             T == NumbersOf(S)
  <2>1. f \in Bijection(S, T)
    <3>1. f \in [S -> T]
      BY DEF NumbersOf
    <3>2. \A m, x \in S : f[m] = f[x] => m = x
      BY <1>7
    <3>3. \A b \in T : \E m \in S : f[m] = b
      BY DEF NumbersOf
    <3>4. f \in Injection(S, T)
      <4>1. DOMAIN f = S
        OBVIOUS
      <4>2. IsInjective(f)
        BY <3>2, <4>1, Zenon DEF IsInjective
      <4>3. QED BY <3>1, <4>2, Zenon DEF Injection
    <3>5. f \in Surjection(S, T)
      BY <3>1, <3>3, Zenon DEF Surjection
    <3>6. QED BY <3>4, <3>5 DEF Bijection
  <2>2. ExistsBijection(S, T)
    BY <2>1 DEF ExistsBijection
  <2>3. QED BY <1>5, <2>2, FS_Bijection
<1>9. QED BY <1>5, <1>6, <1>8 DEF NumbersOf

\* With as many as the level has they are all its blocks.
LEMMA OwnIsAll ==
    ASSUME BuddyInv, NEW l \in Levels, NEW S, S \subseteq live, OfLevel(S, l), Cardinality(S) = LevelSize(l)
    PROVE  S = BlocksFrom(l, 0)
<1> DEFINE T == 0 .. LevelSize(l) - 1
<1>1. LevelSize(l) \in Nat \ {0}
  BY BlocksAre
<1>2. IsFiniteSet(T) /\ Cardinality(T) = LevelSize(l)
  <2>1. 0 \in Int /\ LevelSize(l) - 1 \in Int
    BY <1>1
  <2>2. IsFiniteSet(T) /\ Cardinality(T) = IF 0 > LevelSize(l) - 1 THEN 0 ELSE (LevelSize(l) - 1) - 0 + 1
    BY <2>1, FS_Interval
  <2>3. QED BY <1>1, <2>2
<1>3. NumbersOf(S) \subseteq T /\ Cardinality(NumbersOf(S)) = LevelSize(l)
  BY NumbersAre
<1>4. NumbersOf(S) = T
  BY <1>2, <1>3, FS_Subset
<1>5. ASSUME NEW m \in S PROVE m = BlockAt(l, Block(m))
  <2>1. Proper(m) /\ m.size = Unit * Pow2[l] /\ Level(m) = l
    BY OfLevelIs DEF BuddyInv, BlocksType, OfLevel
  <2>2. m.addr = BeginAddr + Block(m) * (Unit * Pow2[l]) /\ Block(m) \in Nat
    BY <2>1 DEF Proper
  <2> DEFINE x == BlockAt(l, Block(m))
  <2>3. x.addr = m.addr /\ x.size = m.size
    BY <2>1, <2>2, BlockAtIs
  <2>4. IsRecord(x) /\ IsRecord(m)
    BY <2>1 DEF BlockAt, IsRecord, Proper
  <2> HIDE DEF x
  <2>5. m = x
    BY <2>3, <2>4 DEF IsRecord
  <2>6. QED BY <2>5 DEF x
<1>6. ASSUME NEW m \in S PROVE m \in BlocksFrom(l, 0)
  <2>1. Block(m) \in T
    BY <1>4 DEF NumbersOf
  <2>2. QED BY <1>5, <2>1 DEF BlocksFrom
<1>7. ASSUME NEW b \in T PROVE BlockAt(l, b) \in S
  <2>1. PICK m \in S : Block(m) = b
    BY <1>4 DEF NumbersOf
  <2>2. QED BY <1>5, <2>1
<1>8. QED BY <1>6, <1>7 DEF BlocksFrom

\* With fewer, one of its blocks is nobody's unless somebody else holds memory, and is given out.
LEMMA OneIsLeft ==
    ASSUME BuddyInv, NEW l \in Levels, OfLevel(live, l), Cardinality(live) < LevelSize(l)
    PROVE  ~Refused(Unit * Pow2[l])
<1> DEFINE T == 0 .. LevelSize(l) - 1
           B == NumbersOf(live)
<1>1. LevelSize(l) \in Nat \ {0} /\ l \in Nat
  BY BlocksAre
<1>2. Cardinality(T) = LevelSize(l)
  <2>1. 0 \in Int /\ LevelSize(l) - 1 \in Int
    BY <1>1
  <2>2. Cardinality(T) = IF 0 > LevelSize(l) - 1 THEN 0 ELSE (LevelSize(l) - 1) - 0 + 1
    BY <2>1, FS_Interval
  <2>3. QED BY <1>1, <2>2
<1>3. B \subseteq T /\ Cardinality(B) = Cardinality(live) /\ Cardinality(live) \in Nat
  BY NumbersAre, FS_CardinalityType
<1>4. PICK b \in T : b \notin B
  <2>1. B # T
    BY <1>1, <1>2, <1>3
  <2> HIDE DEF B, T
  <2>2. QED BY <1>3, <2>1
<1>5. ASSUME NEW m \in live PROVE UnitsOf(m) \cap Units(l, b) = {}
  <2>1. ASSUME NEW u \in UnitsOf(m), u \in Units(l, b) PROVE FALSE
    <3>1. b \in Nat
      BY <1>1
    <3>2. u \in Nat /\ At(u, l) = b
      BY <1>1, <2>1, <3>1, UnitsAre
    <3>3. Proper(m) /\ Level(m) = l
      BY OfLevelIs DEF BuddyInv, BlocksType
    <3>4. At(u, l) = Block(m)
      BY <2>1, <3>2, <3>3, UnitsOfAre
    <3>5. QED BY <1>4, <3>2, <3>4 DEF NumbersOf
  <2>2. QED BY <2>1
<1>6. Serves
  BY ServesHolds
<1>7. PICK a \in Levels : a >= l /\ count[a] # 0
  BY <1>5, <1>6 DEF Serves
<1>8. Unit * Pow2[l] \in Nat \ {0} /\ LevelFor(Unit * Pow2[l]) = l
  BY <1>1, WholeLevel
<1>9. a \in Sources(Unit * Pow2[l])
  BY <1>7, <1>8 DEF Sources
<1>10. QED BY <1>8, <1>9 DEF Refused

-----------------------------------------------------------------------------
(* What the tests hold. *)

Stages == {"off", "allocate", "fill", "compare", "free", "exited", "gone", "failed", "completed"}

\* A tester has two places for blocks: the one it works on, and its stack.
Slots == Testers \X {"mem", "stack"}
MemSlot(t) == <<t, "mem">>
StackSlot(t) == <<t, "stack">>

MemAt(a, m) == IF a \in {"fill", "compare", "free"} THEN {m} ELSE {}
StackAt(a, m) == IF a \in {"allocate", "fill", "compare", "free", "exited"} THEN {m} \ {NoMem} ELSE {}

HasOf(st, me, sk) ==
    [p \in Slots |-> IF p[2] = "mem" THEN MemAt(st[p[1]], me[p[1]]) ELSE StackAt(st[p[1]], sk[p[1]])]

\* Of the blocks S that are held, the shell has o and the testers others, no two the same.
Shared(S, o, H) ==
    /\ o \subseteq S
    /\ \A p \in Slots : H[p] \subseteq S \ o /\ \A q \in Slots : q # p => H[p] \cap H[q] = {}

TestsType == stage \in [Writers -> Stages] /\ DOMAIN mem = Writers /\ DOMAIN stack = Testers

\* If other callers run, the tests hold nothing.
Untested == ~tested => own = {} /\ \A w \in Writers : stage[w] = "off"

\* testdynseq has as many blocks of its level as it has gone through, and then frees just these.
SeqInv ==
    /\ level \in Levels /\ block \in Nat
    /\ stage[Shell] \in {"allocate", "fill", "compare", "free"} => block < LevelSize(level)
    /\ stage[Shell] \in {"allocate", "fill", "compare"} => OfLevel(own, level)
    /\ stage[Shell] = "allocate" => Cardinality(own) = block
    /\ stage[Shell] \in {"fill", "compare"} => Cardinality(own) = block + 1 /\ mem[Shell] \in own
    /\ stage[Shell] = "free" => own = BlocksFrom(level, block)

Unspoiled == \A w \in Writers : stage[w] = "compare" => w \notin spoiled

TestsInv == BuddyInv /\ TestsType /\ Untested /\ Shared(live, own, HasOf(stage, mem, stack)) /\ SeqInv /\ Unspoiled

\* What the places of a tester hold
LEMMA HasIs ==
    ASSUME NEW st, NEW me, NEW sk, NEW t \in Testers
    PROVE  /\ MemSlot(t) \in Slots /\ StackSlot(t) \in Slots
           /\ HasOf(st, me, sk)[MemSlot(t)] = MemAt(st[t], me[t])
           /\ HasOf(st, me, sk)[StackSlot(t)] = StackAt(st[t], sk[t])
BY DEF HasOf, Slots, MemSlot, StackSlot

\* A step of one tester changes nothing in the places of the others.
LEMMA HasElsewhere ==
    ASSUME NEW st, NEW me, NEW sk, NEW st2, NEW me2, NEW sk2, NEW t,
           \A v \in Testers : v # t => st2[v] = st[v] /\ me2[v] = me[v] /\ sk2[v] = sk[v]
    PROVE  \A q \in Slots : q # MemSlot(t) /\ q # StackSlot(t) => HasOf(st2, me2, sk2)[q] = HasOf(st, me, sk)[q]
<1>1. ASSUME NEW q \in Slots, q # MemSlot(t), q # StackSlot(t)
      PROVE  HasOf(st2, me2, sk2)[q] = HasOf(st, me, sk)[q]
  <2>1. q[1] \in Testers /\ (q = MemSlot(q[1]) \/ q = StackSlot(q[1]))
    BY DEF Slots, MemSlot, StackSlot
  <2>2. q[1] # t
    BY <1>1, <2>1
  <2>3. st2[q[1]] = st[q[1]] /\ me2[q[1]] = me[q[1]] /\ sk2[q[1]] = sk[q[1]]
    BY <2>1, <2>2
  <2>4. QED BY <2>3 DEF HasOf
<1>2. QED BY <1>1

\* A step of the shell changes nothing in those of the testers.
LEMMA HasSame ==
    ASSUME NEW st, NEW me, NEW sk, NEW st2, NEW me2, NEW sk2,
           \A v \in Testers : st2[v] = st[v] /\ me2[v] = me[v] /\ sk2[v] = sk[v]
    PROVE  HasOf(st2, me2, sk2) = HasOf(st, me, sk)
<1>1. \A p \in Slots : p[1] \in Testers
  BY DEF Slots
<1>2. QED BY <1>1 DEF HasOf

\* A new block goes to one place.
LEMMA SharedGive ==
    ASSUME NEW S, NEW o, NEW H, Shared(S, o, H), NEW m, m \notin S, NEW p \in Slots, NEW H2,
           H2[p] \subseteq H[p] \cup {m}, \A q \in Slots : q # p => H2[q] \subseteq H[q]
    PROVE  Shared(S \cup {m}, o, H2)
BY DEF Shared

\* A new block goes to the shell.
LEMMA SharedGiveShell ==
    ASSUME NEW S, NEW o, NEW H, Shared(S, o, H), NEW m, m \notin S
    PROVE  Shared(S \cup {m}, o \cup {m}, H)
BY DEF Shared

\* A block is given back from a place.
LEMMA SharedTake ==
    ASSUME NEW S, NEW o, NEW H, Shared(S, o, H), NEW p \in Slots, NEW m \in H[p], NEW H2,
           m \notin H2[p], \A q \in Slots : H2[q] \subseteq H[q]
    PROVE  m \in S /\ Shared(S \ {m}, o, H2)
BY DEF Shared

\* A block is given back by the shell.
LEMMA SharedTakeShell ==
    ASSUME NEW S, NEW o, NEW H, Shared(S, o, H), NEW m \in o
    PROVE  m \in S /\ Shared(S \ {m}, o \ {m}, H)
BY DEF Shared

\* Blocks are forgotten.
LEMMA SharedLess ==
    ASSUME NEW S, NEW o, NEW H, Shared(S, o, H), NEW o2, o2 \subseteq o, NEW H2, \A q \in Slots : H2[q] \subseteq H[q]
    PROVE  Shared(S, o2, H2)
BY DEF Shared

\* Who goes to another stage
LEMMA GoesIs ==
    ASSUME TestsType, NEW w \in Writers, NEW to \in Stages, Goes(w, to)
    PROVE  stage' \in [Writers -> Stages] /\ stage'[w] = to /\ \A v \in Writers : v # w => stage'[v] = stage[v]
BY DEF Goes, TestsType

\* A step of a tester changes nothing for the shell.
LEMMA SeqKeeps ==
    ASSUME SeqInv, UNCHANGED <<level, block, own>>, stage'[Shell] = stage[Shell], mem'[Shell] = mem[Shell]
    PROVE  SeqInv'
BY DEF SeqInv

\* The block that a caller is given
LEMMA GivenIs ==
    ASSUME BuddyInv, NEW bytes \in Nat, Allocate(bytes)
    PROVE  BuddyInv' /\ Given \notin live /\ live' = live \cup {Given} /\ Given.size = bytes
<1>1. PICK m : m \notin live /\ live' = live \cup {m} /\ m.size = bytes
  BY AllocateGives
<1>2. live' \ live = {m}
  BY <1>1
<1>3. Given = m
  BY <1>2 DEF Given
<1>4. QED BY <1>1, <1>3, AllocateGives

\* The invariant holds at the start.
LEMMA TestsInitially == TestsInit => TestsInv
<1> SUFFICES ASSUME TestsInit PROVE TestsInv
  OBVIOUS
<1>1. BuddyInv /\ live = {}
  BY BuddyInitially DEF TestsInit, BuddyInit
<1>2. \A w \in Writers : stage[w] = "off"
  BY DEF TestsInit
<1>3. TestsType
  BY DEF TestsInit, TestsType, Stages
<1>4. own = {} /\ level = 0 /\ block = 0
  BY DEF TestsInit
<1>5. Shared(live, own, HasOf(stage, mem, stack))
  <2>1. \A p \in Slots : p[1] \in Testers
    BY DEF Slots
  <2>2. \A p \in Slots : HasOf(stage, mem, stack)[p] = {}
    BY <1>2, <2>1 DEF HasOf, MemAt, StackAt, Writers
  <2>3. QED BY <1>4, <2>2 DEF Shared
<1>6. SeqInv
  <2>1. 0 \in Levels
    BY BlocksAre
  <2>2. stage[Shell] = "off"
    BY <1>2 DEF Writers
  <2>3. QED BY <1>4, <2>1, <2>2 DEF SeqInv
<1>7. Unspoiled
  BY <1>2 DEF Unspoiled
<1>8. Untested
  BY <1>2, <1>4 DEF Untested
<1>9. QED BY <1>1, <1>3, <1>5, <1>6, <1>7, <1>8 DEF TestsInv

-----------------------------------------------------------------------------
(* The steps of the tests. *)

\* Writing to one's block spoils nobody's: no two hold the same unit.
LEMMA FillKeeps ==
    ASSUME TestsInv, NEW w \in Writers, Fill(w)
    PROVE  TestsInv'
<1>1. BuddyInv /\ TestsType /\ Untested /\ Shared(live, own, HasOf(stage, mem, stack)) /\ SeqInv /\ Unspoiled
  BY DEF TestsInv
<1>2. /\ stage[w] = "fill" /\ Goes(w, "compare")
      /\ spoiled' = (spoiled \ {w}) \cup
                        {v \in Writers \ {w} : stage[v] = "compare" /\ UnitsOf(mem[v]) \cap UnitsOf(mem[w]) # {}}
      /\ UNCHANGED <<buddyVars, tested, mem, round, stack, level, block, own>>
  BY DEF Fill
<1>3. stage' \in [Writers -> Stages] /\ stage'[w] = "compare" /\ \A v \in Writers : v # w => stage'[v] = stage[v]
  BY <1>1, <1>2, GoesIs DEF Stages
<1>4. live' = live /\ mem' = mem /\ stack' = stack /\ own' = own
  BY <1>2 DEF buddyVars
<1>5. BuddyInv'
  BY <1>1, <1>2, BuddyStutters
<1>6. TestsType'
  BY <1>1, <1>3, <1>4 DEF TestsType
<1>7. Untested'
  BY <1>1, <1>2 DEF Untested
<1>8. HasOf(stage', mem', stack') = HasOf(stage, mem, stack)
  <2>1. \A t \in Testers : /\ MemAt(stage'[t], mem[t]) = MemAt(stage[t], mem[t])
                           /\ StackAt(stage'[t], stack[t]) = StackAt(stage[t], stack[t])
    BY <1>2, <1>3 DEF MemAt, StackAt, Writers
  <2>2. \A p \in Slots : p[1] \in Testers
    BY DEF Slots
  <2>3. QED BY <1>4, <2>1, <2>2 DEF HasOf
<1>9. Shared(live, own, HasOf(stage, mem, stack))'
  BY <1>1, <1>4, <1>8
<1>10. SeqInv'
  <2>1. CASE w = Shell
    BY <1>1, <1>2, <1>3, <2>1 DEF SeqInv
  <2>2. CASE w # Shell
    <3>1. stage'[Shell] = stage[Shell]
      BY <1>3, <2>2 DEF Writers
    <3>2. QED BY <1>1, <1>2, <3>1, SeqKeeps
  <2>3. QED BY <2>1, <2>2
<1>11. ASSUME NEW v \in Writers, stage[v] \in {"fill", "compare"}
       PROVE  IF v = Shell THEN mem[v] \in own
              ELSE MemSlot(v) \in Slots /\ mem[v] \in HasOf(stage, mem, stack)[MemSlot(v)]
  <2>1. CASE v = Shell
    BY <1>1, <1>11, <2>1 DEF SeqInv
  <2>2. CASE v # Shell
    <3>1. v \in Testers
      BY <2>2 DEF Writers
    <3>2. mem[v] \in MemAt(stage[v], mem[v])
      BY <1>11 DEF MemAt
    <3>3. /\ MemSlot(v) \in Slots
          /\ HasOf(stage, mem, stack)[MemSlot(v)] = MemAt(stage[v], mem[v])
      BY <3>1, HasIs
    <3>4. QED BY <2>2, <3>2, <3>3
  <2>3. QED BY <2>1, <2>2
<1>12. ASSUME NEW v \in Writers \ {w}, stage[v] = "compare"
       PROVE  mem[v] \in live /\ mem[w] \in live /\ mem[v] # mem[w]
  <2> DEFINE H == HasOf(stage, mem, stack)
  <2>1. IF v = Shell THEN mem[v] \in own ELSE MemSlot(v) \in Slots /\ mem[v] \in H[MemSlot(v)]
    BY <1>11, <1>12
  <2>2. IF w = Shell THEN mem[w] \in own ELSE MemSlot(w) \in Slots /\ mem[w] \in H[MemSlot(w)]
    BY <1>2, <1>11
  <2>3. MemSlot(v) # MemSlot(w)
    BY DEF MemSlot
  <2> HIDE DEF H
  <2>4. QED BY <1>1, <2>1, <2>2, <2>3 DEF Shared, H
<1>13. ASSUME NEW v \in Writers \ {w}, stage[v] = "compare"
       PROVE  UnitsOf(mem[v]) \cap UnitsOf(mem[w]) = {}
  <2> DEFINE x == mem[v]
             y == mem[w]
  <2>1. x \in live /\ y \in live /\ x # y
    BY <1>12, <1>13
  <2> HIDE DEF x, y
  <2>2. Proper(x) /\ Proper(y) /\ \A u \in Nat : Placed(bits, live, u)
    BY <1>1, <2>1 DEF BuddyInv, BlocksType, AllPlaced
  <2>3. ASSUME NEW u \in UnitsOf(x), u \in UnitsOf(y) PROVE FALSE
    <3>1. UnitsOf(x) \subseteq Nat
      <4>1. UnitsOf(x) = Units(Level(x), Block(x))
        BY DEF UnitsOf, Level, Block
      <4>2. Level(x) \in Nat /\ Block(x) \in Nat
        BY <2>2, BlocksAre DEF Proper
      <4>3. QED BY <4>1, <4>2, UnitsAre
    <3>2. u \in Nat
      BY <3>1
    <3>3. x \in HeldBy(live, u) /\ y \in HeldBy(live, u)
      BY <2>1, <2>2, <2>3, <3>2, UnitsOfAre DEF HeldBy
    <3>4. Placed(bits, live, u)
      BY <2>2, <3>2
    <3>5. QED BY <2>1, <3>3, <3>4 DEF Placed
  <2>4. UnitsOf(x) \cap UnitsOf(y) = {}
    BY <2>3
  <2>5. QED BY <2>4 DEF x, y
<1>14. Unspoiled'
  <2>1. spoiled' = spoiled \ {w}
    BY <1>2, <1>13
  <2>2. QED BY <1>1, <1>3, <2>1 DEF Unspoiled
<1>15. QED BY <1>5, <1>6, <1>7, <1>9, <1>10, <1>14 DEF TestsInv

\* Starting testdynseq forgets what a failed run still has.
LEMMA StartSeqKeeps ==
    ASSUME TestsInv, tested, StartSeq
    PROVE  TestsInv'
<1>1. BuddyInv /\ TestsType /\ Untested /\ Shared(live, own, HasOf(stage, mem, stack)) /\ SeqInv /\ Unspoiled
  BY DEF TestsInv
<1>2. /\ Goes(Shell, "allocate") /\ level' = 0 /\ block' = 0 /\ own' = {}
      /\ UNCHANGED <<buddyVars, tested, mem, round, stack, spoiled>>
  BY DEF StartSeq
<1>3. /\ stage' \in [Writers -> Stages] /\ stage'[Shell] = "allocate"
      /\ \A v \in Writers : v # Shell => stage'[v] = stage[v]
  BY <1>1, <1>2, GoesIs DEF Stages, Writers
<1>4. live' = live /\ mem' = mem /\ stack' = stack
  BY <1>2 DEF buddyVars
<1>5. BuddyInv'
  BY <1>1, <1>2, BuddyStutters
<1>6. TestsType'
  BY <1>1, <1>3, <1>4 DEF TestsType
<1>7. Untested'
  BY <1>2 DEF Untested
<1>8. HasOf(stage', mem', stack') = HasOf(stage, mem, stack)
  <2>1. \A t \in Testers : stage'[t] = stage[t]
    BY <1>3, TestersAssumption DEF Writers
  <2>2. QED BY <1>4, <2>1, HasSame
<1>9. Shared(live, {}, HasOf(stage, mem, stack))
  BY <1>1, SharedLess
<1>10. Shared(live, own, HasOf(stage, mem, stack))'
  BY <1>2, <1>4, <1>8, <1>9
<1>11. SeqInv'
  <2>1. 0 \in Levels /\ 0 < LevelSize(0)
    BY BlocksAre
  <2>2. OfLevel({}, 0) /\ Cardinality({}) = 0
    BY FS_EmptySet DEF OfLevel
  <2>3. QED BY <1>2, <1>3, <2>1, <2>2 DEF SeqInv
<1>12. Unspoiled'
  BY <1>1, <1>2, <1>3 DEF Unspoiled
<1>13. QED BY <1>5, <1>6, <1>7, <1>10, <1>11, <1>12 DEF TestsInv

\* testdynseq has one block more than before, or fails.
LEMMA SeqAllocateKeeps ==
    ASSUME TestsInv, tested, SeqAllocate
    PROVE  TestsInv'
<1>1. BuddyInv /\ TestsType /\ Untested /\ Shared(live, own, HasOf(stage, mem, stack)) /\ SeqInv /\ Unspoiled
  BY DEF TestsInv
<1>2. stage[Shell] = "allocate" /\ UNCHANGED <<tested, round, stack, level, block, spoiled>>
  BY DEF SeqAllocate
<1>3. Untested'
  BY <1>2 DEF Untested
<1>4. CASE Refused(SeqSize) /\ Goes(Shell, "failed") /\ UNCHANGED <<buddyVars, mem, own>>
  <2>1. /\ stage' \in [Writers -> Stages] /\ stage'[Shell] = "failed"
        /\ \A v \in Writers : v # Shell => stage'[v] = stage[v]
    BY <1>1, <1>4, GoesIs DEF Stages, Writers
  <2>2. live' = live /\ mem' = mem /\ own' = own
    BY <1>4 DEF buddyVars
  <2>3. BuddyInv'
    BY <1>1, <1>4, BuddyStutters
  <2>4. TestsType'
    BY <1>1, <1>2, <2>1, <2>2 DEF TestsType
  <2>5. HasOf(stage', mem', stack') = HasOf(stage, mem, stack)
    <3>1. \A t \in Testers : stage'[t] = stage[t]
      BY <2>1, TestersAssumption DEF Writers
    <3>2. QED BY <1>2, <2>2, <3>1, HasSame
  <2>6. Shared(live, own, HasOf(stage, mem, stack))'
    BY <1>1, <2>2, <2>5
  <2>7. SeqInv'
    BY <1>1, <1>2, <2>1, <2>2 DEF SeqInv
  <2>8. Unspoiled'
    BY <1>1, <1>2, <2>1 DEF Unspoiled
  <2>9. QED BY <1>3, <2>3, <2>4, <2>6, <2>7, <2>8 DEF TestsInv
<1>5. CASE Allocate(SeqSize) /\ Goes(Shell, "fill") /\ mem' = [mem EXCEPT ![Shell] = Given] /\ own' = own \cup {Given}
  <2>1. /\ stage' \in [Writers -> Stages] /\ stage'[Shell] = "fill"
        /\ \A v \in Writers : v # Shell => stage'[v] = stage[v]
    BY <1>1, <1>5, GoesIs DEF Stages, Writers
  <2>2. level \in Nat /\ level \in Levels /\ block \in Nat /\ block < LevelSize(level)
    BY <1>1, <1>2, BlocksAre DEF SeqInv
  <2>3. SeqSize = Unit * Pow2[level] /\ SeqSize \in Nat
    BY <2>2, WholeLevel DEF SeqSize
  <2> DEFINE m == Given
  <2>4. BuddyInv' /\ m \notin live /\ live' = live \cup {m} /\ m.size = SeqSize
    BY <1>1, <1>5, <2>3, GivenIs
  <2> HIDE DEF m
  <2>5. /\ DOMAIN mem' = Writers /\ mem'[Shell] = m /\ own' = own \cup {m}
        /\ \A v \in Writers : v # Shell => mem'[v] = mem[v]
    BY <1>1, <1>5 DEF TestsType, Writers, m
  <2>6. TestsType'
    BY <1>1, <1>2, <2>1, <2>5 DEF TestsType
  <2>7. HasOf(stage', mem', stack') = HasOf(stage, mem, stack)
    <3>1. \A t \in Testers : stage'[t] = stage[t] /\ mem'[t] = mem[t]
      BY <2>1, <2>5, TestersAssumption DEF Writers
    <3>2. QED BY <1>2, <3>1, HasSame
  <2>8. Shared(live \cup {m}, own \cup {m}, HasOf(stage, mem, stack))
    BY <1>1, <2>4, SharedGiveShell
  <2>9. Shared(live, own, HasOf(stage, mem, stack))'
    BY <2>4, <2>5, <2>7, <2>8
  <2>10. SeqInv'
    <3>1. OfLevel(own, level) /\ Cardinality(own) = block
      BY <1>1, <1>2 DEF SeqInv
    <3>2. OfLevel(own', level)
      BY <2>3, <2>4, <2>5, <3>1 DEF OfLevel
    <3>3. IsFiniteSet(own) /\ m \notin own
      BY <1>1, <2>4, FS_Subset DEF Shared, BuddyInv, BlocksType
    <3>4. Cardinality(own') = block + 1
      BY <2>5, <3>1, <3>3, FS_AddElement
    <3>5. QED BY <1>2, <2>1, <2>2, <2>5, <3>2, <3>4 DEF SeqInv
  <2>11. Unspoiled'
    BY <1>1, <1>2, <2>1 DEF Unspoiled
  <2>12. QED BY <1>3, <2>4, <2>6, <2>9, <2>10, <2>11 DEF TestsInv
<1>6. QED BY <1>4, <1>5 DEF SeqAllocate

\* When testdynseq has gone through its level it has all the level's blocks.
LEMMA SeqCompareKeeps ==
    ASSUME TestsInv, tested, SeqCompare
    PROVE  TestsInv'
<1>1. BuddyInv /\ TestsType /\ Untested /\ Shared(live, own, HasOf(stage, mem, stack)) /\ SeqInv /\ Unspoiled
  BY DEF TestsInv
<1>2. /\ stage[Shell] = "compare" /\ mem' = [mem EXCEPT ![Shell] = NoMem]
      /\ UNCHANGED <<buddyVars, tested, round, stack, level, own, spoiled>>
  BY DEF SeqCompare
<1>3. Shell \notin spoiled
  BY <1>1, <1>2 DEF Unspoiled, Writers
<1>4. /\ live' = live /\ stack' = stack /\ own' = own /\ DOMAIN mem' = Writers
      /\ \A v \in Writers : v # Shell => mem'[v] = mem[v]
  BY <1>1, <1>2 DEF buddyVars, TestsType, Writers
<1>5. PICK to \in {"allocate", "free"} : Goes(Shell, to)
  BY <1>3 DEF SeqCompare
<1>6. /\ stage' \in [Writers -> Stages] /\ stage'[Shell] = to
      /\ \A v \in Writers : v # Shell => stage'[v] = stage[v]
  BY <1>1, <1>5, GoesIs DEF Stages, Writers
<1>7. BuddyInv'
  BY <1>1, <1>2, BuddyStutters
<1>8. TestsType'
  BY <1>1, <1>4, <1>6 DEF TestsType
<1>9. Untested'
  BY <1>2 DEF Untested
<1>10. HasOf(stage', mem', stack') = HasOf(stage, mem, stack)
  <2>1. \A t \in Testers : stage'[t] = stage[t] /\ mem'[t] = mem[t]
    BY <1>4, <1>6, TestersAssumption DEF Writers
  <2>2. QED BY <1>4, <2>1, HasSame
<1>11. Shared(live, own, HasOf(stage, mem, stack))'
  BY <1>1, <1>4, <1>10
<1>12. /\ level \in Levels /\ block \in Nat /\ block < LevelSize(level) /\ OfLevel(own, level)
       /\ Cardinality(own) = block + 1
  BY <1>1, <1>2 DEF SeqInv
<1>13. LevelSize(level) \in Nat \ {0}
  BY <1>12, BlocksAre
<1>14. SeqInv'
  <2>1. CASE block + 1 < LevelSize(level)
    <3>1. Goes(Shell, "allocate") /\ block' = block + 1
      BY <1>3, <2>1 DEF SeqCompare
    <3>2. stage'[Shell] = "allocate"
      BY <1>1, <3>1, GoesIs DEF Stages, Writers
    <3>3. QED BY <1>2, <1>12, <2>1, <3>1, <3>2 DEF SeqInv
  <2>2. CASE ~ (block + 1 < LevelSize(level))
    <3>1. Goes(Shell, "free") /\ block' = 0
      BY <1>3, <2>2 DEF SeqCompare
    <3>2. stage'[Shell] = "free"
      BY <1>1, <3>1, GoesIs DEF Stages, Writers
    <3>3. Cardinality(own) = LevelSize(level)
      BY <1>12, <1>13, <2>2
    <3>4. own \subseteq live
      BY <1>1 DEF Shared
    <3>5. own = BlocksFrom(level, 0)
      BY <1>1, <1>12, <3>3, <3>4, OwnIsAll
    <3>6. QED BY <1>2, <1>12, <1>13, <3>1, <3>2, <3>5 DEF SeqInv
  <2>3. QED BY <2>1, <2>2
<1>15. Unspoiled'
  BY <1>1, <1>2, <1>5, <1>6 DEF Unspoiled
<1>16. QED BY <1>7, <1>8, <1>9, <1>11, <1>14, <1>15 DEF TestsInv

\* testdynseq frees its own blocks, and has none when it goes on to the next level.
LEMMA SeqFreeKeeps ==
    ASSUME TestsInv, tested, SeqFree
    PROVE  TestsInv'
<1>1. BuddyInv /\ TestsType /\ Untested /\ Shared(live, own, HasOf(stage, mem, stack)) /\ SeqInv /\ Unspoiled
  BY DEF TestsInv
<1> DEFINE m == SeqBlock(block)
<1>2. /\ stage[Shell] = "free" /\ Free(m, m.addr) /\ own' = own \ {m}
      /\ UNCHANGED <<tested, mem, round, stack, spoiled>>
  BY DEF SeqFree
<1>3. level \in Levels /\ block \in Nat /\ block < LevelSize(level) /\ own = BlocksFrom(level, block)
  BY <1>1, <1>2 DEF SeqInv
<1>4. LevelSize(level) \in Nat \ {0}
  BY <1>3, BlocksAre
<1>5. m = BlockAt(level, block)
  BY DEF SeqBlock, SeqSize, BlockAt
<1> HIDE DEF m
<1>6. m \in own
  BY <1>3, <1>4, <1>5 DEF BlocksFrom
<1>7. m \in live /\ Shared(live \ {m}, own \ {m}, HasOf(stage, mem, stack))
  BY <1>1, <1>6, SharedTakeShell
<1>8. BuddyInv' /\ live' = live \ {m}
  BY <1>1, <1>2, <1>7, FreeTakes
<1>9. own' = BlocksFrom(level, block + 1)
  <2>1. ASSUME NEW b \in block + 1 .. LevelSize(level) - 1 PROVE BlockAt(level, b) # m
    <3>1. b \in Nat /\ b # block
      BY <1>3, <1>4
    <3>2. Block(BlockAt(level, b)) = b /\ Block(m) = block
      BY <1>3, <1>5, <3>1, BlockAtIs
    <3>3. QED BY <3>1, <3>2
  <2>2. block .. LevelSize(level) - 1 = {block} \cup (block + 1 .. LevelSize(level) - 1)
    BY <1>3, <1>4
  <2>3. BlocksFrom(level, block) = {m} \cup BlocksFrom(level, block + 1)
    BY <1>5, <2>2 DEF BlocksFrom
  <2>4. m \notin BlocksFrom(level, block + 1)
    BY <2>1 DEF BlocksFrom
  <2>5. QED BY <1>2, <1>3, <2>3, <2>4
<1>10. \/ block + 1 < LevelSize(level) /\ block' = block + 1 /\ UNCHANGED <<stage, level>>
       \/ ~ (block + 1 < LevelSize(level)) /\ level + 1 < BitmapLevel
            /\ Goes(Shell, "allocate") /\ level' = level + 1 /\ block' = 0
       \/ Goes(Shell, "completed") /\ UNCHANGED <<level, block>>
  BY DEF SeqFree
<1>11. /\ stage' \in [Writers -> Stages] /\ stage'[Shell] \in {"free", "allocate", "completed"}
       /\ \A v \in Writers : v # Shell => stage'[v] = stage[v]
  <2>1. CASE UNCHANGED stage
    BY <1>1, <1>2, <2>1 DEF TestsType
  <2>2. CASE Goes(Shell, "allocate")
    BY <1>1, <2>2, GoesIs DEF Stages, Writers
  <2>3. CASE Goes(Shell, "completed")
    BY <1>1, <2>3, GoesIs DEF Stages, Writers
  <2>4. QED BY <1>10, <2>1, <2>2, <2>3
<1>12. TestsType'
  BY <1>1, <1>2, <1>11 DEF TestsType
<1>13. Untested'
  BY <1>2 DEF Untested
<1>14. HasOf(stage', mem', stack') = HasOf(stage, mem, stack)
  <2>1. \A t \in Testers : stage'[t] = stage[t]
    BY <1>11, TestersAssumption DEF Writers
  <2>2. QED BY <1>2, <2>1, HasSame
<1>15. Shared(live, own, HasOf(stage, mem, stack))'
  BY <1>2, <1>7, <1>8, <1>14
<1>16. SeqInv'
  <2>1. CASE block + 1 < LevelSize(level) /\ block' = block + 1 /\ UNCHANGED <<stage, level>>
    BY <1>2, <1>3, <1>9, <2>1 DEF SeqInv
  <2>2. CASE /\ ~ (block + 1 < LevelSize(level)) /\ level + 1 < BitmapLevel
             /\ Goes(Shell, "allocate") /\ level' = level + 1 /\ block' = 0
    <3>1. stage'[Shell] = "allocate"
      BY <1>1, <2>2, GoesIs DEF Stages, Writers
    <3>2. level' \in Levels
      BY <1>3, <2>2, BlocksAre
    <3>3. 0 < LevelSize(level')
      BY <3>2, BlocksAre
    <3>4. own' = {}
      <4>1. block + 1 .. LevelSize(level) - 1 = {}
        BY <1>3, <1>4, <2>2
      <4>2. QED BY <1>9, <4>1 DEF BlocksFrom
    <3>5. OfLevel(own', level') /\ Cardinality(own') = 0
      BY <3>4, FS_EmptySet DEF OfLevel
    <3>6. QED BY <2>2, <3>1, <3>2, <3>3, <3>5 DEF SeqInv
  <2>3. CASE Goes(Shell, "completed") /\ UNCHANGED <<level, block>>
    <3>1. stage'[Shell] = "completed"
      BY <1>1, <2>3, GoesIs DEF Stages, Writers
    <3>2. QED BY <1>3, <2>3, <3>1 DEF SeqInv
  <2>4. QED BY <1>10, <2>1, <2>2, <2>3
<1>17. Unspoiled'
  BY <1>1, <1>2, <1>11 DEF Unspoiled
<1>18. QED BY <1>8, <1>12, <1>13, <1>15, <1>16, <1>17 DEF TestsInv

\* A tester gets a stack, or goes without.
LEMMA StartTesterKeeps ==
    ASSUME TestsInv, tested, NEW t \in Testers, StartTester(t)
    PROVE  TestsInv'
<1>1. BuddyInv /\ TestsType /\ Untested /\ Shared(live, own, HasOf(stage, mem, stack)) /\ SeqInv /\ Unspoiled
  BY DEF TestsInv
<1>2. /\ stage[t] = "off" /\ Goes(t, "allocate")
      /\ \/ Allocate(Unit) /\ stack' = [stack EXCEPT ![t] = Given]
         \/ UNCHANGED buddyVars /\ stack' = [stack EXCEPT ![t] = NoMem]
      /\ UNCHANGED <<tested, mem, round, level, block, own, spoiled>>
  BY DEF StartTester
<1>3. t \in Writers /\ t # Shell /\ Shell \in Writers
  BY TestersAssumption DEF Writers
<1>4. /\ stage' \in [Writers -> Stages] /\ stage'[t] = "allocate"
      /\ \A v \in Writers : v # t => stage'[v] = stage[v]
  BY <1>1, <1>2, <1>3, GoesIs DEF Stages
<1> DEFINE m == stack'[t]
<1>5. BuddyInv' /\ ((m \notin live /\ live' = live \cup {m}) \/ (m = NoMem /\ live' = live))
  <2>1. CASE Allocate(Unit) /\ stack' = [stack EXCEPT ![t] = Given]
    <3>1. BuddyInv' /\ Given \notin live /\ live' = live \cup {Given}
      BY <1>1, <2>1, UnitAssumption, GivenIs
    <3>2. m = Given
      BY <1>1, <2>1 DEF TestsType
    <3>3. QED BY <3>1, <3>2
  <2>2. CASE UNCHANGED buddyVars /\ stack' = [stack EXCEPT ![t] = NoMem]
    <3>1. BuddyInv' /\ live' = live
      BY <1>1, <2>2, BuddyStutters DEF buddyVars
    <3>2. m = NoMem
      BY <1>1, <2>2 DEF TestsType
    <3>3. QED BY <3>1, <3>2
  <2>3. QED BY <1>2, <2>1, <2>2
<1>6. DOMAIN stack' = Testers /\ \A v \in Testers : v # t => stack'[v] = stack[v]
  BY <1>1, <1>2 DEF TestsType
<1> DEFINE H == HasOf(stage, mem, stack)
           G == HasOf(stage', mem', stack')
<1>7. \A q \in Slots : q # MemSlot(t) /\ q # StackSlot(t) => G[q] = H[q]
  <2>1. \A v \in Testers : v # t => stage'[v] = stage[v] /\ mem'[v] = mem[v] /\ stack'[v] = stack[v]
    BY <1>2, <1>4, <1>6 DEF Writers
  <2>2. QED BY <2>1, HasElsewhere
<1>8. G[MemSlot(t)] = {} /\ G[StackSlot(t)] \subseteq {m} \ {NoMem} /\ StackSlot(t) \in Slots
  <2>1. MemAt(stage'[t], mem'[t]) = {} /\ StackAt(stage'[t], stack'[t]) = {m} \ {NoMem}
    BY <1>4 DEF MemAt, StackAt
  <2>2. QED BY <2>1, HasIs
<1> HIDE DEF m, H, G
<1>9. Shared(live, own, H) /\ G[StackSlot(t)] \subseteq H[StackSlot(t)] \cup {m}
      /\ \A q \in Slots : q # StackSlot(t) => G[q] \subseteq H[q]
  BY <1>1, <1>7, <1>8 DEF H
<1>10. Shared(live', own, G)
  <2>1. CASE m \notin live /\ live' = live \cup {m}
    <3>1. Shared(live \cup {m}, own, G)
      BY <1>8, <1>9, <2>1, SharedGive
    <3>2. QED BY <2>1, <3>1
  <2>2. CASE m = NoMem /\ live' = live
    <3>1. \A q \in Slots : G[q] \subseteq H[q]
      BY <1>8, <1>9, <2>2
    <3>2. Shared(live, own, G)
      BY <1>9, <3>1, SharedLess
    <3>3. QED BY <2>2, <3>2
  <2>3. QED BY <1>5, <2>1, <2>2
<1>11. Shared(live, own, HasOf(stage, mem, stack))'
  BY <1>2, <1>10 DEF G
<1>12. TestsType'
  BY <1>1, <1>2, <1>4, <1>6 DEF TestsType
<1>13. Untested'
  BY <1>2 DEF Untested
<1>14. SeqInv'
  BY <1>1, <1>2, <1>3, <1>4, SeqKeeps
<1>15. Unspoiled'
  BY <1>1, <1>2, <1>4 DEF Unspoiled
<1>16. QED BY <1>5, <1>11, <1>12, <1>13, <1>14, <1>15 DEF TestsInv

\* A tester gets a block to work on.
LEMMA TesterAllocateKeeps ==
    ASSUME TestsInv, tested, NEW t \in Testers, TesterAllocate(t)
    PROVE  TestsInv'
<1>1. BuddyInv /\ TestsType /\ Untested /\ Shared(live, own, HasOf(stage, mem, stack)) /\ SeqInv /\ Unspoiled
  BY DEF TestsInv
<1>2. /\ stage[t] = "allocate" /\ Goes(t, "fill") /\ mem' = [mem EXCEPT ![t] = Given]
      /\ UNCHANGED <<tested, round, stack, level, block, own, spoiled>>
  BY DEF TesterAllocate
<1>3. t \in Writers /\ t # Shell /\ Shell \in Writers
  BY TestersAssumption DEF Writers
<1>4. /\ stage' \in [Writers -> Stages] /\ stage'[t] = "fill"
      /\ \A v \in Writers : v # t => stage'[v] = stage[v]
  BY <1>1, <1>2, <1>3, GoesIs DEF Stages
<1> DEFINE m == Given
<1>5. BuddyInv' /\ m \notin live /\ live' = live \cup {m}
  <2>1. PICK bytes \in Sizes : Allocate(bytes)
    BY DEF TesterAllocate
  <2>2. bytes \in Nat
    BY SizesAssumption
  <2>3. QED BY <1>1, <2>1, <2>2, GivenIs
<1>6. DOMAIN mem' = Writers /\ mem'[t] = m /\ \A v \in Writers : v # t => mem'[v] = mem[v]
  BY <1>1, <1>2, <1>3 DEF TestsType
<1> HIDE DEF m
<1> DEFINE H == HasOf(stage, mem, stack)
           G == HasOf(stage', mem', stack')
<1>7. \A q \in Slots : q # MemSlot(t) /\ q # StackSlot(t) => G[q] = H[q]
  <2>1. \A v \in Testers : v # t => stage'[v] = stage[v] /\ mem'[v] = mem[v] /\ stack'[v] = stack[v]
    BY <1>2, <1>4, <1>6 DEF Writers
  <2>2. QED BY <2>1, HasElsewhere
<1>8. G[MemSlot(t)] = {m} /\ G[StackSlot(t)] = H[StackSlot(t)] /\ MemSlot(t) \in Slots
  <2>1. MemAt(stage'[t], mem'[t]) = {m} /\ StackAt(stage'[t], stack'[t]) = StackAt(stage[t], stack[t])
    BY <1>2, <1>4, <1>6 DEF MemAt, StackAt
  <2>2. QED BY <2>1, HasIs
<1> HIDE DEF H, G
<1>9. Shared(live, own, H) /\ G[MemSlot(t)] \subseteq H[MemSlot(t)] \cup {m}
      /\ \A q \in Slots : q # MemSlot(t) => G[q] \subseteq H[q]
  BY <1>1, <1>7, <1>8 DEF H
<1>10. Shared(live \cup {m}, own, G)
  BY <1>5, <1>8, <1>9, SharedGive
<1>11. Shared(live, own, HasOf(stage, mem, stack))'
  BY <1>2, <1>5, <1>10 DEF G
<1>12. TestsType'
  BY <1>1, <1>2, <1>4, <1>6 DEF TestsType
<1>13. Untested'
  BY <1>2 DEF Untested
<1>14. SeqInv'
  BY <1>1, <1>2, <1>3, <1>4, <1>6, SeqKeeps
<1>15. Unspoiled'
  BY <1>1, <1>2, <1>4 DEF Unspoiled
<1>16. QED BY <1>5, <1>11, <1>12, <1>13, <1>14, <1>15 DEF TestsInv

\* A tester compares, and finds what it has written.
LEMMA TesterCompareKeeps ==
    ASSUME TestsInv, tested, NEW t \in Testers, TesterCompare(t)
    PROVE  TestsInv'
<1>1. BuddyInv /\ TestsType /\ Untested /\ Shared(live, own, HasOf(stage, mem, stack)) /\ SeqInv /\ Unspoiled
  BY DEF TestsInv
<1>2. /\ stage[t] = "compare"
      /\ UNCHANGED <<buddyVars, tested, mem, round, stack, level, block, own, spoiled>>
  BY DEF TesterCompare
<1>3. t \in Writers /\ t # Shell /\ Shell \in Writers
  BY TestersAssumption DEF Writers
<1>4. Goes(t, "free")
  BY <1>1, <1>2, <1>3 DEF TesterCompare, Unspoiled
<1>5. /\ stage' \in [Writers -> Stages] /\ stage'[t] = "free"
      /\ \A v \in Writers : v # t => stage'[v] = stage[v]
  BY <1>1, <1>3, <1>4, GoesIs DEF Stages
<1>6. BuddyInv' /\ live' = live
  BY <1>1, <1>2, BuddyStutters DEF buddyVars
<1>7. HasOf(stage', mem', stack') = HasOf(stage, mem, stack)
  <2>1. \A v \in Testers : /\ MemAt(stage'[v], mem[v]) = MemAt(stage[v], mem[v])
                           /\ StackAt(stage'[v], stack[v]) = StackAt(stage[v], stack[v])
    BY <1>2, <1>5 DEF MemAt, StackAt, Writers
  <2>2. \A p \in Slots : p[1] \in Testers
    BY DEF Slots
  <2>3. QED BY <1>2, <2>1, <2>2 DEF HasOf
<1>8. Shared(live, own, HasOf(stage, mem, stack))'
  BY <1>1, <1>2, <1>6, <1>7
<1>9. TestsType'
  BY <1>1, <1>2, <1>5 DEF TestsType
<1>10. Untested'
  BY <1>2 DEF Untested
<1>11. SeqInv'
  BY <1>1, <1>2, <1>3, <1>5, SeqKeeps
<1>12. Unspoiled'
  BY <1>1, <1>2, <1>5 DEF Unspoiled
<1>13. QED BY <1>6, <1>8, <1>9, <1>10, <1>11, <1>12 DEF TestsInv

\* A tester frees the block it worked on.
LEMMA TesterFreeKeeps ==
    ASSUME TestsInv, tested, NEW t \in Testers, TesterFree(t)
    PROVE  TestsInv'
<1>1. BuddyInv /\ TestsType /\ Untested /\ Shared(live, own, HasOf(stage, mem, stack)) /\ SeqInv /\ Unspoiled
  BY DEF TestsInv
<1> DEFINE m == mem[t]
<1>2. /\ stage[t] = "free" /\ Free(m, m.addr) /\ mem' = [mem EXCEPT ![t] = NoMem]
      /\ UNCHANGED <<tested, stack, level, block, own, spoiled>>
  BY DEF TesterFree
<1>3. t \in Writers /\ t # Shell /\ Shell \in Writers
  BY TestersAssumption DEF Writers
<1>4. PICK to \in {"exited", "allocate"} : Goes(t, to)
  BY DEF TesterFree
<1>5. stage' \in [Writers -> Stages] /\ stage'[t] = to /\ \A v \in Writers : v # t => stage'[v] = stage[v]
  BY <1>1, <1>3, <1>4, GoesIs DEF Stages
<1>6. DOMAIN mem' = Writers /\ \A v \in Writers : v # t => mem'[v] = mem[v]
  BY <1>1, <1>2, <1>3 DEF TestsType
<1> DEFINE H == HasOf(stage, mem, stack)
           G == HasOf(stage', mem', stack')
<1>7. \A q \in Slots : q # MemSlot(t) /\ q # StackSlot(t) => G[q] = H[q]
  <2>1. \A v \in Testers : v # t => stage'[v] = stage[v] /\ mem'[v] = mem[v] /\ stack'[v] = stack[v]
    BY <1>2, <1>5, <1>6 DEF Writers
  <2>2. QED BY <2>1, HasElsewhere
<1>8. /\ m \in H[MemSlot(t)] /\ G[MemSlot(t)] = {} /\ G[StackSlot(t)] = H[StackSlot(t)]
      /\ MemSlot(t) \in Slots
  <2>1. /\ m \in MemAt(stage[t], mem[t]) /\ MemAt(stage'[t], mem'[t]) = {}
        /\ StackAt(stage'[t], stack'[t]) = StackAt(stage[t], stack[t])
    BY <1>2, <1>5 DEF MemAt, StackAt
  <2>2. QED BY <2>1, HasIs
<1> HIDE DEF m
<1> HIDE DEF H, G
<1>9. Shared(live, own, H) /\ m \notin G[MemSlot(t)] /\ \A q \in Slots : G[q] \subseteq H[q]
  BY <1>1, <1>7, <1>8 DEF H
<1>10. m \in live /\ Shared(live \ {m}, own, G)
  BY <1>8, <1>9, SharedTake
<1>11. BuddyInv' /\ live' = live \ {m}
  BY <1>1, <1>2, <1>10, FreeTakes
<1>12. Shared(live, own, HasOf(stage, mem, stack))'
  BY <1>2, <1>10, <1>11 DEF G
<1>13. TestsType'
  BY <1>1, <1>2, <1>5, <1>6 DEF TestsType
<1>14. Untested'
  BY <1>2 DEF Untested
<1>15. SeqInv'
  BY <1>1, <1>2, <1>3, <1>5, <1>6, SeqKeeps
<1>16. Unspoiled'
  BY <1>1, <1>2, <1>5 DEF Unspoiled
<1>17. QED BY <1>11, <1>12, <1>13, <1>14, <1>15, <1>16 DEF TestsInv

\* The stack of a tester that has exited is freed.
LEMMA FreeStackKeeps ==
    ASSUME TestsInv, tested, NEW t \in Testers, FreeStack(t)
    PROVE  TestsInv'
<1>1. BuddyInv /\ TestsType /\ Untested /\ Shared(live, own, HasOf(stage, mem, stack)) /\ SeqInv /\ Unspoiled
  BY DEF TestsInv
<1> DEFINE m == stack[t]
<1>2. /\ stage[t] = "exited" /\ (IF m = NoMem THEN UNCHANGED buddyVars ELSE Free(m, m.addr)) /\ Goes(t, "gone")
      /\ stack' = [stack EXCEPT ![t] = NoMem]
      /\ UNCHANGED <<tested, mem, round, level, block, own, spoiled>>
  BY DEF FreeStack
<1>3. t \in Writers /\ t # Shell /\ Shell \in Writers
  BY TestersAssumption DEF Writers
<1>4. stage' \in [Writers -> Stages] /\ stage'[t] = "gone" /\ \A v \in Writers : v # t => stage'[v] = stage[v]
  BY <1>1, <1>2, <1>3, GoesIs DEF Stages
<1>5. DOMAIN stack' = Testers /\ \A v \in Testers : v # t => stack'[v] = stack[v]
  BY <1>1, <1>2 DEF TestsType
<1> DEFINE H == HasOf(stage, mem, stack)
           G == HasOf(stage', mem', stack')
<1>6. \A q \in Slots : q # MemSlot(t) /\ q # StackSlot(t) => G[q] = H[q]
  <2>1. \A v \in Testers : v # t => stage'[v] = stage[v] /\ mem'[v] = mem[v] /\ stack'[v] = stack[v]
    BY <1>2, <1>4, <1>5 DEF Writers
  <2>2. QED BY <2>1, HasElsewhere
<1>7. /\ m \in H[StackSlot(t)] \/ m = NoMem
      /\ G[MemSlot(t)] = {} /\ G[StackSlot(t)] = {} /\ StackSlot(t) \in Slots
  <2>1. /\ m \in StackAt(stage[t], stack[t]) \/ m = NoMem
        /\ MemAt(stage'[t], mem'[t]) = {} /\ StackAt(stage'[t], stack'[t]) = {}
    BY <1>2, <1>4 DEF MemAt, StackAt
  <2>2. QED BY <2>1, HasIs
<1> HIDE DEF m, H, G
<1>8. Shared(live, own, H) /\ m \notin G[StackSlot(t)] /\ \A q \in Slots : G[q] \subseteq H[q]
  BY <1>1, <1>6, <1>7 DEF H
<1>9. BuddyInv' /\ Shared(live', own, G)
  <2>1. CASE m = NoMem
    <3>1. BuddyInv' /\ live' = live
      BY <1>1, <1>2, <2>1, BuddyStutters DEF buddyVars
    <3>2. Shared(live, own, G)
      BY <1>8, SharedLess
    <3>3. QED BY <3>1, <3>2
  <2>2. CASE m # NoMem
    <3>1. m \in live /\ Shared(live \ {m}, own, G)
      BY <1>7, <1>8, <2>2, SharedTake
    <3>2. BuddyInv' /\ live' = live \ {m}
      BY <1>1, <1>2, <2>2, <3>1, FreeTakes
    <3>3. QED BY <3>1, <3>2
  <2>3. QED BY <2>1, <2>2
<1>10. Shared(live, own, HasOf(stage, mem, stack))'
  BY <1>2, <1>9 DEF G
<1>11. TestsType'
  BY <1>1, <1>2, <1>4, <1>5 DEF TestsType
<1>12. Untested'
  BY <1>2 DEF Untested
<1>13. SeqInv'
  BY <1>1, <1>2, <1>3, <1>4, SeqKeeps
<1>14. Unspoiled'
  BY <1>1, <1>2, <1>4 DEF Unspoiled
<1>15. QED BY <1>9, <1>10, <1>11, <1>12, <1>13, <1>14 DEF TestsInv

\* Other callers' steps, while the tests hold nothing
LEMMA CallersKeep ==
    ASSUME TestsInv, ~tested, BuddyNext, UNCHANGED testVars
    PROVE  TestsInv'
<1>1. BuddyInv /\ TestsType /\ Untested /\ Shared(live, own, HasOf(stage, mem, stack)) /\ SeqInv /\ Unspoiled
  BY DEF TestsInv
<1>2. UNCHANGED <<tested, stage, mem, stack, level, block, own, spoiled>>
  BY DEF testVars
<1>3. BuddyInv'
  <2>1. ASSUME NEW bytes \in Requests, Allocate(bytes) PROVE BuddyInv'
    <3>1. bytes \in Nat
      BY RequestsAssumption
    <3>2. QED BY <1>1, <2>1, <3>1, AllocateGives
  <2>2. ASSUME NEW m \in live, NEW addr \in {m.addr, m.addr + Unit - 1}, Free(m, addr) PROVE BuddyInv'
    BY <1>1, <2>2, FreeTakes
  <2>3. QED BY <2>1, <2>2 DEF BuddyNext
<1>4. own = {} /\ \A w \in Writers : stage[w] = "off"
  BY <1>1 DEF Untested
<1>5. \A p \in Slots : HasOf(stage, mem, stack)[p] = {}
  <2>1. \A p \in Slots : p[1] \in Testers
    BY DEF Slots
  <2>2. QED BY <1>4, <2>1 DEF HasOf, MemAt, StackAt, Writers
<1>6. Shared(live', own, HasOf(stage, mem, stack))
  BY <1>4, <1>5 DEF Shared
<1>7. Shared(live, own, HasOf(stage, mem, stack))'
  BY <1>2, <1>6
<1>8. TestsType' /\ Untested'
  BY <1>1, <1>2 DEF TestsType, Untested
<1>9. SeqInv'
  BY <1>1, <1>2, SeqKeeps
<1>10. Unspoiled'
  BY <1>1, <1>2 DEF Unspoiled
<1>11. QED BY <1>3, <1>7, <1>8, <1>9, <1>10 DEF TestsInv

\* The invariant of the tests: what each of them has is its own, and testdynseq has counted
\* what it has been given.
THEOREM TestsInvariant == TestsSpec => []TestsInv
<1>1. TestsInv /\ [TestsNext]_<<buddyVars, testVars>> => TestsInv'
  <2> SUFFICES ASSUME TestsInv, [TestsNext]_<<buddyVars, testVars>> PROVE TestsInv'
    OBVIOUS
  <2>1. CASE ~tested /\ BuddyNext /\ UNCHANGED testVars
    BY <2>1, CallersKeep
  <2>2. ASSUME tested, NEW w \in Writers, Fill(w) PROVE TestsInv'
    BY <2>2, FillKeeps
  <2>3. ASSUME tested, StartSeq \/ SeqAllocate \/ SeqCompare \/ SeqFree PROVE TestsInv'
    BY <2>3, StartSeqKeeps, SeqAllocateKeeps, SeqCompareKeeps, SeqFreeKeeps
  <2>4. ASSUME tested, NEW t \in Testers,
               StartTester(t) \/ TesterAllocate(t) \/ TesterCompare(t) \/ TesterFree(t) \/ FreeStack(t)
        PROVE  TestsInv'
    BY <2>4, StartTesterKeeps, TesterAllocateKeeps, TesterCompareKeeps, TesterFreeKeeps, FreeStackKeeps
  <2>5. CASE UNCHANGED <<buddyVars, testVars>>
    <3>1. BuddyInv'
      BY <2>5, BuddyStutters DEF TestsInv
    <3>2. UNCHANGED <<live, tested, stage, mem, stack, level, block, own, spoiled>>
      BY <2>5 DEF buddyVars, testVars
    <3>3. TestsType' /\ Untested' /\ Shared(live, own, HasOf(stage, mem, stack))' /\ SeqInv' /\ Unspoiled'
      BY <3>2 DEF TestsInv, TestsType, Untested, SeqInv, Unspoiled
    <3>4. QED BY <3>1, <3>3 DEF TestsInv
  <2>6. QED BY <2>1, <2>2, <2>3, <2>4, <2>5 DEF TestsNext
<1>2. QED BY <1>1, TestsInitially, PTL DEF TestsSpec

\* While the tests run, too, no unit of memory is lost or given out twice, and a block that is
\* nobody's can be had.
THEOREM AllocatorCorrectInTests == TestsSpec => [](Partition /\ Serves)
<1>1. TestsInv => Partition /\ Serves
  BY PartitionHolds, ServesHolds DEF TestsInv
<1>2. QED BY <1>1, TestsInvariant, PTL

\* The tests find no fault, whatever the memory's size, the sizes the testers ask for and their
\* number: nobody writes over another's block; testdynseq frees what it was given; and it is
\* refused nothing unless somebody else holds memory.
THEOREM TestsFindNothing == TestsSpec => []TestsPass
<1>1. TestsInv => TestsPass
  <2> SUFFICES ASSUME TestsInv PROVE TestsPass
    OBVIOUS
  <2>1. BuddyInv /\ SeqInv /\ Unspoiled
    BY DEF TestsInv
  <2>2. ASSUME stage[Shell] = "free", NEW b \in block .. LevelSize(level) - 1 PROVE SeqBlock(b) \in own
    <3>1. own = BlocksFrom(level, block)
      BY <2>1, <2>2 DEF SeqInv
    <3>2. QED BY <3>1 DEF BlocksFrom, SeqBlock, SeqSize, BlockAt
  <2>3. ASSUME stage[Shell] = "allocate", Refused(SeqSize) PROVE live # own
    <3>1. SUFFICES ASSUME live = own PROVE FALSE
      OBVIOUS
    <3>2. level \in Levels /\ OfLevel(live, level) /\ Cardinality(live) < LevelSize(level)
      BY <2>1, <2>3, <3>1 DEF SeqInv
    <3>3. ~Refused(SeqSize)
      BY <2>1, <3>2, OneIsLeft DEF SeqSize
    <3>4. QED BY <2>3, <3>3
  <2>4. QED BY <2>1, <2>2, <2>3 DEF TestsPass, Unspoiled
<1>2. QED BY <1>1, TestsInvariant, PTL
=============================================================================
