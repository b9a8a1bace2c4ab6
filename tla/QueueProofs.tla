----------------------------- MODULE QueueProofs ----------------------------
(***************************************************************************)
(* What the other proofs use of the lists of nodes and of the ring.        *)
(* Pushing, popping and erasing change the membership of a list as they    *)
(* should, and none of them links a node twice.  The ring of CircularQueue *)
(* is a first-in-first-out queue of q.size places, for every size and      *)
(* every kind of element.                                                  *)
(***************************************************************************)
EXTENDS NodeList, CircularQueue, SequenceTheorems, TLAPS

-----------------------------------------------------------------------------
(* Lists of nodes. *)

\* A push at the back adds exactly the new node (linkedlist.c:34-54).
LEMMA PushBackLemma ==
    ASSUME NEW S, NEW s \in Seq(S), NEW x \in S
    PROVE  /\ Append(s, x) \in Seq(S)
           /\ Append(s, x) # <<>>
           /\ \A y : In(y, Append(s, x)) <=> In(y, s) \/ y = x
           /\ Distinct(s) /\ ~In(x, s) => Distinct(Append(s, x))
<1> DEFINE r == Append(s, x)
<1>1. /\ r \in Seq(S)
      /\ r # <<>>
      /\ Len(r) = Len(s) + 1
      /\ r[Len(s) + 1] = x
      /\ \A i \in 1 .. Len(s) : r[i] = s[i]
  OBVIOUS
<1> HIDE DEF r
<1>2. \A y : In(y, r) <=> In(y, s) \/ y = x
  <2>1. ASSUME NEW y, In(y, r) PROVE In(y, s) \/ y = x
    <3>1. PICK i \in 1 .. Len(r) : r[i] = y
      BY <2>1 DEF In
    <3>2. i \in 1 .. Len(s) \/ i = Len(s) + 1
      BY <1>1
    <3>3. QED BY <3>1, <3>2, <1>1 DEF In
  <2>2. ASSUME NEW y, In(y, s) PROVE In(y, r)
    <3>1. PICK i \in 1 .. Len(s) : s[i] = y
      BY <2>2 DEF In
    <3>2. i \in 1 .. Len(r) /\ r[i] = y
      BY <3>1, <1>1
    <3>3. QED BY <3>2 DEF In
  <2>3. In(x, r)
    <3>1. Len(s) + 1 \in 1 .. Len(r)
      BY <1>1
    <3>2. QED BY <3>1, <1>1 DEF In
  <2>4. QED BY <2>1, <2>2, <2>3
<1>3. ASSUME Distinct(s), ~In(x, s) PROVE Distinct(r)
  <2>1. SUFFICES ASSUME NEW i \in 1 .. Len(r), NEW j \in 1 .. Len(r), r[i] = r[j]
                 PROVE  i = j
    BY DEF Distinct
  <2>2. /\ i \in 1 .. Len(s) \/ i = Len(s) + 1
        /\ j \in 1 .. Len(s) \/ j = Len(s) + 1
    BY <1>1
  <2>3. \A k \in 1 .. Len(s) : s[k] # x
    BY <1>3 DEF In
  <2>4. QED BY <1>1, <1>3, <2>1, <2>2, <2>3 DEF Distinct
<1>4. QED BY <1>1, <1>2, <1>3 DEF r

\* A pop at the front takes the head away and leaves the others
\* (linkedlist.c:56-82).
LEMMA PopFrontLemma ==
    ASSUME NEW S, NEW s \in Seq(S), s # <<>>
    PROVE  /\ Head(s) \in S
           /\ Tail(s) \in Seq(S)
           /\ In(Head(s), s)
           /\ \A y : In(y, Tail(s)) => In(y, s)
           /\ \A y : In(y, s) => y = Head(s) \/ In(y, Tail(s))
           /\ Distinct(s) => Distinct(Tail(s)) /\ ~In(Head(s), Tail(s))
<1> DEFINE r == Tail(s)
<1>1. /\ Head(s) \in S
      /\ Len(s) \in Nat /\ Len(s) >= 1
      /\ Head(s) = s[1]
      /\ r \in Seq(S)
      /\ Len(r) = Len(s) - 1
      /\ \A i \in 1 .. Len(r) : r[i] = s[i + 1]
  OBVIOUS
<1> HIDE DEF r
<1>2. In(Head(s), s)
  BY <1>1 DEF In
<1>3. ASSUME NEW y, In(y, r) PROVE In(y, s)
  <2>1. PICK i \in 1 .. Len(r) : r[i] = y
    BY <1>3 DEF In
  <2>2. i + 1 \in 1 .. Len(s) /\ s[i + 1] = y
    BY <2>1, <1>1
  <2>3. QED BY <2>2 DEF In
<1>4. ASSUME NEW y, In(y, s), y # Head(s) PROVE In(y, r)
  <2>1. PICK i \in 1 .. Len(s) : s[i] = y
    BY <1>4 DEF In
  <2>2. i - 1 \in 1 .. Len(r) /\ r[i - 1] = y
    BY <2>1, <1>1, <1>4
  <2>3. QED BY <2>2 DEF In
<1>5. ASSUME Distinct(s) PROVE Distinct(r) /\ ~In(Head(s), r)
  <2>1. \A i, j \in 1 .. Len(s) : s[i] = s[j] => i = j
    BY <1>5 DEF Distinct
  <2>2. \A i \in 1 .. Len(r) : i + 1 \in 1 .. Len(s)
    BY <1>1
  <2>3. Distinct(r)
    BY <1>1, <2>1, <2>2 DEF Distinct
  <2>4. ASSUME NEW i \in 1 .. Len(r), r[i] = s[1] PROVE FALSE
    BY <1>1, <2>1, <2>2, <2>4
  <2>5. QED BY <2>3, <2>4, <1>1 DEF In
<1>6. QED BY <1>1, <1>2, <1>3, <1>4, <1>5 DEF r

\* Erasing takes exactly the given node away (linkedlist.h:137-145).
LEMMA EraseLemma ==
    ASSUME NEW S, NEW s \in Seq(S), NEW x
    PROVE  /\ Erase(s, x) \in Seq(S)
           /\ ~In(x, s) => Erase(s, x) = s
           /\ Distinct(s) =>
                /\ Distinct(Erase(s, x))
                /\ \A y : In(y, Erase(s, x)) <=> In(y, s) /\ y # x
<1> DEFINE r == Erase(s, x)
<1>1. CASE ~In(x, s)
  <2>1. Erase(s, x) = s
    BY <1>1 DEF Erase
  <2>2. \A y : In(y, s) => y # x
    BY <1>1
  <2>3. QED BY <2>1, <2>2, <1>1
<1>2. CASE In(x, s)
  <2> DEFINE k == CHOOSE i \in 1 .. Len(s) : s[i] = x
  <2>1. k \in 1 .. Len(s) /\ s[k] = x
    BY <1>2 DEF In
  <2>2. r = [i \in 1 .. Len(s) - 1 |-> IF i < k THEN s[i] ELSE s[i + 1]]
    BY <1>2 DEF Erase
  <2> HIDE DEF k, r
  <2>3. Len(s) \in Nat /\ Len(s) - 1 \in Nat
    BY <2>1
  <2>4. \A i \in 1 .. Len(s) : s[i] \in S
    OBVIOUS
  <2>5. \A i \in 1 .. Len(s) - 1 : (IF i < k THEN s[i] ELSE s[i + 1]) \in S
    BY <2>1, <2>3, <2>4
  <2>6. r \in [1 .. Len(s) - 1 -> S]
    BY <2>2, <2>5
  <2>7. r \in Seq(S) /\ Len(r) = Len(s) - 1
    BY <2>6, <2>3
  <2>8. \A i \in 1 .. Len(r) : r[i] = IF i < k THEN s[i] ELSE s[i + 1]
    BY <2>2, <2>7
  <2>9. ASSUME Distinct(s)
        PROVE  Distinct(r) /\ \A y : In(y, r) <=> In(y, s) /\ y # x
    <3>1. \A i, j \in 1 .. Len(s) : s[i] = s[j] => i = j
      BY <2>9 DEF Distinct
    <3>2. Distinct(r)
      <4>1. SUFFICES ASSUME NEW i \in 1 .. Len(r), NEW j \in 1 .. Len(r), r[i] = r[j]
                     PROVE  i = j
        BY DEF Distinct
      <4>2. i \in 1 .. Len(s) /\ i + 1 \in 1 .. Len(s)
            /\ j \in 1 .. Len(s) /\ j + 1 \in 1 .. Len(s)
        BY <2>7, <2>3
      <4>3. QED BY <4>1, <4>2, <2>8, <3>1, <2>1
    <3>3. ASSUME NEW y, In(y, r) PROVE In(y, s) /\ y # x
      <4>1. PICK i \in 1 .. Len(r) : r[i] = y
        BY <3>3 DEF In
      <4>2. i \in 1 .. Len(s) /\ i + 1 \in 1 .. Len(s)
        BY <2>7, <2>3
      <4>3. \E j \in 1 .. Len(s) : s[j] = y /\ j # k
        <5>1. CASE i < k
          BY <4>1, <4>2, <2>8, <5>1
        <5>2. CASE ~(i < k)
          BY <4>1, <4>2, <2>8, <5>2, <2>1
        <5>3. QED BY <5>1, <5>2
      <4>4. QED BY <4>3, <3>1, <2>1 DEF In
    <3>4. ASSUME NEW y, In(y, s), y # x PROVE In(y, r)
      <4>1. PICK i \in 1 .. Len(s) : s[i] = y
        BY <3>4 DEF In
      <4>2. CASE i < k
        <5>1. i \in 1 .. Len(r) /\ r[i] = y
          BY <4>1, <4>2, <2>1, <2>7, <2>8
        <5>2. QED BY <5>1 DEF In
      <4>3. CASE ~(i < k)
        <5>1. i # k
          BY <4>1, <2>1, <3>4
        <5>2. i - 1 \in 1 .. Len(r) /\ r[i - 1] = y
          BY <4>1, <4>3, <5>1, <2>1, <2>7, <2>8
        <5>3. QED BY <5>2 DEF In
      <4>4. QED BY <4>2, <4>3
    <3>5. QED BY <3>2, <3>3, <3>4
  <2>10. QED BY <2>7, <2>9, <1>2 DEF r
<1>3. QED BY <1>1, <1>2

\* The empty list has no node.
LEMMA EmptyLemma ==
    /\ \A y : ~In(y, <<>>)
    /\ Distinct(<<>>)
BY DEF In, Distinct

-----------------------------------------------------------------------------
(* The ring. *)

\* A queue that was just set up is a ring without elements
\* (ckCircularQueue32Init, circular_queue.c:34).
THEOREM NewRing ==
    ASSUME NEW Data, 0 \in Data, NEW size \in Nat \ {0}
    PROVE  IsRing(New(size), Data) /\ Contents(New(size)) = <<>>
  BY DEF IsRing, New, Contents, Length

\* A ring has between no and q.size elements, and places for them in its buffer.
LEMMA LengthRange ==
    ASSUME NEW Data, NEW q, IsRing(q, Data)
    PROVE  /\ q.size \in Nat \ {0} /\ Length(q) \in 0 .. q.size
           /\ (Length(q) = 0) <=> q.empty
           /\ \A i \in 0 .. q.size : Slot(q, i) \in 0 .. q.size - 1
  BY DEF IsRing, Length, Slot

\* What a ring stands for is a sequence of elements.
LEMMA ContentsSeq ==
    ASSUME NEW Data, NEW q, IsRing(q, Data)
    PROVE  Contents(q) \in Seq(Data) /\ Len(Contents(q)) = Length(q)
  <1>1. Length(q) \in Nat /\ \A i \in 1 .. Length(q) : Slot(q, i - 1) \in 0 .. q.size - 1
    BY LengthRange
  <1>2. \A i \in 1 .. Length(q) : q.buf[Slot(q, i - 1)] \in Data
    BY <1>1 DEF IsRing
  <1> QED
    BY <1>1, <1>2, IsASeq, LenProperties DEF Contents

\* The test of ckCircularQueue32Put is exact: there is room as long as fewer than
\* q.size elements are in the queue (circular_queue.c:43).
THEOREM RoomExact ==
    ASSUME NEW Data, NEW q, IsRing(q, Data)
    PROVE  HasRoom(q) <=> Len(Contents(q)) < q.size
  <1>1. HasRoom(q) <=> Length(q) < q.size
    BY DEF HasRoom, IsRing, Length
  <1> QED
    BY <1>1, ContentsSeq

\* A put at the back of a ring with room leaves a ring with one element more, and
\* moves none of the others (circular_queue.c:41-61).
THEOREM PutAppends ==
    ASSUME NEW Data, NEW q, IsRing(q, Data), HasRoom(q), NEW d \in Data
    PROVE  IsRing(Put(q, d), Data) /\ Contents(Put(q, d)) = Append(Contents(q), d)
  <1> DEFINE r == Put(q, d)
  <1>1. /\ r.size = q.size /\ r.first = q.first /\ r.last = After(q, q.last) /\ r.empty = FALSE
        /\ r.buf = [q.buf EXCEPT ![q.last] = d]
        /\ r = [buf |-> r.buf, size |-> r.size, first |-> r.first, last |-> r.last, empty |-> r.empty]
    BY DEF Put, IsRing
  <1>2. IsRing(r, Data)
    <2>1. r.buf \in [0 .. r.size - 1 -> Data]
      BY <1>1 DEF IsRing
    <2>2. After(q, q.last) \in 0 .. q.size - 1
      BY DEF IsRing, After
    <2> QED
      BY <1>1, <2>1, <2>2 DEF IsRing
  <1>3. Length(r) = Length(q) + 1
    BY <1>1, SMTT(20) DEF IsRing, Length, After, HasRoom
  <1>4. Slot(q, Length(q)) = q.last /\ \A i \in 0 .. q.size : Slot(r, i) = Slot(q, i)
    BY <1>1 DEF IsRing, Length, Slot, HasRoom
  <1>5. \A i \in 1 .. Length(q) : Slot(q, i - 1) # q.last
    BY DEF IsRing, Length, Slot, HasRoom
  <1>6. \A i \in 1 .. Length(q) : r.buf[Slot(r, i - 1)] = q.buf[Slot(q, i - 1)]
    <2>1. \A i \in 1 .. Length(q) : i - 1 \in 0 .. q.size /\ Slot(q, i - 1) \in 0 .. q.size - 1
      BY LengthRange
    <2> QED
      BY <1>1, <1>4, <1>5, <2>1 DEF IsRing
  <1>7. r.buf[Slot(r, Length(q))] = d
    BY <1>1, <1>4, LengthRange DEF IsRing
  <1>8. Contents(r) \in Seq(Data) /\ Len(Contents(r)) = Length(q) + 1
    BY <1>2, <1>3, ContentsSeq
  <1>9. /\ Append(Contents(q), d) \in Seq(Data) /\ Len(Append(Contents(q), d)) = Length(q) + 1
        /\ \A i \in 1 .. Length(q) : Append(Contents(q), d)[i] = Contents(q)[i]
        /\ Append(Contents(q), d)[Length(q) + 1] = d
    BY ContentsSeq, AppendProperties
  <1>10. \A i \in 1 .. Length(q) + 1 : Contents(r)[i] = Append(Contents(q), d)[i]
    BY <1>3, <1>6, <1>7, <1>9, LengthRange DEF Contents
  <1> QED
    BY <1>2, <1>8, <1>9, <1>10, SeqEqual

\* Removing from a ring that is not empty takes the oldest element, the one that
\* ckCircularQueue32Get returns (circular_queue.c:62-109).
THEOREM RemoveTakesOldest ==
    ASSUME NEW Data, NEW q, IsRing(q, Data), ~q.empty
    PROVE  /\ IsRing(Remove(q), Data)
           /\ Contents(q) # <<>>
           /\ Oldest(q) = Head(Contents(q))
           /\ Contents(Remove(q)) = Tail(Contents(q))
  <1> DEFINE r == Remove(q)
  <1>1. /\ r.size = q.size /\ r.first = After(q, q.first) /\ r.last = q.last /\ r.buf = q.buf
        /\ r.empty = (After(q, q.first) = q.last)
        /\ r = [buf |-> r.buf, size |-> r.size, first |-> r.first, last |-> r.last, empty |-> r.empty]
    BY DEF Remove, IsRing
  <1>2. IsRing(r, Data)
    BY <1>1 DEF IsRing, After
  <1>3. Length(q) \in Nat \ {0} /\ Length(r) = Length(q) - 1
    <2>1. Length(q) \in Nat \ {0}
      BY LengthRange
    <2>2. r.empty <=> After(q, q.first) = q.last
      BY <1>1
    <2>3. CASE q.first + 1 >= q.size
      <3>1. After(q, q.first) = 0
        BY <2>3 DEF After
      <3> QED
        BY <1>1, <2>1, <2>2, <2>3, <3>1 DEF IsRing, Length
    <2>4. CASE ~(q.first + 1 >= q.size)
      <3>1. After(q, q.first) = q.first + 1
        BY <2>4 DEF After
      <3> QED
        BY <1>1, <2>1, <2>2, <2>4, <3>1, SMTT(20) DEF IsRing, Length
    <2> QED
      BY <2>3, <2>4
  <1>4. \A i \in 0 .. Length(q) - 2 : Slot(r, i) = Slot(q, i + 1)
    <2>1. /\ q.size \in Nat \ {0} /\ q.first \in 0 .. q.size - 1
          /\ Length(q) \in 0 .. q.size
      BY LengthRange DEF IsRing
    <2>2. After(q, q.first) = IF q.first + 1 >= q.size THEN 0 ELSE q.first + 1
      BY DEF After
    <2> QED
      BY <1>1, <2>1, <2>2 DEF Slot
  <1>5. Contents(q) # <<>> /\ Oldest(q) = Head(Contents(q))
    <2>1. Contents(q) \in Seq(Data) /\ Len(Contents(q)) = Length(q)
      BY ContentsSeq
    <2>2. Contents(q)[1] = q.buf[Slot(q, 0)] /\ Slot(q, 0) = q.first
      BY <1>3 DEF Contents, Slot, IsRing
    <2> QED
      BY <1>3, <2>1, <2>2 DEF Oldest
  <1>6. Contents(r) \in Seq(Data) /\ Len(Contents(r)) = Length(q) - 1
    BY <1>2, <1>3, ContentsSeq
  <1>7. /\ Tail(Contents(q)) \in Seq(Data) /\ Len(Tail(Contents(q))) = Length(q) - 1
        /\ \A i \in 1 .. Length(q) - 1 : Tail(Contents(q))[i] = Contents(q)[i + 1]
    BY <1>5, ContentsSeq, HeadTailProperties
  <1>8. \A i \in 1 .. Length(q) - 1 : Contents(r)[i] = Contents(q)[i + 1]
    <2>1. \A i \in 1 .. Length(q) - 1 : Slot(r, i - 1) = Slot(q, i)
      BY <1>3, <1>4
    <2> QED
      BY <1>1, <1>3, <2>1 DEF Contents
  <1> QED
    BY <1>2, <1>5, <1>6, <1>7, <1>8, SeqEqual
=============================================================================
