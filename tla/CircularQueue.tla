--------------------------- MODULE CircularQueue ----------------------------
(***************************************************************************)
(* The ring of src/src/circular_queue.c, for words and for bytes.  As in   *)
(* the code an operation works on the queue it is given: here it returns   *)
(* the new one.  A pointer into the buffer is an index from 0.             *)
(***************************************************************************)
EXTENDS Naturals, Sequences

\* ckCircularQueue32Init on a buffer that holds zeros
New(size) ==
    [buf |-> [i \in 0 .. size - 1 |-> 0], size |-> size, first |-> 0, last |-> 0, empty |-> TRUE]

\* The pointer moves on, and wraps at the end of the buffer.
After(q, i) == IF i + 1 >= q.size THEN 0 ELSE i + 1

\* The queue is full when its indices meet and it is not empty.
HasRoom(q) == q.empty \/ q.first # q.last

\* A queue without room stays as it is, and the caller is told so.
Put(q, d) ==
    IF HasRoom(q)
    THEN [q EXCEPT !.buf[q.last] = d, !.last = After(q, q.last), !.empty = FALSE]
    ELSE q

\* What ckCircularQueue32Get returns from a queue that is not empty
Oldest(q) == q.buf[q.first]

\* ckCircularQueue32Remove, and ckCircularQueue32Get that does not peek
Remove(q) ==
    IF q.empty THEN q
    ELSE [q EXCEPT !.first = After(q, q.first), !.empty = (After(q, q.first) = q.last)]

-----------------------------------------------------------------------------
(* What the ring stands for. *)

\* A queue of elements of Data that these operations can have made.
IsRing(q, Data) ==
    /\ q.size \in Nat \ {0}
    /\ q = [buf |-> q.buf, size |-> q.size, first |-> q.first, last |-> q.last, empty |-> q.empty]
    /\ q.buf \in [0 .. q.size - 1 -> Data]
    /\ q.first \in 0 .. q.size - 1 /\ q.last \in 0 .. q.size - 1
    /\ q.empty \in BOOLEAN
    /\ q.empty => q.first = q.last

Length(q) ==
    IF q.empty THEN 0
    ELSE IF q.first < q.last THEN q.last - q.first
    ELSE q.size - q.first + q.last

Slot(q, i) == IF q.first + i >= q.size THEN q.first + i - q.size ELSE q.first + i

\* The elements, oldest first.
Contents(q) == [i \in 1 .. Length(q) |-> q.buf[Slot(q, i - 1)]]
=============================================================================
