----------------------------- MODULE LinkedList -----------------------------
(***************************************************************************)
(* The circular doubly linked list of src/src/linkedlist.h, one step per   *)
(* operation: every user but the consumer of a lock-free queue holds the   *)
(* interrupt lock.  A node that is on no list keeps the pointers it had    *)
(* when it left, as nothing in the source clears them.                     *)
(***************************************************************************)
EXTENDS NodeList, FiniteSets

CONSTANTS
    Nodes,  \* the nodes callers own
    Dummy   \* LinkedList::dummy

ASSUME DummyAssumption == Dummy \notin Nodes
ASSUME NodesAssumption == IsFiniteSet(Nodes)

Cells == Nodes \cup {Dummy}

VARIABLES
    pNext,  \* LinkedListNode::pNext
    pPrev,  \* LinkedListNode::pPrev
    size,   \* LinkedList::size
    linked  \* the nodes their owners have put on the list and not taken off

lockedVars == <<pNext, pPrev, size, linked>>

\* ckLinkedListInit; zeroed memory of the other nodes is shown as Dummy.
ListInit ==
    /\ pNext = [c \in Cells |-> Dummy]
    /\ pPrev = [c \in Cells |-> Dummy]
    /\ size = 0
    /\ linked = {}

\* Mutant: the node is linked at the front.
LockedPush_Front(x) ==
    LET head == pNext[Dummy]
    IN  /\ x \notin linked
        /\ size' = size + 1
        /\ pNext' = [pNext EXCEPT ![x] = head, ![Dummy] = x]
        /\ pPrev' = [pPrev EXCEPT ![x] = Dummy, ![head] = x]
        /\ linked' = linked \cup {x}

\* ckLinkedListPushBack of a node that is on no list.
LockedPush(x) ==
    LET tail == pPrev[Dummy]
    IN  /\ x \notin linked
        /\ size' = size + 1
        /\ pPrev' = [pPrev EXCEPT ![x] = tail, ![Dummy] = x]
        /\ pNext' = [pNext EXCEPT ![x] = Dummy, ![tail] = x]
        /\ linked' = linked \cup {x}

\* ckLinkedListPopFront; from an empty list it takes nothing.
LockedPop ==
    LET ptr == pNext[Dummy]
        next == pNext[ptr]
    IN  /\ ptr # Dummy
        /\ pNext' = [pNext EXCEPT ![Dummy] = next]
        /\ pPrev' = [pPrev EXCEPT ![next] = Dummy]
        /\ size' = size - 1
        /\ linked' = linked \ {ptr}

\* Mutant: only the forward link is joined.
LockedErase_Forward(x) ==
    /\ x \in linked
    /\ pNext' = [pNext EXCEPT ![pPrev[x]] = pNext[x]]
    /\ size' = size - 1
    /\ linked' = linked \ {x}
    /\ UNCHANGED pPrev

\* ckLinkedListErase of a node of the list.
LockedErase(x) ==
    LET prev == pPrev[x]
        next == pNext[x]
    IN  /\ x \in linked
        /\ pNext' = [pNext EXCEPT ![prev] = next]
        /\ pPrev' = [pPrev EXCEPT ![next] = prev]
        /\ size' = size - 1
        /\ linked' = linked \ {x}

Locked ==
    \/ \E x \in Nodes : LockedPush(x) \/ LockedErase(x)
    \/ LockedPop

-----------------------------------------------------------------------------
(* Properties. *)

\* The i-th cell after Dummy along pointer p.
Walk(p) ==
    LET w[i \in 0 .. Cardinality(Nodes)] ==
            IF i = 0 THEN p[Dummy] ELSE p[w[i - 1]]
    IN  w

\* The nodes met along pNext before Dummy is met again.
Forward ==
    LET w == Walk(pNext)
        n == CHOOSE k \in DOMAIN w : w[k] = Dummy /\ \A i \in 0 .. k - 1 : w[i] # Dummy
    IN  [i \in 1 .. n |-> w[i - 1]]

\* The walk comes back to Dummy after exactly the nodes on the list, pPrev
\* inverts pNext, and size counts them: an erase by any owner leaves the list
\* whole for all others (linkedlist.h:113-160).
WellLinked ==
    /\ \E k \in 0 .. Cardinality(Nodes) : Walk(pNext)[k] = Dummy
    /\ {Forward[i] : i \in DOMAIN Forward} = linked
    /\ \A c \in linked \cup {Dummy} : pPrev[pNext[c]] = c
    /\ size = Cardinality(linked)
=============================================================================
