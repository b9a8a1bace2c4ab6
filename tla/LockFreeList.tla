---------------------------- MODULE LockFreeList ----------------------------
(***************************************************************************)
(* ckLinkedListPushBack_lockfree and ckLinkedListPopFront_lockfree of      *)
(* src/src/linkedlist.c, one step per shared access, with one producer and *)
(* one consumer as linkedlist.h:89-106 asks; or, for the lists that are    *)
(* only used under a lock, the operations of LinkedList; or, for the lists *)
(* of child processes in task.c, these operations against an erase that    *)
(* the idle task makes without the lock.                                   *)
(*                                                                         *)
(* The producers of this kernel (the timer interrupt filling a             *)
(* NoticeQueue, an exiting task filling WaitForExitList) run with          *)
(* interrupts off, so the consumer never sees a push half done;            *)
(* Preemptible = TRUE also covers a producer that may be interrupted, as   *)
(* the header allows.                                                      *)
(***************************************************************************)
EXTENDS LinkedList

CONSTANTS
    Preemptible  \* may the consumer run in the middle of a push?

ASSUME PreemptibleAssumption == Preemptible \in BOOLEAN

VARIABLES
    users,               \* who shares the list: holders of a lock ("locked"), a
                         \* producer and a consumer, or holders and the idle task ("children")
    ppc, pNode, tail,    \* the producer: where it is, its locals
    cpc, ptr, nxt, dnext,\* the consumer: where it is, its locals
    queue,               \* the nodes pushed and not yet popped, in order
    prev,                \* the idle task's erase: what it has read (cpc, ptr and nxt are its too)
    disturbed            \* ... and someone has changed since

listVars == <<pNext, pPrev, size>>
producer == <<ppc, pNode, tail>>
consumer == <<cpc, ptr, nxt, dnext>>
eraser == <<prev, disturbed>>
vars == <<listVars, linked, users, producer, consumer, queue, eraser>>

lockFreeVars == <<producer, consumer, queue, eraser>>

Init ==
    /\ ListInit
    /\ users \in {"locked", "lockfree", "children"}
    /\ ppc = "idle" /\ pNode = Dummy /\ tail = Dummy
    /\ cpc = "idle" /\ ptr = Dummy /\ nxt = Dummy /\ dnext = Dummy
    /\ queue = <<>>
    /\ prev = Dummy /\ disturbed = FALSE

-----------------------------------------------------------------------------
(* The producer. *)

\* The producer pushes a node that is not on the list.
PushBegin(x) ==
    /\ ppc = "idle" /\ ~In(x, queue)
    /\ size' = size + 1
    /\ pNext' = [pNext EXCEPT ![x] = Dummy]
    /\ pNode' = x
    /\ ppc' = "read"
    /\ UNCHANGED <<pPrev, tail, consumer, queue>>

\* tail = dummy->pPrev; pNode->pPrev = tail
PushRead ==
    /\ ppc = "read"
    /\ tail' = pPrev[Dummy]
    /\ pPrev' = [pPrev EXCEPT ![pNode] = pPrev[Dummy]]
    /\ ppc' = "cas"
    /\ UNCHANGED <<pNext, size, pNode, consumer, queue>>

\* The CAS on dummy->pPrev; on failure the loop starts over.
PushCas ==
    /\ ppc = "cas"
    /\ IF pPrev[Dummy] = tail
         THEN pPrev' = [pPrev EXCEPT ![Dummy] = pNode] /\ ppc' = "link"
         ELSE UNCHANGED pPrev /\ ppc' = "read"
    /\ UNCHANGED <<pNext, size, pNode, tail, consumer, queue>>

\* tail->pNext = pNode
PushLink ==
    /\ ppc = "link"
    /\ pNext' = [pNext EXCEPT ![tail] = pNode]
    /\ queue' = Append(queue, pNode)
    /\ ppc' = "idle"
    /\ UNCHANGED <<pPrev, size, pNode, tail, consumer>>

-----------------------------------------------------------------------------
(* The consumer. *)

ConsumerRuns == Preemptible \/ ppc = "idle"

\* ptr = dummy->pNext, unless the list is empty.
PopHead ==
    /\ ConsumerRuns /\ cpc = "idle"
    /\ pNext[Dummy] # Dummy
    /\ ptr' = pNext[Dummy]
    /\ cpc' = "next"
    /\ UNCHANGED <<listVars, producer, nxt, dnext, queue>>

PopNext ==
    /\ ConsumerRuns /\ cpc = "next"
    /\ nxt' = pNext[ptr]
    /\ cpc' = "cas"
    /\ UNCHANGED <<listVars, producer, ptr, dnext, queue>>

\* Mutant: pPrev is overwritten without looking.
PopCas_Store ==
    /\ ConsumerRuns /\ cpc = "cas"
    /\ pPrev' = [pPrev EXCEPT ![nxt] = Dummy]
    /\ cpc' = "head"
    /\ UNCHANGED <<pNext, size, producer, ptr, nxt, dnext, queue>>

\* Mutant: after a lost CAS the next node is not read again.
PopCas_StaleRetry ==
    /\ ConsumerRuns /\ cpc = "cas"
    /\ pPrev[nxt] = ptr
    /\ pPrev' = [pPrev EXCEPT ![nxt] = Dummy]
    /\ cpc' = "head"
    /\ UNCHANGED <<pNext, size, producer, ptr, nxt, dnext, queue>>

\* The CAS on next->pPrev; from here on the node is the consumer's.
PopCas ==
    /\ ConsumerRuns /\ cpc = "cas"
    /\ IF pPrev[nxt] = ptr
         THEN pPrev' = [pPrev EXCEPT ![nxt] = Dummy] /\ cpc' = "head"
         ELSE UNCHANGED pPrev /\ cpc' = "next"
    /\ UNCHANGED <<pNext, size, producer, ptr, nxt, dnext, queue>>

\* dnext = dummy->pNext
PopReadHead ==
    /\ ConsumerRuns /\ cpc = "head"
    /\ dnext' = pNext[Dummy]
    /\ cpc' = "relink"
    /\ UNCHANGED <<listVars, producer, ptr, nxt, queue>>

\* The CAS on dummy->pNext, whose failure is ignored.
PopRelink ==
    /\ ConsumerRuns /\ cpc = "relink"
    /\ pNext' = IF pNext[Dummy] = dnext THEN [pNext EXCEPT ![Dummy] = nxt] ELSE pNext
    /\ cpc' = "size"
    /\ UNCHANGED <<pPrev, size, producer, ptr, nxt, dnext, queue>>

PopReturn ==
    /\ ConsumerRuns /\ cpc = "size"
    /\ size' = size - 1
    /\ queue' = Erase(queue, ptr)
    /\ cpc' = "idle"
    /\ UNCHANGED <<pNext, pPrev, producer, ptr, nxt, dnext>>

-----------------------------------------------------------------------------
(* A list of children: ckLinkedListErase by csCleanupProcess in the idle   *)
(* task, and what others do with the lock between its accesses.            *)

EraseBegin(x) ==
    /\ cpc = "idle" /\ x \in linked
    /\ ptr' = x /\ prev' = pPrev[x] /\ cpc' = "erase"
    /\ UNCHANGED <<listVars, linked, nxt>>

EraseReadNext ==
    /\ cpc = "erase" /\ cpc' = "left"
    /\ nxt' = pNext[ptr]
    /\ UNCHANGED <<listVars, linked, ptr, prev>>

EraseLeft ==
    /\ cpc = "left" /\ cpc' = "right"
    /\ pNext' = [pNext EXCEPT ![prev] = nxt]
    /\ UNCHANGED <<pPrev, size, linked, ptr, nxt, prev>>

EraseRight ==
    /\ cpc = "right" /\ cpc' = "idle"
    /\ pPrev' = [pPrev EXCEPT ![nxt] = prev]
    /\ size' = size - 1 /\ linked' = linked \ {ptr}
    /\ UNCHANGED <<pNext, ptr, nxt, prev>>

\* ckProcessCreate's push, which nothing interrupts, and the erase of a child that
\* another task ends.  Bound: nothing is done to a list after it was disturbed.
LockedBetween ==
    /\ ~disturbed
    /\ \E y \in Nodes :
          /\ cpc # "idle" => y # ptr
          /\ \/ LockedPush(y) /\ disturbed' = (cpc \in {"left", "right"} /\ nxt = Dummy)
             \/ LockedErase(y) /\ disturbed' = (cpc # "idle" /\ (y = prev \/ (cpc # "erase" /\ y = nxt)))
    /\ UNCHANGED <<cpc, ptr, nxt, prev>>

ChildUsers ==
    /\ users = "children"
    /\ \/ LockedBetween
       \/ /\ (\E x \in Nodes : ~disturbed /\ EraseBegin(x)) \/ EraseReadNext \/ EraseLeft \/ EraseRight
          /\ UNCHANGED disturbed
    /\ UNCHANGED <<users, producer, dnext, queue>>

LockedUsers == users = "locked" /\ Locked /\ UNCHANGED <<users, lockFreeVars>>

Pusher == PushRead \/ PushCas \/ PushLink
Popper == PopNext \/ PopCas \/ PopReadHead \/ PopRelink \/ PopReturn

LockFreeUsers ==
    /\ users = "lockfree"
    /\ (\E x \in Nodes : PushBegin(x)) \/ Pusher \/ PopHead \/ Popper
    /\ UNCHANGED <<users, linked, eraser>>

Next == LockedUsers \/ LockFreeUsers \/ ChildUsers

Spec == Init /\ [][Next]_vars

\* The lock is not fair; a producer or consumer that has begun goes on.
FairSpec ==
    /\ Spec
    /\ WF_vars(Pusher /\ UNCHANGED <<users, linked, eraser>>)
    /\ WF_vars(Popper /\ UNCHANGED <<users, linked, eraser>>)

-----------------------------------------------------------------------------
(* Properties. *)

Quiet == ppc = "idle" /\ cpc = "idle"

\* "The size may be invalid while a lock-free function runs in another thread,
\* but must be valid once that function has finished" (linkedlist.h:57-58);
\* under a lock the list is whole after every operation.  A list of children is
\* whole after the idle task's erase exactly if nobody took a neighbour it had
\* read off the list, or put a child behind the last one that it was erasing.
ListWhole ==
    CASE users = "locked" -> WellLinked
      [] users = "lockfree" -> Quiet => size = Len(queue)
      [] users = "children" -> cpc = "idle" => WellLinked = ~disturbed

\* Under a lock the pointers implement the ordered list its users rely on
\* (linkedlist.h:49).
Queue == INSTANCE Fifo WITH list <- IF users = "locked" THEN Forward ELSE <<>>
QueueSpec == Queue!Spec

\* The retry loop of a pop ends (linkedlist.c:65-75).
PopReturns == users = "lockfree" /\ cpc # "idle" ~> cpc = "idle"

\* The consumer has won its CAS: the node is no longer on the queue.
Taken == users = "lockfree" /\ cpc \in {"head", "relink", "size"}
Waiting == IF Taken THEN Tail(queue) ELSE queue
Exit == INSTANCE ExitQueue WITH
    queue <- Waiting,
    item <- IF Taken THEN ptr ELSE Dummy,
    phase <- IF ~Taken THEN "idle"
             ELSE IF cpc = "head" /\ nxt = Dummy THEN "link" ELSE "taken",
    cut <- IF cpc = "head" THEN FALSE
           ELSE IF cpc = "relink" THEN nxt = Dummy /\ dnext # ptr
           ELSE users = "lockfree" /\ pNext[Dummy] = Dummy /\ Waiting # <<>>,
    NULL <- Dummy

\* However pushes and pops interleave, the list implements ExitQueue, the queue
\* with one window in which a push cuts it (linkedlist.c:34-78).
ExitSpec == Exit!Spec
=============================================================================
