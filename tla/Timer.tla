------------------------------- MODULE Timer --------------------------------
(***************************************************************************)
(* The time-outs of src/src/timer.c: ckTimerSet, called by tasks with the  *)
(* interrupts locked, against the timer interrupt and the task that takes  *)
(* notices from the queue.  The notice queue is a NodeList: its lock-free  *)
(* operations are the business of LockFreeList.                            *)
(*                                                                         *)
(* TickCountHigh is left out, and so is the sentinel at the end of the     *)
(* list: ckTimerSet gives it the largest distance from the current tick,   *)
(* so that a search always ends there at the latest.                       *)
(***************************************************************************)
EXTENDS NodeList, FiniteSets

CONSTANTS
    TimeOuts,  \* the TimeOut structures of the callers
    Word,      \* 2^32, the number of values of TickCountLow
    MaxAhead,  \* how far ahead callers set time-outs
    Misuses    \* the kinds of calls the interrupt handler does not expect

ASSUME WordAssumption == Word \in Nat /\ MaxAhead \in Nat /\ 0 < MaxAhead /\ MaxAhead < Word
ASSUME TimeOutsAssumption == IsFiniteSet(TimeOuts)
ASSUME MisusesAssumption == Misuses \subseteq {"same tick", "current tick", "first ticks"}

VARIABLES
    tick,      \* TimerStruct::TickCountLow
    timeout,   \* TimeOut::timeout
    pending,   \* the list at TimerStruct::pTimeOutHead, up to the sentinel
    notices,   \* the time-outs on the NoticeQueue
    fault      \* the handler took the queue for a due time-out

vars == <<tick, timeout, pending, notices, fault>>

Init ==
    /\ tick = 0
    /\ timeout = [t \in TimeOuts |-> 0]
    /\ pending = <<>>
    /\ notices = <<>>
    /\ fault = FALSE

\* timeout - tick in uint32_t
Ahead(x) == (x - tick) % Word

\* Mutant: absolute tick counts are compared.
Place_Absolute(x) ==
    LET later == {i \in 1 .. Len(pending) : x <= timeout[pending[i]]}
    IN  IF later = {} THEN Len(pending) + 1
        ELSE CHOOSE i \in later : \A j \in later : i <= j

\* Where ckTimerSet links a time-out for tick x: before the first that is at
\* least as far ahead.
Place(x) ==
    LET later == {i \in 1 .. Len(pending) : Ahead(x) <= Ahead(timeout[pending[i]])}
    IN  IF later = {} THEN Len(pending) + 1
        ELSE CHOOSE i \in later : \A j \in later : i <= j

\* Tick x is one the handler expects: ahead, not taken by another time-out, and
\* not one of the first after a wrap, which the queue's length can equal.
Expected(x) ==
    /\ Ahead(x) # 0 \/ "current tick" \in Misuses
    /\ (\A i \in 1 .. Len(pending) : timeout[pending[i]] # x) \/ "same tick" \in Misuses
    /\ x \notin 1 .. Cardinality(TimeOuts) \/ "first ticks" \in Misuses

\* Mutant: the new time-out does not link to the rest of the list.
Set_CutOff(t, n) ==
    LET x == (tick + n) % Word
    IN  /\ ~fault /\ ~In(t, pending) /\ ~In(t, notices) /\ Expected(x)
        /\ timeout' = [timeout EXCEPT ![t] = x]
        /\ pending' = SubSeq(pending, 1, Place(x) - 1) \o <<t>>
        /\ UNCHANGED <<tick, notices, fault>>

\* ckTimerSet of a time-out that is neither set nor on the queue.
Set(t, n) ==
    LET x == (tick + n) % Word
        k == Place(x)
    IN  /\ ~fault
        /\ ~In(t, pending) /\ ~In(t, notices)
        /\ Expected(x)
        /\ timeout' = [timeout EXCEPT ![t] = x]
        /\ pending' = SubSeq(pending, 1, k - 1) \o <<t>> \o SubSeq(pending, k, Len(pending))
        /\ UNCHANGED <<tick, notices, fault>>

Due(low) == pending # <<>> /\ timeout[Head(pending)] = low

(***************************************************************************)
(* ck_TimerIntHandler.  A due time-out is pushed on its queue, which       *)
(* overwrites pNextTimeOut, as NoticeNode shares its storage, with the     *)
(* queue itself; the loop goes on there, and compares the length of the    *)
(* queue, which lies where a time-out has its tick, with the tick count.   *)
(***************************************************************************)
Interrupt ==
    LET low == (tick + 1) % Word
    IN  /\ ~fault
        /\ tick' = low
        /\ IF Due(low)
             THEN /\ pending' = Tail(pending)
                  /\ notices' = Append(notices, Head(pending))
                  /\ fault' = (low = Len(notices'))
             ELSE UNCHANGED <<pending, notices, fault>>
        /\ UNCHANGED timeout

\* The owner of the queue takes a notice, and may then set the time-out again.
Take ==
    /\ notices # <<>> /\ ~fault
    /\ notices' = Tail(notices)
    /\ UNCHANGED <<tick, timeout, pending, fault>>

Next == (\E t \in TimeOuts, n \in 0 .. MaxAhead : Set(t, n)) \/ Interrupt \/ Take

Spec == Init /\ [][Next]_vars

\* The PIT interrupts again and again; a pending interrupt is not lost.
FairSpec == Spec /\ WF_vars(Interrupt)

-----------------------------------------------------------------------------
(* Properties. *)

\* A time-out occurs at the tick count it is set for: none is still on the list
\* after its tick (timer.h:71, "the tick count at which the time-out occurs").
NoneOverdue == ~fault /\ \A i \in 1 .. Len(pending) : Ahead(timeout[pending[i]]) # 0

\* Every time-out is noticed, whatever is set after it (timer.h:95-97), and none is
\* ever on the list and the queue, or on one of them twice: they share its storage
\* (timer.h:65-69).
Noticed ==
    /\ []Distinct(pending \o notices)
    /\ \A t \in TimeOuts : In(t, pending) ~> In(t, notices)

\* The handler and the list implement a countdown for each time-out.
Promise == INSTANCE Countdown WITH
    left <- [t \in {pending[i] : i \in 1 .. Len(pending)} |-> Ahead(timeout[t])],
    Ticks <- 1 .. MaxAhead
CountdownSpec == Promise!Spec
=============================================================================
