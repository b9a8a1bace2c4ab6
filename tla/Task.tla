-------------------------------- MODULE Task --------------------------------
(***************************************************************************)
(* Tasks, processes and the scheduler of src/src/task.c on its single CPU. *)
(*                                                                         *)
(* A ck* call runs between INTERRUPT_LOCK and INTERRUPT_UNLOCK, so it is   *)
(* one step of the running task pNow; ckTaskTerminate_internal is a chain  *)
(* of steps (one per joiner, then the unlinking) that nothing interrupts:  *)
(* while "dying" is set no other action is enabled.  The timer interrupt   *)
(* may come before any other step.  The idle task's clean-up loop is not   *)
(* locked, so each of its steps can be separated by a preemption.          *)
(*                                                                         *)
(* A task is the index of its slot in TaskStruct::tasks, and an argument   *)
(* "id" is the slot it resolves to in csGetTaskFromId (a call whose id     *)
(* resolves to nothing changes nothing).  CPU-time accounting and the FPU  *)
(* context are left to modules of their own.                               *)
(***************************************************************************)
EXTENDS NodeList

CONSTANTS
    MaxTask,    \* MAX_TASK
    MaxProc,    \* MAX_PROCESS
    NumPrio,    \* COUNT_TASK_PRIORITY; the idle task has the last one
    KernelPrio, \* KERNEL_TASK_PRIORITY
    UserPrios,  \* the priorities callers ask for
    Quantum,    \* TASK_QUANTUM
    WordMax,    \* the largest uint32_t
    Api,        \* the kinds of calls tasks make, a subset of Calls
    NULL        \* the null pointer

Tasks == 0 .. MaxTask - 1
Procs == 0 .. MaxProc - 1
Prios == 0 .. NumPrio - 1
Kernel == 0
Idle == 1
KernelProc == 0
IdlePrio == NumPrio - 1

(***************************************************************************)
(* Calls every caller may make, and calls the interface accepts although   *)
(* the implementation does not expect them; each of the latter widens the  *)
(* guard of one action and is enabled only to show what it leads to.       *)
(***************************************************************************)
ProperCalls == {"process", "threads", "priority", "suspend", "join"}
Misuses == {"suspend other", "terminate suspended", "resume joiner",
            "create when full", "prioritise waiting"}
Calls == ProperCalls \cup Misuses

ASSUME SizesAssumption ==
    /\ MaxTask \in Nat /\ MaxTask > 2
    /\ MaxProc \in Nat /\ MaxProc > 0
    /\ NumPrio \in Nat /\ NumPrio > 0
    /\ KernelPrio \in Prios
    /\ UserPrios \subseteq Prios
    /\ Quantum \in Nat /\ Quantum > 0
    /\ WordMax \in Nat /\ WordMax >= Quantum

ASSUME NullAssumption == NULL \notin Tasks /\ NULL \notin Procs

ASSUME ApiAssumption == Api \subseteq Calls

VARIABLES
    used,         \* slots whose selector is not 0
    flag,         \* Task::flag
    priority,     \* Task::priority
    waitObj,      \* Task::WaitObj, the task this one joins
    waitMe,       \* Task::WaitMeList, those who join it
    pProcess,     \* Task::pProcess
    stack,        \* slots whose heap stack is allocated
    readyList,    \* TaskStruct::ReadyList, by priority
    waitList,     \* TaskStruct::WaitList
    exitList,     \* TaskStruct::WaitForExitList
    exitCut,      \* its head pointer no longer leads to its nodes
    executeCount, \* TaskStruct::ExecuteCount
    pNow,         \* TaskStruct::pNow
    remainQuantum,\* TaskStruct::RemainQuantum
    threads,      \* Process::ThreadList, as a set: its order is never read
    pMainThread,  \* Process::pMainThread
    pageDir,      \* Process::PageDirectory: "null", "live" or "freed"
    dying,        \* the task ckTaskTerminate_internal is working on
    idlePc,       \* where the idle task is in its clean-up loop
    idleTask,     \* csIdleTask's pTask
    fault         \* "none", a failed assertion, or a list misused

listVars == <<readyList, waitList, exitList, exitCut>>
procVars == <<threads, pMainThread, pageDir>>
schedVars == <<executeCount, pNow, remainQuantum>>
idleVars == <<idlePc, idleTask>>
vars == <<used, flag, priority, waitObj, waitMe, pProcess, stack, listVars,
          schedVars, procVars, dying, idleVars, fault>>

Flags == {"RUNNING", "READY", "WAIT", "WAITFOREXIT"}

-----------------------------------------------------------------------------
(* Lists of task nodes. *)

\* Erasing a node from a list it is not on corrupts the list's size.
EraseFault(s, t) == IF In(t, s) THEN "none" ELSE "list"

\* csGetTaskFromId succeeds for the current id of such a slot.
Resolves(t) == t \in used /\ flag[t] # "WAITFOREXIT"

\* csGetProcessFromId
ProcResolves(p) == pageDir[p] # "null" /\ pMainThread[p] # NULL

-----------------------------------------------------------------------------
(***************************************************************************)
(* ckTaskSchedule_internal, from ready lists rl and flags fl: the first    *)
(* level whose ExecuteCount is below its list's length, the counts above   *)
(* it starting over; if there is none all start over and the first         *)
(* non-empty level is taken.                                               *)
(***************************************************************************)
Eligible(rl) == {i \in Prios : executeCount[i] < Len(rl[i])}
NonEmpty(rl) == {i \in Prios : rl[i] # <<>>}

Topmost(S) == CHOOSE i \in S : \A j \in S : i <= j

PickedLevel(rl) ==
    IF Eligible(rl) # {} THEN Topmost(Eligible(rl)) ELSE Topmost(NonEmpty(rl))

\* Mutant: a level's count is never advanced.
CountsAfter_NoCount(rl) == [i \in Prios |-> 0]

CountsAfter(rl) ==
    LET p == PickedLevel(rl)
    IN  IF Eligible(rl) # {}
          THEN [i \in Prios |-> IF i < p THEN 0
                                ELSE IF i = p THEN executeCount[i] + 1
                                ELSE executeCount[i]]
          ELSE [i \in Prios |-> IF NonEmpty(rl) # {} /\ i = p THEN 1 ELSE 0]

\* Mutant: a task that gave up the CPU for good is queued again.
Requeue_Always(rl, fl) == [rl EXCEPT ![priority[pNow]] = Append(@, pNow)]

\* Mutant: the previous task is forgotten.
Requeue_Never(rl, fl) == rl

\* The previous task goes to the back of its level if it still runs.
Requeue(rl, fl) ==
    IF fl[pNow] = "RUNNING"
      THEN [rl EXCEPT ![priority[pNow]] = Append(@, pNow)] ELSE rl

\* left is what the caller has made of RemainQuantum: it stays if nothing is ready.
Schedule(rl, fl, left) ==
    /\ executeCount' = CountsAfter(rl)
    /\ IF NonEmpty(rl) = {}
         THEN /\ readyList' = rl
              /\ flag' = fl
              /\ remainQuantum' = left
              /\ UNCHANGED pNow
         ELSE LET p == PickedLevel(rl)
                  t == Head(rl[p])
                  parked == IF fl[pNow] = "RUNNING"
                              THEN [fl EXCEPT ![pNow] = "READY"] ELSE fl
              IN  /\ readyList' = Requeue([rl EXCEPT ![p] = Tail(@)], fl)
                  /\ flag' = [parked EXCEPT ![t] = "RUNNING"]
                  /\ pNow' = t
                  /\ remainQuantum' = Quantum

\* No call is in progress, nothing has gone wrong.
Running == dying = NULL /\ fault = "none"

\* A task other than the two system tasks is running and makes a call.
UserRuns == Running /\ pNow \notin {Kernel, Idle}

-----------------------------------------------------------------------------
\* ckTaskStructInitialize: the kernel task runs, the idle task is ready.
Init ==
    /\ used = {Kernel, Idle}
    /\ flag = [t \in Tasks |-> IF t = Idle THEN "READY" ELSE "RUNNING"]
    /\ priority = [t \in Tasks |-> IF t = Kernel THEN KernelPrio
                                  ELSE IF t = Idle THEN IdlePrio ELSE 0]
    /\ waitObj = [t \in Tasks |-> NULL]
    /\ waitMe = [t \in Tasks |-> <<>>]
    /\ pProcess = [t \in Tasks |-> IF t \in used THEN KernelProc ELSE NULL]
    /\ stack = {}
    /\ readyList = [p \in Prios |-> IF p = IdlePrio THEN <<Idle>> ELSE <<>>]
    /\ waitList = <<>>
    /\ exitList = <<>>
    /\ exitCut = FALSE
    /\ executeCount = [p \in Prios |-> IF p = KernelPrio THEN 1 ELSE 0]
    /\ pNow = Kernel
    /\ remainQuantum = Quantum
    /\ threads = [p \in Procs |-> IF p = KernelProc THEN {Kernel, Idle} ELSE {}]
    /\ pMainThread = [p \in Procs |-> IF p = KernelProc THEN Kernel ELSE NULL]
    /\ pageDir = [p \in Procs |-> IF p = KernelProc THEN "live" ELSE "null"]
    /\ dying = NULL
    /\ idlePc = "pop"
    /\ idleTask = NULL
    /\ fault = "none"

FreeSlots == {t \in Tasks : t > 1 /\ t \notin used}

\* The ThreadLists once t is on that of p.
Enlisted(th, p, t) == [th EXCEPT ![p] = @ \cup {t}]

\* ckTaskCreate_unsafe on a free slot, given the new ThreadLists.
NewTask(p, prio, th) ==
    LET t == Topmost(FreeSlots)
    IN  /\ used' = used \cup {t}
        /\ flag' = [flag EXCEPT ![t] = "READY"]
        /\ priority' = [priority EXCEPT ![t] = prio]
        /\ waitObj' = [waitObj EXCEPT ![t] = NULL]
        /\ waitMe' = [waitMe EXCEPT ![t] = <<>>]
        /\ pProcess' = [pProcess EXCEPT ![t] = p]
        /\ threads' = Enlisted(th, p, t)
        /\ stack' = stack \cup {t}
        /\ readyList' = [readyList EXCEPT ![prio] = Append(@, t)]

\* ckTaskCreate by any task but idle.  With no free slot it changes nothing.
Create(p, prio) ==
    /\ Running /\ pNow # Idle
    /\ ProcResolves(p)
    /\ p = KernelProc \/ "threads" \in Api
    /\ FreeSlots # {}
    /\ NewTask(p, prio, threads)
    /\ UNCHANGED <<waitList, exitList, exitCut, schedVars, pMainThread,
                   pageDir, dying, idleVars, fault>>

\* ckProcessCreate.  With no free task slot the new process takes the last
\* slot of the table for its main thread, as ckTaskCreate_unsafe returns it.
CreateProcess(parent, prio) ==
    LET free == {q \in Procs : pageDir[q] = "null"}
        p == Topmost(free)
    IN  /\ UserRuns /\ "process" \in Api
        /\ ProcResolves(parent) /\ free # {}
        /\ pageDir' = [pageDir EXCEPT ![p] = "live"]
        /\ IF FreeSlots # {}
             THEN /\ NewTask(p, prio, [threads EXCEPT ![p] = {}])
                  /\ pMainThread' = [pMainThread EXCEPT ![p] = Topmost(FreeSlots)]
             ELSE /\ "create when full" \in Api
                  /\ threads' = [threads EXCEPT ![p] = {}]
                  /\ pMainThread' = [pMainThread EXCEPT ![p] = MaxTask - 1]
                  /\ UNCHANGED <<used, flag, priority, waitObj, waitMe,
                                 pProcess, stack, readyList>>
        /\ UNCHANGED <<waitList, exitList, exitCut, schedVars, dying,
                       idleVars, fault>>

-----------------------------------------------------------------------------
(* Termination. *)

\* Entering ckTaskTerminate_internal with t.
BeginTerminate(t) ==
    /\ UserRuns
    /\ Resolves(t) /\ t \notin {Kernel, Idle}
    /\ \/ flag[t] # "WAIT" \/ waitObj[t] # NULL
       \/ "terminate suspended" \in Api
    /\ dying' = t
    /\ UNCHANGED <<used, flag, priority, waitObj, waitMe, pProcess, stack,
                   listVars, schedVars, procVars, idleVars, fault>>

TerminateTask(t) == BeginTerminate(t)

TerminateProcess(p) ==
    /\ p # KernelProc /\ ProcResolves(p)
    /\ BeginTerminate(pMainThread[p])

\* Mutant: the woken task is queued at the waker's level.
Wakes_WrongLevel(u) ==
    /\ flag[u] = "WAIT"
    /\ waitList' = Erase(waitList, u)
    /\ flag' = [flag EXCEPT ![u] = "READY"]
    /\ readyList' = [readyList EXCEPT ![priority[pNow]] = Append(@, u)]
    /\ fault' = EraseFault(waitList, u)

\* ckTaskResume_byptr for a task in WAIT; in another state it does nothing.
Wakes(u) ==
    IF flag[u] = "WAIT"
      THEN /\ waitList' = Erase(waitList, u)
           /\ flag' = [flag EXCEPT ![u] = "READY"]
           /\ readyList' = [readyList EXCEPT ![priority[u]] = Append(@, u)]
           /\ fault' = EraseFault(waitList, u)
      ELSE UNCHANGED <<waitList, flag, readyList, fault>>

\* One round of the loop over WaitMeList.  The list is dead after the loop
\* (it is initialised before its next use), so its nodes leave it here.
WakeJoiner ==
    /\ dying # NULL /\ fault = "none"
    /\ waitMe[dying] # <<>>
    /\ LET u == Head(waitMe[dying])
       IN  /\ waitMe' = [waitMe EXCEPT ![dying] = Tail(@)]
           /\ waitObj' = [waitObj EXCEPT ![u] = NULL]
           /\ Wakes(u)
    /\ UNCHANGED <<used, priority, pProcess, stack, exitList, exitCut,
                   schedVars, procVars, dying, idleVars>>

\* Mutant: the process keeps pointing at its main thread.
LeaveProcess_KeepMain(t) ==
    IF pMainThread[pProcess[t]] = t
      THEN UNCHANGED <<pMainThread, threads, pProcess>>
      ELSE /\ threads' = [threads EXCEPT ![pProcess[t]] = @ \ {t}]
           /\ pProcess' = [pProcess EXCEPT ![t] = NULL]
           /\ UNCHANGED pMainThread

\* A main thread leaves its process without one; another thread leaves the
\* process.  proc = NULL is pProcess read after that.
LeaveProcess(t) ==
    LET p == pProcess[t]
    IN  IF pMainThread[p] = t
          THEN /\ pMainThread' = [pMainThread EXCEPT ![p] = NULL]
               /\ UNCHANGED <<threads, pProcess>>
          ELSE /\ threads' = [threads EXCEPT ![p] = @ \ {t}]
               /\ pProcess' = [pProcess EXCEPT ![t] = NULL]
               /\ UNCHANGED pMainThread

\* csCleanupProcess of the process t was the main thread of.
CleanupProcess(p) == pageDir' = [pageDir EXCEPT ![p] = "freed"]

\* The running task terminates itself and is queued for the idle task.
TerminateSelf ==
    /\ dying = pNow /\ fault = "none"
    /\ waitMe[dying] = <<>>
    /\ LeaveProcess(dying)
    /\ exitList' = Append(exitList, dying)
    /\ Schedule(readyList, [flag EXCEPT ![dying] = "WAITFOREXIT"], remainQuantum)
    /\ fault' = IF waitObj[dying] = NULL THEN "none" ELSE "assert"
    /\ dying' = NULL
    /\ UNCHANGED <<used, priority, waitObj, waitMe, stack, waitList, exitCut,
                   pageDir, idleVars>>

\* Mutant: the joiner's node stays on its target's list.
UnlinkWaiting_KeepNode(t) ==
    /\ waitObj[t] # NULL
    /\ waitObj' = [waitObj EXCEPT ![t] = NULL]
    /\ waitList' = Erase(waitList, t)
    /\ fault' = IF flag[t] # "WAIT" THEN "assert" ELSE EraseFault(waitList, t)
    /\ UNCHANGED <<readyList, waitMe>>

\* Another task is unlinked from what it waits for or from its ready list,
\* and its slot is freed at once.
UnlinkWaiting(t) ==
    /\ waitObj[t] # NULL
    /\ waitMe' = [waitMe EXCEPT ![waitObj[t]] = Erase(@, t)]
    /\ waitObj' = [waitObj EXCEPT ![t] = NULL]
    /\ waitList' = Erase(waitList, t)
    /\ fault' = IF flag[t] # "WAIT" THEN "assert"
                ELSE IF In(t, waitMe[waitObj[t]]) THEN EraseFault(waitList, t)
                ELSE "list"
    /\ UNCHANGED readyList

UnlinkReady(t) ==
    /\ waitObj[t] = NULL
    /\ readyList' = [readyList EXCEPT ![priority[t]] = Erase(@, t)]
    /\ fault' = IF flag[t] # "READY" THEN "assert"
                ELSE EraseFault(readyList[priority[t]], t)
    /\ UNCHANGED <<waitMe, waitObj, waitList>>

TerminateOther ==
    /\ dying # NULL /\ dying # pNow /\ fault = "none"
    /\ waitMe[dying] = <<>>
    /\ LeaveProcess(dying)
    /\ UnlinkWaiting(dying) \/ UnlinkReady(dying)
    /\ LET p == pProcess[dying]
       IN  IF pMainThread[p] = dying THEN CleanupProcess(p)
                                     ELSE UNCHANGED pageDir
    /\ stack' = stack \ {dying}
    /\ used' = used \ {dying}
    /\ dying' = NULL
    /\ UNCHANGED <<flag, priority, exitList, exitCut, schedVars, idleVars>>

-----------------------------------------------------------------------------
(* Priority, suspension, joining. *)

\* A ready task moves to the other level's list; so does one that waits, although
\* its node is on WaitList.
ChangePriority(t, prio) ==
    /\ UserRuns /\ "priority" \in Api
    /\ Resolves(t) /\ priority[t] # prio
    /\ flag[t] # "WAIT" \/ "prioritise waiting" \in Api
    /\ priority' = [priority EXCEPT ![t] = prio]
    /\ IF t = pNow
         THEN UNCHANGED <<readyList, fault>>
         ELSE /\ readyList' = [readyList EXCEPT
                                 ![priority[t]] = Erase(@, t),
                                 ![prio] = Append(@, t)]
              /\ fault' = EraseFault(readyList[priority[t]], t)
    /\ UNCHANGED <<used, flag, waitObj, waitMe, pProcess, stack, waitList,
                   exitList, exitCut, schedVars, procVars, dying, idleVars>>

\* ckTaskSuspend_byptr.  The node pushed on WaitList is that of pNow, even
\* when another task is suspended; the running task gives up the CPU.
SuspendByPtr(t) ==
    LET rl == IF flag[t] = "READY"
                THEN [readyList EXCEPT ![priority[t]] = Erase(@, t)]
                ELSE readyList
        fl == [flag EXCEPT ![t] = "WAIT"]
    IN  /\ waitList' = Append(waitList, pNow)
        /\ IF flag[t] = "RUNNING"
             THEN Schedule(rl, fl, remainQuantum)
             ELSE /\ readyList' = rl
                  /\ flag' = fl
                  /\ UNCHANGED schedVars
        /\ fault' = IF flag[t] = "READY"
                      THEN EraseFault(readyList[priority[t]], t) ELSE "none"

Suspend(t) ==
    /\ UserRuns /\ "suspend" \in Api
    /\ Resolves(t) /\ t \notin {Kernel, Idle} /\ flag[t] # "WAIT"
    /\ t = pNow \/ "suspend other" \in Api
    /\ SuspendByPtr(t)
    /\ UNCHANGED <<used, priority, waitObj, waitMe, pProcess, stack, exitList,
                   exitCut, procVars, dying, idleVars>>

Resume(t) ==
    /\ UserRuns /\ "suspend" \in Api
    /\ Resolves(t) /\ t \notin {Kernel, Idle} /\ flag[t] = "WAIT"
    /\ waitObj[t] = NULL \/ "resume joiner" \in Api
    /\ Wakes(t)
    /\ UNCHANGED <<used, priority, waitObj, waitMe, pProcess, stack, exitList,
                   exitCut, schedVars, procVars, dying, idleVars>>

\* Mutant: the node is linked into the caller's own list.
Wait_OwnList(t) ==
    /\ UserRuns /\ "join" \in Api /\ waitObj[pNow] = NULL
    /\ waitObj' = [waitObj EXCEPT ![pNow] = t]
    /\ waitMe' = [waitMe EXCEPT ![pNow] = Append(@, pNow)]
    /\ SuspendByPtr(pNow)
    /\ UNCHANGED <<used, priority, pProcess, stack, exitList, exitCut,
                   procVars, dying, idleVars>>

\* The running task waits for t, asserting that it waits for nothing else.
Wait(t) ==
    /\ UserRuns /\ "join" \in Api
    /\ IF waitObj[pNow] = NULL
         THEN /\ waitObj' = [waitObj EXCEPT ![pNow] = t]
              /\ waitMe' = [waitMe EXCEPT ![t] = Append(@, pNow)]
              /\ SuspendByPtr(pNow)
         ELSE /\ fault' = "assert"
              /\ UNCHANGED <<waitObj, waitMe, flag, readyList, waitList, schedVars>>
    /\ UNCHANGED <<used, priority, pProcess, stack, exitList, exitCut,
                   procVars, dying, idleVars>>

Join(t) == Resolves(t) /\ Wait(t)

JoinProcess(p) == ProcResolves(p) /\ Wait(pMainThread[p])

-----------------------------------------------------------------------------
(* Giving up the CPU, and losing it. *)

\* ckTaskSchedule, or the timer's call of ckTaskSchedule_internal.
Switch(left) ==
    /\ Schedule(readyList, flag, left)
    /\ UNCHANGED <<used, priority, waitObj, waitMe, pProcess, stack, waitList,
                   exitList, exitCut, procVars, dying, idleTask, fault>>

Yield == Running /\ pNow # Idle /\ Switch(remainQuantum) /\ UNCHANGED idlePc

Decremented == IF remainQuantum = 0 THEN WordMax ELSE remainQuantum - 1

\* ckTaskScheduleOnTimerInt
Expire == Running /\ Decremented = 0 /\ Switch(0) /\ UNCHANGED idlePc

CountDown ==
    /\ Running /\ Decremented # 0
    /\ remainQuantum' = Decremented
    /\ UNCHANGED <<used, flag, priority, waitObj, waitMe, pProcess, stack,
                   listVars, executeCount, pNow, procVars, dying, idleVars,
                   fault>>

Tick == Expire \/ CountDown

-----------------------------------------------------------------------------
(***************************************************************************)
(* The idle task's clean-up loop.  ckLinkedListPopFront_lockfree first     *)
(* redirects the next node's pPrev (a CAS, retried while pushes beat it),  *)
(* then the head's pNext.  When it takes the only node, a task that exits  *)
(* between the two links itself after the head, and the second step then   *)
(* points the head back at itself: the list looks empty from then on.      *)
(***************************************************************************)
IdleRuns == Running /\ pNow = Idle

unchangedByIdle == <<flag, priority, waitObj, waitMe, readyList, waitList,
                     schedVars, dying, fault>>

IdlePop ==
    /\ IdleRuns /\ idlePc = "pop"
    /\ IF exitList = <<>> \/ exitCut
         THEN /\ idlePc' = "yield"
              /\ UNCHANGED <<exitList, idleTask>>
         ELSE /\ idleTask' = Head(exitList)
              /\ exitList' = Tail(exitList)
              /\ idlePc' = IF Len(exitList) = 1 THEN "link" ELSE "reap"
    /\ UNCHANGED <<unchangedByIdle, used, stack, pProcess, procVars, exitCut>>

IdleLink ==
    /\ IdleRuns /\ idlePc = "link"
    /\ exitCut' = (exitList # <<>>)
    /\ idlePc' = "reap"
    /\ UNCHANGED <<unchangedByIdle, used, stack, pProcess, procVars, exitList,
                   idleTask>>

\* csCleanupProcess, if the task was the main thread of a process.
IdleReap ==
    /\ IdleRuns /\ idlePc = "reap"
    /\ IF pProcess[idleTask] # NULL THEN CleanupProcess(pProcess[idleTask])
                                    ELSE UNCHANGED pageDir
    /\ idlePc' = "free"
    /\ UNCHANGED <<unchangedByIdle, used, stack, pProcess, threads, pMainThread,
                   exitList, exitCut, idleTask>>

\* Mutant: only a process's memory is given back.
IdleFree_KeepStack ==
    /\ IdleRuns /\ idlePc = "free"
    /\ stack' = IF pProcess[idleTask] # NULL THEN stack \ {idleTask} ELSE stack
    /\ idlePc' = "release"
    /\ UNCHANGED <<unchangedByIdle, used, pProcess, procVars, exitList, exitCut,
                   idleTask>>

IdleFree ==
    /\ IdleRuns /\ idlePc = "free"
    /\ stack' = stack \ {idleTask}
    /\ idlePc' = "release"
    /\ UNCHANGED <<unchangedByIdle, used, pProcess, procVars, exitList, exitCut,
                   idleTask>>

\* Mutant: the selector is not cleared.
IdleRelease_Keep ==
    /\ IdleRuns /\ idlePc = "release"
    /\ idleTask' = NULL
    /\ idlePc' = "pop"
    /\ UNCHANGED <<unchangedByIdle, used, stack, pProcess, procVars, exitList,
                   exitCut>>

IdleRelease ==
    /\ IdleRuns /\ idlePc = "release"
    /\ used' = used \ {idleTask}
    /\ idleTask' = NULL
    /\ idlePc' = "pop"
    /\ UNCHANGED <<unchangedByIdle, stack, pProcess, procVars, exitList, exitCut>>

IdleYield == IdleRuns /\ idlePc = "yield" /\ Switch(remainQuantum) /\ idlePc' = "pop"

IdleStep == IdlePop \/ IdleLink \/ IdleReap \/ IdleFree \/ IdleRelease \/ IdleYield

-----------------------------------------------------------------------------
Next ==
    \/ \E p \in Procs, prio \in UserPrios : Create(p, prio)
    \/ \E p \in Procs, prio \in UserPrios : CreateProcess(p, prio)
    \/ \E t \in Tasks : TerminateTask(t)
    \/ \E p \in Procs : TerminateProcess(p)
    \/ WakeJoiner
    \/ TerminateSelf
    \/ TerminateOther
    \/ \E t \in Tasks, prio \in UserPrios : ChangePriority(t, prio)
    \/ \E t \in Tasks : Suspend(t)
    \/ \E t \in Tasks : Resume(t)
    \/ \E t \in Tasks : Join(t)
    \/ \E p \in Procs : JoinProcess(p)
    \/ Yield
    \/ Tick
    \/ IdleStep

Spec == Init /\ [][Next]_vars

(***************************************************************************)
(* Fairness.  A timer interrupt that comes while interrupts are off stays  *)
(* pending in the PIC and is taken when they are on again, so Tick is      *)
(* strongly fair.  A call in progress goes on.  The CPU executes at least  *)
(* some instruction of the idle task each time it is switched to.          *)
(***************************************************************************)
Fairness ==
    /\ SF_vars(Tick)
    /\ WF_vars(WakeJoiner \/ TerminateSelf \/ TerminateOther)
    /\ SF_vars(IdleStep)

FairSpec == Spec /\ Fairness

-----------------------------------------------------------------------------
(* Properties. *)

\* Every variable has its type (TaskStruct, task.h:186-215).
TypeOK ==
    /\ used \subseteq Tasks
    /\ flag \in [Tasks -> Flags]
    /\ priority \in [Tasks -> Prios]
    /\ waitObj \in [Tasks -> Tasks \cup {NULL}]
    /\ waitMe \in [Tasks -> Seq(Tasks)]
    /\ pProcess \in [Tasks -> Procs \cup {NULL}]
    /\ stack \subseteq Tasks
    /\ readyList \in [Prios -> Seq(Tasks)]
    /\ waitList \in Seq(Tasks)
    /\ exitList \in Seq(Tasks)
    /\ exitCut \in BOOLEAN
    /\ executeCount \in [Prios -> Nat]
    /\ pNow \in Tasks
    /\ remainQuantum \in 0 .. WordMax
    /\ threads \in [Procs -> SUBSET Tasks]
    /\ pMainThread \in [Procs -> Tasks \cup {NULL}]
    /\ pageDir \in [Procs -> {"null", "live", "freed"}]
    /\ dying \in Tasks \cup {NULL}
    /\ idlePc \in {"pop", "link", "reap", "free", "release", "yield"}
    /\ idleTask \in Tasks \cup {NULL}
    /\ fault \in {"none", "assert", "list"}

\* A task is RUNNING exactly when it is pNow (task.h:102, 203).
RunningIsNow == \A t \in used : flag[t] = "RUNNING" <=> t = pNow

\* ReadyList[p] holds the READY tasks of priority p, each once.
ReadyExact ==
    /\ \A p \in Prios : Distinct(readyList[p])
    /\ \A p \in Prios, t \in Tasks :
          In(t, readyList[p]) <=> t \in used /\ flag[t] = "READY" /\ priority[t] = p

\* WaitList is "the list of the tasks in state TASK_FLAG_WAIT" (task.h:198),
\* each once.
WaitExact ==
    /\ Distinct(waitList)
    /\ \A t \in Tasks : In(t, waitList) <=> t \in used /\ flag[t] = "WAIT"

\* WaitForExitList holds the WAITFOREXIT tasks the idle task has not popped.
ExitExact ==
    /\ Distinct(exitList)
    /\ \A t \in Tasks : In(t, exitList)
          <=> t \in used /\ flag[t] = "WAITFOREXIT" /\ t # idleTask

\* A RUNNING task is on no list, and every other task is on exactly the one
\* list its flag names, once: all these lists share Task::_node, so a task on
\* two of them, or on a wrong one, corrupts both (task.h:102-105, 126).
FlagMatchesList == pNow \in used /\ RunningIsNow /\ ReadyExact /\ WaitExact /\ ExitExact

\* WaitObj and WaitMeList are two views of one relation: a joiner waits, its
\* target has not terminated, and it is on the target's list exactly once;
\* nobody waits on a task whose slot is free or awaits clean-up.  A join
\* therefore cannot hang on a dead task (task.c:323-331, 554-575).
JoinConsistent ==
    /\ \A u \in Tasks : waitObj[u] # NULL => u \in used /\ flag[u] = "WAIT"
    /\ \A t \in Tasks : waitMe[t] # <<>> => Resolves(t)
    /\ \A t \in Tasks : Distinct(waitMe[t])
    /\ \A t, u \in Tasks : In(u, waitMe[t]) <=> waitObj[u] = t

\* No assertion of task.c fails (353, 368, 373, 561, 584), and no node is
\* erased from a list it is not on (task.c:365, 369, 374, 458, 498, 542).
NoFault == fault = "none"

\* Whatever the running task does, something is ready to replace it, so
\* ckTaskSchedule_internal never returns to a task that suspended or
\* terminated itself, and RemainQuantum never passes 0 (task.c:604-610).
AlwaysReplaceable ==
    /\ NonEmpty(readyList) # {}
    /\ remainQuantum \in 1 .. Quantum

\* The main thread of a process is a thread of it that has not terminated
\* (task.h:161, "the main task of this process").
MainThreadOwned ==
    \A p \in Procs : pMainThread[p] # NULL =>
        /\ Resolves(pMainThread[p])
        /\ pProcess[pMainThread[p]] = p

\* The stack of a task that has one stays allocated as long as the task can
\* run again, and no stack outlives its slot (task.c:380-384, 772-776).
StackLifetime ==
    /\ stack \subseteq used
    /\ \A t \in used \ {Kernel, Idle} :
          t \notin stack => t = idleTask /\ idlePc = "release"

\* A task that can still run runs on page tables that exist (task.c:339
\* "a main thread takes the process and its threads down with it").
RunsOnLivePages ==
    \A t \in used : Resolves(t) =>
        pProcess[t] # NULL /\ pageDir[pProcess[t]] = "live"

\* A task that joins another leaves the wait only while that other task is
\* being terminated (or with its own slot): join never returns early.
JoinNotEarly ==
    [][\A u \in used : waitObj[u] # NULL /\ (flag'[u] # "WAIT" \/ waitObj'[u] # waitObj[u])
          => dying = waitObj[u] \/ u \notin used']_vars

\* A task is taken off the CPU or reused only through its life cycle: a task
\* awaiting clean-up never becomes ready, waiting or running again until its
\* slot has been released (task.h:105).
ZombieStays ==
    [][\A t \in used : flag[t] = "WAITFOREXIT" /\ t \in used'
          => flag'[t] = "WAITFOREXIT"]_vars

\* Every ready task gets the CPU, whatever its priority, or is terminated:
\* ExecuteCount lets each level be passed over only so often (task.c:616-634).
ReadyRuns ==
    \A t \in Tasks : (t \in used /\ flag[t] = "READY")
                        ~> (t \notin used \/ flag[t] # "READY")

\* A terminated task's slot is released, unless the list was cut (task.c:762).
ZombieReaped ==
    \A t \in Tasks : (t \in used /\ flag[t] = "WAITFOREXIT")
                        ~> (t \notin used \/ exitCut)

=============================================================================
