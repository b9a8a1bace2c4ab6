----------------------------- MODULE TaskProofs -----------------------------
(***************************************************************************)
(* Theorems about Task.tla for every number of tasks, processes and        *)
(* priority levels, and every quantum: types, whatever the callers do, and *)
(* the safety properties as long as they stay within ProperApi, by the     *)
(* invariant of TaskInvariant.tla.                                         *)
(***************************************************************************)
EXTENDS TaskInvariant, QueueProofs, WellFoundedInduction

USE DEF Tasks, Procs, Prios, Kernel, Idle, KernelProc, IdlePrio

-----------------------------------------------------------------------------
(* Choosing the first level, or the first free slot. *)

\* A set of numbers that is not empty has a topmost element.
LEMMA TopmostLemma ==
    ASSUME NEW S, S \subseteq Nat, S # {}
    PROVE  Topmost(S) \in S /\ \A j \in S : Topmost(S) <= j
<1>1. IsWellFoundedOn(OpToRel(<, Nat), Nat)
  BY NatLessThanWellFounded
<1>2. \E x \in S : \A y \in S : ~ (<<y, x>> \in OpToRel(<, Nat))
  BY <1>1, WFMin
<1>3. PICK x \in S : \A y \in S : ~ (y < x)
  BY <1>2 DEF OpToRel
<1>4. \A y \in S : x <= y
  BY <1>3
<1>5. QED BY <1>4 DEF Topmost

\* The level ckTaskSchedule_internal takes has a task to run.
LEMMA PickedLevelLemma ==
    ASSUME NEW rl \in [Prios -> Seq(Tasks)], TypeOK, NonEmpty(rl) # {}
    PROVE  PickedLevel(rl) \in Prios /\ rl[PickedLevel(rl)] # <<>>
<1> USE SizesAssumption
<1>1. Eligible(rl) \subseteq Prios /\ NonEmpty(rl) \subseteq Prios /\ Prios \subseteq Nat
  BY DEF Eligible, NonEmpty
<1>2. CASE Eligible(rl) # {}
  <2>1. PickedLevel(rl) \in Eligible(rl)
    BY <1>1, <1>2, TopmostLemma DEF PickedLevel
  <2>2. PickedLevel(rl) \in Prios /\ executeCount[PickedLevel(rl)] < Len(rl[PickedLevel(rl)])
    BY <2>1 DEF Eligible
  <2>3. executeCount[PickedLevel(rl)] \in Nat
    BY <2>2 DEF TypeOK
  <2>4. Len(rl[PickedLevel(rl)]) # 0
    BY <2>2, <2>3
  <2>5. QED BY <2>2, <2>4
<1>3. CASE Eligible(rl) = {}
  <2>1. PickedLevel(rl) \in NonEmpty(rl)
    BY <1>1, <1>3, TopmostLemma DEF PickedLevel
  <2>2. QED BY <2>1 DEF NonEmpty
<1>4. QED BY <1>2, <1>3

\* The counts stay counts.
LEMMA CountsAfterLemma ==
    ASSUME NEW rl, TypeOK
    PROVE  CountsAfter(rl) \in [Prios -> Nat]
<1>1. \A i \in Prios : executeCount[i] \in Nat /\ executeCount[i] + 1 \in Nat
  BY DEF TypeOK
<1>2. QED BY <1>1 DEF CountsAfter

\* A switch keeps the variables it assigns well typed.
LEMMA ScheduleType ==
    ASSUME NEW rl \in [Prios -> Seq(Tasks)], NEW fl \in [Tasks -> Flags],
           NEW left \in 0 .. WordMax, TypeOK, Schedule(rl, fl, left)
    PROVE  /\ executeCount' \in [Prios -> Nat]
           /\ readyList' \in [Prios -> Seq(Tasks)]
           /\ flag' \in [Tasks -> Flags]
           /\ pNow' \in Tasks
           /\ remainQuantum' \in 0 .. WordMax
<1> USE SizesAssumption
<1>1. executeCount' \in [Prios -> Nat]
  BY CountsAfterLemma DEF Schedule
<1>2. CASE NonEmpty(rl) = {}
  BY <1>1, <1>2 DEF Schedule, TypeOK
<1>3. CASE NonEmpty(rl) # {}
  <2> DEFINE p == PickedLevel(rl)
             t == Head(rl[p])
             rest == [rl EXCEPT ![p] = Tail(@)]
             parked == IF fl[pNow] = "RUNNING"
                         THEN [fl EXCEPT ![pNow] = "READY"] ELSE fl
  <2>1. p \in Prios /\ rl[p] # <<>>
    BY <1>3, PickedLevelLemma
  <2>2. t \in Tasks /\ Tail(rl[p]) \in Seq(Tasks)
    BY <2>1, PopFrontLemma
  <2>3. rest \in [Prios -> Seq(Tasks)]
    BY <2>2
  <2>4. /\ readyList' = Requeue(rest, fl)
        /\ pNow' = t
        /\ remainQuantum' = Quantum
        /\ flag' = [parked EXCEPT ![t] = "RUNNING"]
    BY <1>3 DEF Schedule
  <2>5. flag' \in [Tasks -> Flags]
    <3>1. parked \in [Tasks -> Flags]
      BY DEF Flags
    <3>2. QED BY <2>4, <3>1 DEF Flags
  <2> HIDE DEF p, t, rest
  <2>6. Requeue(rest, fl) \in [Prios -> Seq(Tasks)]
    <3>1. pNow \in Tasks /\ priority[pNow] \in Prios
      BY DEF TypeOK
    <3>2. Append(rest[priority[pNow]], pNow) \in Seq(Tasks)
      BY <2>3, <3>1
    <3>3. QED BY <2>3, <3>1, <3>2 DEF Requeue
  <2>7. Quantum \in 0 .. WordMax
    OBVIOUS
  <2>8. QED BY <1>1, <2>2, <2>4, <2>5, <2>6, <2>7
<1>4. QED BY <1>2, <1>3

-----------------------------------------------------------------------------
(* Type correctness. *)

LEMMA InitTypeOK == Init => TypeOK
<1> SUFFICES ASSUME Init PROVE TypeOK
  OBVIOUS
<1> USE SizesAssumption, NullAssumption
<1>1. used \subseteq Tasks /\ stack \subseteq Tasks /\ pNow \in Tasks
  BY DEF Init
<1>2. flag \in [Tasks -> Flags]
  BY DEF Init, Flags
<1>3. priority \in [Tasks -> Prios]
  BY DEF Init
<1>4. waitObj \in [Tasks -> Tasks \cup {NULL}] /\ waitMe \in [Tasks -> Seq(Tasks)]
  BY DEF Init
<1>5. pProcess \in [Tasks -> Procs \cup {NULL}]
  BY DEF Init
<1>6. readyList \in [Prios -> Seq(Tasks)] /\ waitList \in Seq(Tasks) /\ exitList \in Seq(Tasks)
  <2>1. <<Idle>> \in Seq(Tasks) /\ <<>> \in Seq(Tasks)
    OBVIOUS
  <2>2. QED BY <2>1 DEF Init
<1>7. executeCount \in [Prios -> Nat] /\ remainQuantum \in 0 .. WordMax
  BY DEF Init
<1>8. threads \in [Procs -> SUBSET Tasks] /\ pMainThread \in [Procs -> Tasks \cup {NULL}]
  BY DEF Init
<1>9. pageDir \in [Procs -> {"null", "live", "freed"}]
  BY DEF Init
<1>10. /\ dying \in Tasks \cup {NULL} /\ idleTask \in Tasks \cup {NULL}
       /\ idlePc \in {"pop", "link", "reap", "free", "release", "yield"}
       /\ fault \in {"none", "assert", "list"} /\ exitCut \in BOOLEAN
  BY DEF Init
<1>11. QED BY <1>1, <1>2, <1>3, <1>4, <1>5, <1>6, <1>7, <1>8, <1>9, <1>10 DEF TypeOK

\* A new task is well typed.
LEMMA NewTaskType ==
    ASSUME TypeOK, NEW p \in Procs, NEW prio \in Prios,
           NEW th \in [Procs -> SUBSET Tasks], FreeSlots # {}, NewTask(p, prio, th)
    PROVE  /\ Topmost(FreeSlots) \in Tasks
           /\ used' \subseteq Tasks
           /\ flag' \in [Tasks -> Flags]
           /\ priority' \in [Tasks -> Prios]
           /\ waitObj' \in [Tasks -> Tasks \cup {NULL}]
           /\ waitMe' \in [Tasks -> Seq(Tasks)]
           /\ pProcess' \in [Tasks -> Procs \cup {NULL}]
           /\ threads' \in [Procs -> SUBSET Tasks]
           /\ stack' \subseteq Tasks
           /\ readyList' \in [Prios -> Seq(Tasks)]
<1> DEFINE t == Topmost(FreeSlots)
<1>1. t \in Tasks
  <2>1. FreeSlots \subseteq Nat
    BY SizesAssumption DEF FreeSlots
  <2>2. t \in FreeSlots
    BY <2>1, TopmostLemma
  <2>3. QED BY <2>2 DEF FreeSlots
<1>2. /\ used' = used \cup {t}
      /\ flag' = [flag EXCEPT ![t] = "READY"]
      /\ priority' = [priority EXCEPT ![t] = prio]
      /\ waitObj' = [waitObj EXCEPT ![t] = NULL]
      /\ waitMe' = [waitMe EXCEPT ![t] = <<>>]
      /\ pProcess' = [pProcess EXCEPT ![t] = p]
      /\ threads' = [th EXCEPT ![p] = @ \cup {t}]
      /\ stack' = stack \cup {t}
      /\ readyList' = [readyList EXCEPT ![prio] = Append(@, t)]
  BY DEF NewTask, Enlisted
<1> HIDE DEF t
<1>3. Append(readyList[prio], t) \in Seq(Tasks)
  <2>1. readyList[prio] \in Seq(Tasks) /\ t \in Tasks
    BY <1>1 DEF TypeOK
  <2>2. QED BY <2>1
<1>4. readyList' \in [Prios -> Seq(Tasks)]
  BY <1>2, <1>3 DEF TypeOK
<1>5. used' \subseteq Tasks /\ stack' \subseteq Tasks /\ threads' \in [Procs -> SUBSET Tasks]
  BY <1>1, <1>2 DEF TypeOK
<1>6. flag' \in [Tasks -> Flags] /\ priority' \in [Tasks -> Prios]
  BY <1>1, <1>2 DEF TypeOK, Flags
<1>7. /\ waitObj' \in [Tasks -> Tasks \cup {NULL}]
      /\ waitMe' \in [Tasks -> Seq(Tasks)]
      /\ pProcess' \in [Tasks -> Procs \cup {NULL}]
  BY <1>1, <1>2 DEF TypeOK
<1>8. QED BY <1>1, <1>4, <1>5, <1>6, <1>7 DEF t

\* ckTaskCreate_unsafe keeps types.
LEMMA CreateType ==
    ASSUME TypeOK, NEW p \in Procs, NEW prio \in UserPrios, Create(p, prio)
    PROVE  TypeOK'
<1>1. prio \in Prios
  BY SizesAssumption
<1>2. threads \in [Procs -> SUBSET Tasks] /\ FreeSlots # {} /\ NewTask(p, prio, threads)
  BY DEF Create, TypeOK
<1>3. QED BY <1>1, <1>2, NewTaskType DEF Create, TypeOK, schedVars, idleVars

\* ckProcessCreate keeps types.
LEMMA CreateProcessType ==
    ASSUME TypeOK, NEW q \in Procs, NEW prio \in UserPrios, CreateProcess(q, prio)
    PROVE  TypeOK'
<1> DEFINE free == {r \in Procs : pageDir[r] = "null"}
           p == Topmost(free)
           th == [threads EXCEPT ![p] = {}]
<1>1. prio \in Prios /\ MaxTask - 1 \in Tasks
  BY SizesAssumption
<1>2. p \in Procs
  <2>1. free # {}
    BY DEF CreateProcess
  <2>4. free \subseteq Nat
    BY SizesAssumption
  <2>2. p \in free
    BY <2>1, <2>4, TopmostLemma
  <2>3. QED BY <2>2
<1>3. th \in [Procs -> SUBSET Tasks]
  BY DEF TypeOK
<1>4. /\ pageDir' = [pageDir EXCEPT ![p] = "live"]
      /\ \/ /\ FreeSlots # {}
            /\ NewTask(p, prio, th)
            /\ pMainThread' = [pMainThread EXCEPT ![p] = Topmost(FreeSlots)]
         \/ /\ threads' = th
            /\ pMainThread' = [pMainThread EXCEPT ![p] = MaxTask - 1]
            /\ UNCHANGED <<used, flag, priority, waitObj, waitMe,
                           pProcess, stack, readyList>>
      /\ UNCHANGED <<waitList, exitList, exitCut, schedVars, dying, idleVars, fault>>
  BY DEF CreateProcess
<1> HIDE DEF p, th
<1>5. pageDir' \in [Procs -> {"null", "live", "freed"}]
  BY <1>4 DEF TypeOK
<1>6. CASE FreeSlots # {} /\ NewTask(p, prio, th) /\ pMainThread' = [pMainThread EXCEPT ![p] = Topmost(FreeSlots)]
  <2>1. Topmost(FreeSlots) \in Tasks
    BY <1>1, <1>2, <1>3, <1>6, NewTaskType
  <2>2. pMainThread' \in [Procs -> Tasks \cup {NULL}]
    BY <1>6, <2>1 DEF TypeOK
  <2>3. QED BY <1>1, <1>2, <1>3, <1>4, <1>5, <1>6, <2>2, NewTaskType DEF TypeOK, schedVars, idleVars
<1>7. CASE /\ threads' = th
           /\ pMainThread' = [pMainThread EXCEPT ![p] = MaxTask - 1]
           /\ UNCHANGED <<used, flag, priority, waitObj, waitMe,
                          pProcess, stack, readyList>>
  <2>1. pMainThread' \in [Procs -> Tasks \cup {NULL}]
    BY <1>1, <1>7 DEF TypeOK
  <2>2. QED BY <1>3, <1>4, <1>5, <1>7, <2>1 DEF TypeOK, schedVars, idleVars
<1>8. QED BY <1>4, <1>6, <1>7

\* Typing of the parts several handlers share.
LEMMA WakesType ==
    ASSUME TypeOK, NEW u \in Tasks, Wakes(u)
    PROVE  /\ waitList' \in Seq(Tasks)
           /\ flag' \in [Tasks -> Flags]
           /\ readyList' \in [Prios -> Seq(Tasks)]
           /\ fault' \in {"none", "assert", "list"}
<1>1. CASE flag[u] = "WAIT"
  <2>1. Erase(waitList, u) \in Seq(Tasks)
    BY EraseLemma DEF TypeOK
  <2>2. priority[u] \in Prios /\ Append(readyList[priority[u]], u) \in Seq(Tasks)
    <3>1. priority[u] \in Prios
      BY DEF TypeOK
    <3>2. readyList[priority[u]] \in Seq(Tasks)
      BY <3>1 DEF TypeOK
    <3>3. QED BY <3>1, <3>2
  <2>3. /\ waitList' = Erase(waitList, u)
        /\ flag' = [flag EXCEPT ![u] = "READY"]
        /\ readyList' = [readyList EXCEPT ![priority[u]] = Append(@, u)]
        /\ fault' \in {"none", "list"}
    BY <1>1 DEF Wakes, EraseFault
  <2>4. flag' \in [Tasks -> Flags]
    BY <2>3 DEF TypeOK, Flags
  <2>5. readyList' \in [Prios -> Seq(Tasks)]
    BY <2>2, <2>3 DEF TypeOK
  <2>6. QED BY <2>1, <2>3, <2>4, <2>5
<1>2. CASE flag[u] # "WAIT"
  BY <1>2 DEF Wakes, TypeOK
<1>3. QED BY <1>1, <1>2

\* Leaving a process keeps types.
LEMMA LeaveProcessType ==
    ASSUME TypeOK, NEW t \in Tasks, LeaveProcess(t)
    PROVE  /\ threads' \in [Procs -> SUBSET Tasks]
           /\ pMainThread' \in [Procs -> Tasks \cup {NULL}]
           /\ pProcess' \in [Tasks -> Procs \cup {NULL}]
<1> DEFINE p == pProcess[t]
<1>1. p \in Procs \cup {NULL}
  BY DEF TypeOK
<1>2. CASE pMainThread[p] = t
  BY <1>2 DEF LeaveProcess, TypeOK
<1>3. CASE pMainThread[p] # t
  <2>1. /\ threads' = [threads EXCEPT ![p] = @ \ {t}]
        /\ pProcess' = [pProcess EXCEPT ![t] = NULL]
        /\ UNCHANGED pMainThread
    BY <1>3 DEF LeaveProcess
  <2> HIDE DEF p
  <2>2. threads' \in [Procs -> SUBSET Tasks]
    <3>1. threads \in [Procs -> SUBSET Tasks]
      BY DEF TypeOK
    <3>2. CASE p \in Procs
      BY <2>1, <3>1, <3>2
    <3>3. CASE p \notin Procs
      BY <2>1, <3>1, <3>3
    <3>4. QED BY <3>2, <3>3
  <2>3. QED BY <2>1, <2>2 DEF TypeOK
<1>4. QED BY <1>2, <1>3

\* csTaskSuspendByPtr keeps types.
LEMMA SuspendByPtrType ==
    ASSUME TypeOK, NEW t \in Tasks, SuspendByPtr(t)
    PROVE  /\ waitList' \in Seq(Tasks)
           /\ flag' \in [Tasks -> Flags]
           /\ readyList' \in [Prios -> Seq(Tasks)]
           /\ executeCount' \in [Prios -> Nat]
           /\ pNow' \in Tasks
           /\ remainQuantum' \in 0 .. WordMax
           /\ fault' \in {"none", "assert", "list"}
<1> DEFINE rl == IF flag[t] = "READY"
                   THEN [readyList EXCEPT ![priority[t]] = Erase(@, t)]
                   ELSE readyList
           fl == [flag EXCEPT ![t] = "WAIT"]
<1>1. rl \in [Prios -> Seq(Tasks)]
  <2>1. priority[t] \in Prios /\ Erase(readyList[priority[t]], t) \in Seq(Tasks)
    BY EraseLemma DEF TypeOK
  <2>2. QED BY <2>1 DEF TypeOK
<1>2. fl \in [Tasks -> Flags]
  BY DEF TypeOK, Flags
<1>3. /\ waitList' = Append(waitList, pNow)
      /\ \/ Schedule(rl, fl, remainQuantum)
         \/ readyList' = rl /\ flag' = fl /\ UNCHANGED schedVars
      /\ fault' \in {"none", "list"}
  BY DEF SuspendByPtr, EraseFault
<1> HIDE DEF rl, fl
<1>4. waitList' \in Seq(Tasks)
  BY <1>3 DEF TypeOK
<1>5. CASE Schedule(rl, fl, remainQuantum)
  <2>1. remainQuantum \in 0 .. WordMax
    BY DEF TypeOK
  <2>2. QED BY <1>1, <1>2, <1>3, <1>4, <1>5, <2>1, ScheduleType
<1>6. CASE readyList' = rl /\ flag' = fl /\ UNCHANGED schedVars
  BY <1>1, <1>2, <1>3, <1>4, <1>6 DEF TypeOK, schedVars
<1>7. QED BY <1>3, <1>5, <1>6

\* ckTaskJoin keeps types.
LEMMA WaitType ==
    ASSUME TypeOK, NEW t \in Tasks, Wait(t)
    PROVE  TypeOK'
<1>1. CASE waitObj[pNow] = NULL
  <2>1. /\ waitObj' = [waitObj EXCEPT ![pNow] = t]
        /\ waitMe' = [waitMe EXCEPT ![t] = Append(@, pNow)]
        /\ SuspendByPtr(pNow)
    BY <1>1 DEF Wait
  <2>2. pNow \in Tasks /\ Append(waitMe[t], pNow) \in Seq(Tasks)
    BY DEF TypeOK
  <2>3. /\ waitObj' \in [Tasks -> Tasks \cup {NULL}]
        /\ waitMe' \in [Tasks -> Seq(Tasks)]
    BY <2>1, <2>2 DEF TypeOK
  <2>4. QED BY <2>1, <2>2, <2>3, SuspendByPtrType DEF Wait, TypeOK, procVars, idleVars
<1>2. CASE waitObj[pNow] # NULL
  BY <1>2 DEF Wait, TypeOK, schedVars, procVars, idleVars
<1>3. QED BY <1>1, <1>2

\* The last step of a termination of another task keeps types.
LEMMA TerminateOtherType ==
    ASSUME TypeOK, TerminateOther
    PROVE  TypeOK'
<1>1. dying \in Tasks
  BY DEF TerminateOther, TypeOK
<1>2. /\ threads' \in [Procs -> SUBSET Tasks]
      /\ pMainThread' \in [Procs -> Tasks \cup {NULL}]
      /\ pProcess' \in [Tasks -> Procs \cup {NULL}]
  BY <1>1, LeaveProcessType DEF TerminateOther
<1>3. pageDir' \in [Procs -> {"null", "live", "freed"}]
  BY DEF TerminateOther, CleanupProcess, TypeOK
<1>4. /\ waitMe' \in [Tasks -> Seq(Tasks)]
      /\ waitObj' \in [Tasks -> Tasks \cup {NULL}]
      /\ waitList' \in Seq(Tasks)
      /\ readyList' \in [Prios -> Seq(Tasks)]
      /\ fault' \in {"none", "assert", "list"}
  <2>1. CASE UnlinkWaiting(dying)
    <3>1. waitObj[dying] \in Tasks
      BY <1>1, <2>1 DEF UnlinkWaiting, TypeOK
    <3>2. Erase(waitMe[waitObj[dying]], dying) \in Seq(Tasks)
      BY <3>1, EraseLemma DEF TypeOK
    <3>3. Erase(waitList, dying) \in Seq(Tasks)
      BY EraseLemma DEF TypeOK
    <3>4. QED BY <1>1, <2>1, <3>1, <3>2, <3>3 DEF UnlinkWaiting, TypeOK, EraseFault
  <2>2. CASE UnlinkReady(dying)
    <3>1. priority[dying] \in Prios
      BY <1>1 DEF TypeOK
    <3>2. Erase(readyList[priority[dying]], dying) \in Seq(Tasks)
      BY <3>1, EraseLemma DEF TypeOK
    <3>3. QED BY <2>2, <3>1, <3>2 DEF UnlinkReady, TypeOK, EraseFault
  <2>3. QED BY <2>1, <2>2 DEF TerminateOther
<1>5. QED BY <1>2, <1>3, <1>4 DEF TerminateOther, TypeOK, schedVars, idleVars

\* A switch of tasks keeps types.
LEMMA SwitchType ==
    ASSUME TypeOK, NEW left \in 0 .. WordMax, Switch(left),
           idlePc' \in {"pop", "link", "reap", "free", "release", "yield"}
    PROVE  TypeOK'
<1>1. readyList \in [Prios -> Seq(Tasks)] /\ flag \in [Tasks -> Flags]
  BY DEF TypeOK
<1>2. QED BY <1>1, ScheduleType DEF Switch, TypeOK, procVars

\* Every step keeps types.
LEMMA NextTypeOK == TypeOK /\ [Next]_vars => TypeOK'
<1> SUFFICES ASSUME TypeOK, [Next]_vars PROVE TypeOK'
  OBVIOUS
<1>1. ASSUME NEW q \in Procs, NEW prio \in UserPrios, Create(q, prio) PROVE TypeOK'
  BY <1>1, CreateType
<1>2. ASSUME NEW q \in Procs, NEW prio \in UserPrios, CreateProcess(q, prio) PROVE TypeOK'
  BY <1>2, CreateProcessType
<1>3. ASSUME NEW t \in Tasks, BeginTerminate(t) PROVE TypeOK'
  BY <1>3 DEF BeginTerminate, TypeOK, listVars, schedVars, procVars, idleVars
<1>4. ASSUME NEW q \in Procs, TerminateProcess(q) PROVE TypeOK'
  <2>1. pMainThread[q] \in Tasks
    BY <1>4 DEF TerminateProcess, ProcResolves, TypeOK
  <2>2. QED BY <1>3, <1>4, <2>1 DEF TerminateProcess
<1>5. CASE WakeJoiner
  <2> DEFINE u == Head(waitMe[dying])
  <2>1. dying \in Tasks /\ waitMe[dying] \in Seq(Tasks) /\ waitMe[dying] # <<>>
    BY <1>5 DEF WakeJoiner, TypeOK
  <2>2. u \in Tasks /\ Tail(waitMe[dying]) \in Seq(Tasks)
    BY <2>1, PopFrontLemma
  <2>3. /\ waitMe' = [waitMe EXCEPT ![dying] = Tail(@)]
        /\ waitObj' = [waitObj EXCEPT ![u] = NULL]
        /\ Wakes(u)
    BY <1>5 DEF WakeJoiner
  <2> HIDE DEF u
  <2>4. waitMe' \in [Tasks -> Seq(Tasks)] /\ waitObj' \in [Tasks -> Tasks \cup {NULL}]
    BY <2>2, <2>3 DEF TypeOK
  <2>5. QED BY <1>5, <2>2, <2>3, <2>4, WakesType DEF WakeJoiner, TypeOK, schedVars, procVars, idleVars
<1>6. CASE TerminateSelf
  <2> DEFINE fl == [flag EXCEPT ![dying] = "WAITFOREXIT"]
  <2>1. dying \in Tasks
    BY <1>6 DEF TerminateSelf, TypeOK
  <2>2. fl \in [Tasks -> Flags] /\ readyList \in [Prios -> Seq(Tasks)]
    BY DEF TypeOK, Flags
  <2>3. Schedule(readyList, fl, remainQuantum) /\ LeaveProcess(dying)
    BY <1>6 DEF TerminateSelf
  <2>6. remainQuantum \in 0 .. WordMax
    BY DEF TypeOK
  <2> HIDE DEF fl
  <2>4. exitList' \in Seq(Tasks)
    BY <1>6, <2>1 DEF TerminateSelf, TypeOK
  <2>5. QED BY <1>6, <2>1, <2>2, <2>3, <2>4, <2>6, ScheduleType, LeaveProcessType
             DEF TerminateSelf, TypeOK, idleVars
<1>7. CASE TerminateOther
  BY <1>7, TerminateOtherType
<1>8. ASSUME NEW t \in Tasks, NEW prio \in UserPrios, ChangePriority(t, prio) PROVE TypeOK'
  <2>1. prio \in Prios /\ priority[t] \in Prios
    BY SizesAssumption DEF TypeOK
  <2>2. priority' \in [Tasks -> Prios]
    BY <1>8, <2>1 DEF ChangePriority, TypeOK
  <2>3. /\ readyList' \in [Prios -> Seq(Tasks)]
        /\ waitList' \in Seq(Tasks)
        /\ fault' \in {"none", "assert", "list"}
    <3>1. CASE t = pNow
      BY <1>8, <3>1 DEF ChangePriority, TypeOK
    <3>2. CASE t # pNow
      <4>1. Erase(readyList[priority[t]], t) \in Seq(Tasks) /\ Erase(waitList, t) \in Seq(Tasks)
        BY <2>1, EraseLemma DEF TypeOK
      <4>2. Append(readyList[prio], t) \in Seq(Tasks)
        BY <2>1 DEF TypeOK
      <4>3. prio # priority[t]
        BY <1>8 DEF ChangePriority
      <4>4. QED BY <1>8, <2>1, <3>2, <4>1, <4>2, <4>3 DEF ChangePriority, TypeOK, EraseFault
    <3>3. QED BY <3>1, <3>2
  <2>4. QED BY <1>8, <2>2, <2>3 DEF ChangePriority, TypeOK, schedVars, procVars, idleVars
<1>9. ASSUME NEW t \in Tasks, Suspend(t) PROVE TypeOK'
  BY <1>9, SuspendByPtrType DEF Suspend, TypeOK, procVars, idleVars
<1>10. ASSUME NEW t \in Tasks, Resume(t) PROVE TypeOK'
  BY <1>10, WakesType DEF Resume, TypeOK, schedVars, procVars, idleVars
<1>11. ASSUME NEW t \in Tasks, Join(t) PROVE TypeOK'
  BY <1>11, WaitType DEF Join
<1>12. ASSUME NEW q \in Procs, JoinProcess(q) PROVE TypeOK'
  <2>1. pMainThread[q] \in Tasks
    BY <1>12 DEF JoinProcess, ProcResolves, TypeOK
  <2>2. QED BY <1>12, <2>1, WaitType DEF JoinProcess
<1>13. CASE Yield \/ Expire
  <2>1. (Switch(remainQuantum) \/ Switch(0)) /\ idlePc' = idlePc
    BY <1>13 DEF Yield, Expire
  <2>2. remainQuantum \in 0 .. WordMax /\ 0 \in 0 .. WordMax
    BY SizesAssumption DEF TypeOK
  <2>3. QED BY <2>1, <2>2, SwitchType DEF TypeOK
<1>14. CASE CountDown
  <2>1. Decremented \in 0 .. WordMax
    BY SizesAssumption DEF TypeOK, Decremented
  <2>2. QED BY <1>14, <2>1 DEF CountDown, TypeOK, listVars, procVars, idleVars
<1>15. CASE IdlePop
  <2>1. exitList' \in Seq(Tasks) /\ idleTask' \in Tasks \cup {NULL}
    <3>1. CASE exitList = <<>> \/ exitCut
      BY <1>15, <3>1 DEF IdlePop, TypeOK
    <3>2. CASE ~(exitList = <<>> \/ exitCut)
      <4>1. exitList \in Seq(Tasks) /\ exitList # <<>>
        BY <3>2 DEF TypeOK
      <4>2. Head(exitList) \in Tasks /\ Tail(exitList) \in Seq(Tasks)
        BY <4>1, PopFrontLemma
      <4>3. QED BY <1>15, <3>2, <4>2 DEF IdlePop
    <3>3. QED BY <3>1, <3>2
  <2>2. QED BY <1>15, <2>1 DEF IdlePop, TypeOK, unchangedByIdle, schedVars, procVars
<1>16. CASE IdleLink
  BY <1>16 DEF IdleLink, TypeOK, unchangedByIdle, schedVars, procVars
<1>17. CASE IdleReap
  <2>1. pageDir' \in [Procs -> {"null", "live", "freed"}]
    BY <1>17 DEF IdleReap, CleanupProcess, TypeOK
  <2>2. QED BY <1>17, <2>1 DEF IdleReap, TypeOK, unchangedByIdle, schedVars
<1>18. CASE IdleFree
  BY <1>18 DEF IdleFree, TypeOK, unchangedByIdle, schedVars, procVars
<1>19. CASE IdleRelease
  BY <1>19 DEF IdleRelease, TypeOK, unchangedByIdle, schedVars, procVars
<1>20. CASE IdleYield
  <2>1. remainQuantum \in 0 .. WordMax
    BY DEF TypeOK
  <2>2. QED BY <1>20, <2>1, SwitchType DEF IdleYield
<1>21. CASE UNCHANGED vars
  BY <1>21 DEF vars, TypeOK, listVars, schedVars, procVars, idleVars
<1>22. QED BY <1>1, <1>2, <1>3, <1>4, <1>5, <1>6, <1>7, <1>8, <1>9, <1>10, <1>11, <1>12,
             <1>13, <1>14, <1>15, <1>16, <1>17, <1>18, <1>19, <1>20, <1>21
          DEF Next, TerminateTask, Tick, IdleStep

\* Every variable of the scheduler keeps its type, whatever the calls and the
\* interleaving of the timer interrupt and the idle task (task.h:186-215).
THEOREM TypeCorrect == Spec => []TypeOK
<1>1. Init => TypeOK
  BY InitTypeOK
<1>2. TypeOK /\ [Next]_vars => TypeOK'
  BY NextTypeOK
<1>3. QED BY <1>1, <1>2, PTL DEF Spec

HIDE DEF Tasks, Procs, Prios, Kernel, Idle, KernelProc, IdlePrio

-----------------------------------------------------------------------------
(* Ready lists as lists of lists. *)

\* Queueing a task that is not on the level adds it there and nowhere else.
LEMMA ReadyPush ==
    ASSUME NEW rl \in [Prios -> Seq(Tasks)], NEW p \in Prios, NEW u \in Tasks,
           \A q \in Prios : Distinct(rl[q]), ~In(u, rl[p])
    PROVE  LET nl == [rl EXCEPT ![p] = Append(@, u)] IN
           /\ nl \in [Prios -> Seq(Tasks)]
           /\ \A q \in Prios : Distinct(nl[q])
           /\ \A q \in Prios, t \in Tasks :
                 In(t, nl[q]) <=> In(t, rl[q]) \/ (q = p /\ t = u)
<1> DEFINE nl == [rl EXCEPT ![p] = Append(@, u)]
<1>1. /\ Append(rl[p], u) \in Seq(Tasks)
      /\ Distinct(Append(rl[p], u))
      /\ \A t : In(t, Append(rl[p], u)) <=> In(t, rl[p]) \/ t = u
  BY PushBackLemma
<1>2. \A q \in Prios : nl[q] = IF q = p THEN Append(rl[p], u) ELSE rl[q]
  OBVIOUS
<1>3. nl \in [Prios -> Seq(Tasks)]
  BY <1>1
<1>4. QED BY <1>1, <1>2, <1>3

\* Erasing a task from a level removes it there and nowhere else.
LEMMA ReadyErase ==
    ASSUME NEW rl \in [Prios -> Seq(Tasks)], NEW p \in Prios, NEW u \in Tasks,
           \A q \in Prios : Distinct(rl[q])
    PROVE  LET nl == [rl EXCEPT ![p] = Erase(@, u)] IN
           /\ nl \in [Prios -> Seq(Tasks)]
           /\ \A q \in Prios : Distinct(nl[q])
           /\ \A q \in Prios, t \in Tasks :
                 In(t, nl[q]) <=> In(t, rl[q]) /\ ~(q = p /\ t = u)
<1> DEFINE nl == [rl EXCEPT ![p] = Erase(@, u)]
<1>1. /\ Erase(rl[p], u) \in Seq(Tasks)
      /\ Distinct(Erase(rl[p], u))
      /\ \A t : In(t, Erase(rl[p], u)) <=> In(t, rl[p]) /\ t # u
  BY EraseLemma
<1>2. \A q \in Prios : nl[q] = IF q = p THEN Erase(rl[p], u) ELSE rl[q]
  OBVIOUS
<1>3. nl \in [Prios -> Seq(Tasks)]
  BY <1>1
<1>4. QED BY <1>1, <1>2, <1>3

\* Taking the first task of a level removes it there and nowhere else.
LEMMA ReadyPop ==
    ASSUME NEW rl \in [Prios -> Seq(Tasks)], NEW p \in Prios, rl[p] # <<>>,
           \A q \in Prios : Distinct(rl[q])
    PROVE  LET nl == [rl EXCEPT ![p] = Tail(@)] IN
           /\ nl \in [Prios -> Seq(Tasks)]
           /\ Head(rl[p]) \in Tasks /\ In(Head(rl[p]), rl[p])
           /\ \A q \in Prios : Distinct(nl[q])
           /\ \A q \in Prios, t \in Tasks :
                 In(t, nl[q]) <=> In(t, rl[q]) /\ ~(q = p /\ t = Head(rl[p]))
<1> DEFINE nl == [rl EXCEPT ![p] = Tail(@)]
<1>1. /\ Head(rl[p]) \in Tasks /\ In(Head(rl[p]), rl[p])
      /\ Tail(rl[p]) \in Seq(Tasks)
      /\ Distinct(Tail(rl[p]))
      /\ \A t : In(t, Tail(rl[p])) <=> In(t, rl[p]) /\ t # Head(rl[p])
  BY PopFrontLemma
<1>2. \A q \in Prios : nl[q] = IF q = p THEN Tail(rl[p]) ELSE rl[q]
  OBVIOUS
<1>3. nl \in [Prios -> Seq(Tasks)]
  BY <1>1
<1>4. QED BY <1>1, <1>2, <1>3

-----------------------------------------------------------------------------
(* The scheduler. *)

\* Called with ready lists that hold exactly the ready tasks of fl, and a task
\* to switch to, ckTaskSchedule_internal leaves exactly one task running and the
\* ready lists exact, and touches no task that waits or awaits clean-up.
LEMMA ScheduleExact ==
    ASSUME TypeOK, NEW rl \in [Prios -> Seq(Tasks)], NEW fl \in [Tasks -> Flags],
           \A p \in Prios : Distinct(rl[p]),
           \A p \in Prios, t \in Tasks :
              In(t, rl[p]) <=> t \in used /\ fl[t] = "READY" /\ priority[t] = p,
           NonEmpty(rl) # {}, pNow \in used, fl[pNow] # "READY",
           \A t \in used : fl[t] = "RUNNING" => t = pNow,
           NEW left, Schedule(rl, fl, left)
    PROVE  /\ pNow' \in used
           /\ remainQuantum' = Quantum
           /\ \A t \in used : flag'[t] = "RUNNING" <=> t = pNow'
           /\ \A p \in Prios : Distinct(readyList'[p])
           /\ \A p \in Prios, t \in Tasks :
                 In(t, readyList'[p]) <=> t \in used /\ flag'[t] = "READY" /\ priority[t] = p
           /\ \A t \in Tasks : flag'[t] = "WAIT" <=> fl[t] = "WAIT"
           /\ \A t \in Tasks : flag'[t] = "WAITFOREXIT" <=> fl[t] = "WAITFOREXIT"
<1> DEFINE p == PickedLevel(rl)
           h == Head(rl[p])
           r1 == [rl EXCEPT ![p] = Tail(@)]
<1>1. p \in Prios /\ rl[p] # <<>>
  BY PickedLevelLemma
<1>2. /\ readyList' = Requeue(r1, fl)
      /\ flag' = [IF fl[pNow] = "RUNNING" THEN [fl EXCEPT ![pNow] = "READY"] ELSE fl
                    EXCEPT ![h] = "RUNNING"]
      /\ pNow' = h
      /\ remainQuantum' = Quantum
  BY DEF Schedule
<1> HIDE DEF p
<1>3. /\ r1 \in [Prios -> Seq(Tasks)]
      /\ h \in Tasks /\ In(h, rl[p])
      /\ \A q \in Prios : Distinct(r1[q])
      /\ \A q \in Prios, t \in Tasks : In(t, r1[q]) <=> In(t, rl[q]) /\ ~(q = p /\ t = h)
  BY <1>1, ReadyPop
<1> HIDE DEF r1, h
<1>4. h \in used /\ fl[h] = "READY" /\ priority[h] = p /\ h # pNow
  BY <1>1, <1>3
<1>5. pNow \in Tasks /\ priority[pNow] \in Prios /\ used \subseteq Tasks
  BY DEF TypeOK
<1>6. CASE fl[pNow] = "RUNNING"
  <2>1. readyList' = [r1 EXCEPT ![priority[pNow]] = Append(@, pNow)]
    BY <1>2, <1>6 DEF Requeue
  <2>2. ~In(pNow, r1[priority[pNow]])
    BY <1>3, <1>5
  <2>3. /\ \A q \in Prios : Distinct(readyList'[q])
        /\ \A q \in Prios, t \in Tasks :
              In(t, readyList'[q]) <=> In(t, r1[q]) \/ (q = priority[pNow] /\ t = pNow)
    BY <1>3, <1>5, <2>1, <2>2, ReadyPush
  <2>4. \A t \in Tasks : flag'[t] = IF t = h THEN "RUNNING" ELSE IF t = pNow THEN "READY" ELSE fl[t]
    BY <1>2, <1>3, <1>4, <1>5, <1>6
  <2>5. \A t \in Tasks, q \in Prios :
           In(t, r1[q]) <=> t \in used /\ fl[t] = "READY" /\ priority[t] = q /\ t # h
    BY <1>3, <1>4
  <2>6. \A q \in Prios, t \in Tasks :
           In(t, readyList'[q]) <=> t \in used /\ flag'[t] = "READY" /\ priority[t] = q
    <3>1. SUFFICES ASSUME NEW q \in Prios, NEW t \in Tasks
                   PROVE  In(t, readyList'[q]) <=> t \in used /\ flag'[t] = "READY" /\ priority[t] = q
      OBVIOUS
    <3>2. In(t, readyList'[q]) <=> In(t, r1[q]) \/ (q = priority[pNow] /\ t = pNow)
      BY <2>3
    <3>3. In(t, r1[q]) <=> t \in used /\ fl[t] = "READY" /\ priority[t] = q /\ t # h
      BY <2>5
    <3>4. flag'[t] = IF t = h THEN "RUNNING" ELSE IF t = pNow THEN "READY" ELSE fl[t]
      BY <2>4
    <3>5. CASE t = h
      BY <1>4, <3>2, <3>3, <3>4, <3>5
    <3>6. CASE t = pNow
      BY <1>4, <1>6, <3>2, <3>3, <3>4, <3>6
    <3>7. CASE t # h /\ t # pNow
      BY <3>2, <3>3, <3>4, <3>7
    <3>8. QED BY <3>5, <3>6, <3>7
  <2>7. /\ \A t \in used : flag'[t] = "RUNNING" <=> t = h
        /\ \A t \in Tasks : flag'[t] = "WAIT" <=> fl[t] = "WAIT"
        /\ \A t \in Tasks : flag'[t] = "WAITFOREXIT" <=> fl[t] = "WAITFOREXIT"
    BY <1>4, <1>5, <1>6, <2>4
  <2>8. \A q \in Prios : Distinct(readyList'[q])
    BY <2>3
  <2>9. QED BY <1>2, <1>4, <2>6, <2>7, <2>8
<1>7. CASE fl[pNow] # "RUNNING"
  <2>1. readyList' = r1
    BY <1>2, <1>7 DEF Requeue
  <2>2. \A t \in Tasks : flag'[t] = IF t = h THEN "RUNNING" ELSE fl[t]
    BY <1>2, <1>3, <1>7
  <2>3. \A q \in Prios, t \in Tasks :
           In(t, readyList'[q]) <=> t \in used /\ flag'[t] = "READY" /\ priority[t] = q
    BY <1>3, <1>4, <2>1, <2>2
  <2>4. /\ \A t \in used : flag'[t] = "RUNNING" <=> t = h
        /\ \A t \in Tasks : flag'[t] = "WAIT" <=> fl[t] = "WAIT"
        /\ \A t \in Tasks : flag'[t] = "WAITFOREXIT" <=> fl[t] = "WAITFOREXIT"
    BY <1>4, <1>5, <1>7, <2>2
  <2>5. \A q \in Prios : Distinct(readyList'[q])
    BY <1>3, <2>1
  <2>6. QED BY <1>2, <1>4, <2>3, <2>4, <2>5
<1>8. QED BY <1>6, <1>7

-----------------------------------------------------------------------------
(* Facts of the invariant that most steps need. *)

\* The system tasks have the first two slots of the table.
LEMMA SystemSlots == Kernel \in Tasks /\ Idle \in Tasks /\ Kernel # Idle
BY SizesAssumption DEF Kernel, Idle, Tasks

\* Whoever runs, one of the two system tasks is ready, so there is a task to
\* switch to.
LEMMA Replaceable ==
    ASSUME Inv
    PROVE  /\ NonEmpty(readyList) # {}
           /\ \E s \in {Kernel, Idle} : s # pNow /\ In(s, readyList[priority[s]])
<1>1. \A t \in {Kernel, Idle} : t \in Tasks /\ t \in used /\ flag[t] \in {"RUNNING", "READY"}
  BY SystemSlots DEF Inv, SystemTasks
<1>2. PICK s \in {Kernel, Idle} : s # pNow
  BY SystemSlots
<1>3. flag[s] = "READY"
  BY <1>1, <1>2 DEF Inv, FlagMatchesList, RunningIsNow
<1>3a. s \in Tasks /\ priority[s] \in Prios
  BY <1>1, <1>2 DEF Inv, TypeOK
<1>4. In(s, readyList[priority[s]])
  BY <1>1, <1>2, <1>3, <1>3a DEF Inv, FlagMatchesList, ReadyExact
<1>5. readyList[priority[s]] # <<>>
  BY <1>4, EmptyLemma
<1>6. QED BY <1>2, <1>3a, <1>4, <1>5 DEF NonEmpty

\* The running task is in use, waits for nothing and is on no list.
LEMMA RunningTask ==
    ASSUME Inv
    PROVE  /\ pNow \in used /\ pNow \in Tasks /\ priority[pNow] \in Prios
           /\ flag[pNow] = "RUNNING" /\ Resolves(pNow)
           /\ waitObj[pNow] = NULL /\ ~In(pNow, waitList)
           /\ ~In(pNow, exitList) /\ pNow # idleTask
           /\ \A p \in Prios : ~In(pNow, readyList[p])
           /\ \A t \in Tasks : ~In(pNow, waitMe[t])
<1>1. pNow \in used /\ pNow \in Tasks /\ priority[pNow] \in Prios
  BY DEF Inv, TypeOK, FlagMatchesList
<1>2. flag[pNow] = "RUNNING"
  BY <1>1 DEF Inv, FlagMatchesList, RunningIsNow
<1>3. waitObj[pNow] = NULL
  BY <1>1, <1>2 DEF Inv, JoinConsistent
<1>4. \A t \in Tasks : ~In(pNow, waitMe[t])
  BY <1>1, <1>3, NullAssumption DEF Inv, JoinConsistent
<1>5. ~In(pNow, waitList) /\ ~In(pNow, exitList) /\ \A p \in Prios : ~In(pNow, readyList[p])
  BY <1>1, <1>2 DEF Inv, FlagMatchesList, ReadyExact, WaitExact, ExitExact
<1>6. pNow # idleTask
  <2>1. pNow # NULL
    BY <1>1, NullAssumption
  <2>2. idleTask # NULL => flag[idleTask] = "WAITFOREXIT"
    BY DEF Inv, IdleOK
  <2>3. QED BY <1>2, <2>1, <2>2
<1>7. QED BY <1>1, <1>2, <1>3, <1>4, <1>5, <1>6 DEF Resolves

\* A switch of the running task, with nothing else changed, keeps the lists exact.
LEMMA SwitchExact ==
    ASSUME Inv, NEW left, Schedule(readyList, flag, left)
    PROVE  /\ pNow' \in used
           /\ remainQuantum' = Quantum
           /\ \A t \in used : flag'[t] = "RUNNING" <=> t = pNow'
           /\ \A p \in Prios : Distinct(readyList'[p])
           /\ \A p \in Prios, t \in Tasks :
                 In(t, readyList'[p]) <=> t \in used /\ flag'[t] = "READY" /\ priority[t] = p
           /\ \A t \in Tasks : flag'[t] = "WAIT" <=> flag[t] = "WAIT"
           /\ \A t \in Tasks : flag'[t] = "WAITFOREXIT" <=> flag[t] = "WAITFOREXIT"
<1>1. TypeOK /\ readyList \in [Prios -> Seq(Tasks)] /\ flag \in [Tasks -> Flags]
  BY DEF Inv, TypeOK
<1>2. /\ \A p \in Prios : Distinct(readyList[p])
      /\ \A p \in Prios, t \in Tasks :
            In(t, readyList[p]) <=> t \in used /\ flag[t] = "READY" /\ priority[t] = p
      /\ \A t \in used : flag[t] = "RUNNING" => t = pNow
  BY DEF Inv, FlagMatchesList, ReadyExact, RunningIsNow
<1>3. QED BY <1>1, <1>2, Replaceable, RunningTask, ScheduleExact

\* ckTaskSchedule, a timer tick that takes the CPU, and the idle task's yield.
LEMMA SwitchInv ==
    ASSUME Inv, NEW left, Switch(left), TypeOK', dying = NULL,
           idlePc' = idlePc \/ (idlePc = "yield" /\ idlePc' = "pop")
    PROVE  Inv'
<1>1. /\ Schedule(readyList, flag, left)
      /\ UNCHANGED <<used, priority, waitObj, waitMe, pProcess, stack, waitList,
                     exitList, exitCut, threads, pMainThread, pageDir, dying, idleTask, fault>>
  BY DEF Switch, procVars
<1>2. /\ pNow' \in used
      /\ remainQuantum' = Quantum
      /\ \A t \in used : flag'[t] = "RUNNING" <=> t = pNow'
      /\ \A p \in Prios : Distinct(readyList'[p])
      /\ \A p \in Prios, t \in Tasks :
            In(t, readyList'[p]) <=> t \in used /\ flag'[t] = "READY" /\ priority[t] = p
      /\ \A t \in Tasks : flag'[t] = "WAIT" <=> flag[t] = "WAIT"
      /\ \A t \in Tasks : flag'[t] = "WAITFOREXIT" <=> flag[t] = "WAITFOREXIT"
  BY <1>1, SwitchExact
<1>3. flag \in [Tasks -> Flags] /\ flag' \in [Tasks -> Flags] /\ used \subseteq Tasks
  BY DEF Inv, TypeOK
<1>4. FlagMatchesList'
  BY <1>1, <1>2 DEF Inv, FlagMatchesList, RunningIsNow, ReadyExact, WaitExact, ExitExact
<1>5. JoinConsistent'
  BY <1>1, <1>2, <1>3 DEF Inv, JoinConsistent, Resolves
<1>6. NoFault' /\ MainThreadOwned' /\ DyingOK'
  BY <1>1, <1>2, <1>3, NullAssumption DEF Inv, NoFault, MainThreadOwned, DyingOK, Resolves, TypeOK
<1>7. SystemTasks'
  BY <1>1, <1>2, <1>3, SystemSlots DEF Inv, SystemTasks, Flags
<1>8. StackLifetime' /\ IdleOK'
  BY <1>1, <1>2, NullAssumption DEF Inv, StackLifetime, IdleOK, TypeOK
<1>9. QuantumLeft'
  BY <1>1, <1>2, SizesAssumption DEF QuantumLeft
<1>10. QED BY <1>4, <1>5, <1>6, <1>7, <1>8, <1>9 DEF Inv

-----------------------------------------------------------------------------
(* Creation. *)

\* The slot ckTaskCreate_unsafe takes is a free one, not a system task's.
LEMMA FreeSlot ==
    ASSUME FreeSlots # {}
    PROVE  /\ Topmost(FreeSlots) \in Tasks /\ Topmost(FreeSlots) \notin used
           /\ Topmost(FreeSlots) \notin {Kernel, Idle}
<1>1. FreeSlots \subseteq Nat
  BY DEF FreeSlots, Tasks
<1>2. Topmost(FreeSlots) \in FreeSlots
  BY <1>1, TopmostLemma
<1>3. QED BY <1>2 DEF FreeSlots, Kernel, Idle, Tasks

\* A new task enters its ready list, joined by nobody and joining nobody,
\* whatever the slot's last user left in it.
LEMMA NewTaskInv ==
    ASSUME Inv, NEW p \in Procs, NEW prio \in Prios, NEW th,
           Running, FreeSlots # {}, NewTask(p, prio, th),
           UNCHANGED <<waitList, exitList, exitCut, schedVars, dying, idleVars, fault>>
    PROVE  /\ FlagMatchesList' /\ JoinConsistent' /\ NoFault' /\ SystemTasks'
           /\ StackLifetime' /\ DyingOK' /\ IdleOK' /\ QuantumLeft'
<1> DEFINE t == Topmost(FreeSlots)
<1>1. t \in Tasks /\ t \notin used /\ t \notin {Kernel, Idle}
  BY FreeSlot
<1>2. /\ used' = used \cup {t}
      /\ flag' = [flag EXCEPT ![t] = "READY"]
      /\ priority' = [priority EXCEPT ![t] = prio]
      /\ waitObj' = [waitObj EXCEPT ![t] = NULL]
      /\ waitMe' = [waitMe EXCEPT ![t] = <<>>]
      /\ stack' = stack \cup {t}
      /\ readyList' = [readyList EXCEPT ![prio] = Append(@, t)]
      /\ UNCHANGED <<waitList, exitList, pNow, remainQuantum, dying, idlePc, idleTask, fault>>
  BY DEF NewTask, schedVars, idleVars
<1> HIDE DEF t
<1>3. /\ flag \in [Tasks -> Flags] /\ priority \in [Tasks -> Prios]
      /\ waitObj \in [Tasks -> Tasks \cup {NULL}] /\ waitMe \in [Tasks -> Seq(Tasks)]
      /\ readyList \in [Prios -> Seq(Tasks)] /\ used \subseteq Tasks
      /\ idleTask \in Tasks \cup {NULL} /\ pNow \in Tasks
  BY DEF Inv, TypeOK
<1>4. \A u \in Tasks :
         /\ flag'[u] = IF u = t THEN "READY" ELSE flag[u]
         /\ priority'[u] = IF u = t THEN prio ELSE priority[u]
         /\ waitObj'[u] = IF u = t THEN NULL ELSE waitObj[u]
         /\ waitMe'[u] = IF u = t THEN <<>> ELSE waitMe[u]
  BY <1>1, <1>2, <1>3
<1>5. FlagMatchesList'
  <2>1. ReadyExact'
    <3>1. (\A q \in Prios : Distinct(readyList[q])) /\ ~In(t, readyList[prio])
      BY <1>1 DEF Inv, FlagMatchesList, ReadyExact
    <3>2. /\ \A q \in Prios : Distinct(readyList'[q])
          /\ \A q \in Prios, u \in Tasks :
                In(u, readyList'[q]) <=> In(u, readyList[q]) \/ (q = prio /\ u = t)
      BY <1>1, <1>2, <1>3, <3>1, ReadyPush
    <3>3. QED BY <1>1, <1>2, <1>4, <3>2 DEF Inv, FlagMatchesList, ReadyExact
  <2>2. WaitExact' /\ ExitExact'
    BY <1>1, <1>2, <1>4 DEF Inv, FlagMatchesList, WaitExact, ExitExact
  <2>3. (pNow \in used)' /\ RunningIsNow'
    BY <1>1, <1>2, <1>3, <1>4 DEF Inv, FlagMatchesList, RunningIsNow
  <2>4. QED BY <2>1, <2>2, <2>3 DEF FlagMatchesList
<1>6. JoinConsistent'
  <2>1. /\ \A u \in Tasks : waitObj[u] # NULL => u \in used /\ flag[u] = "WAIT"
        /\ \A u \in Tasks : waitMe[u] # <<>> => u \in used /\ flag[u] # "WAITFOREXIT"
        /\ \A u \in Tasks : Distinct(waitMe[u])
        /\ \A u, v \in Tasks : In(v, waitMe[u]) <=> waitObj[v] = u
    BY DEF Inv, JoinConsistent, Resolves
  <2>2. \A u \in Tasks : waitObj[u] # t
    BY <1>1, <2>1, EmptyLemma
  <2>3. \A u, v \in Tasks : In(v, waitMe'[u]) <=> waitObj'[v] = u
    BY <1>1, <1>4, <2>1, <2>2, EmptyLemma, NullAssumption
  <2>4. QED BY <1>1, <1>2, <1>4, <2>1, <2>3, EmptyLemma DEF JoinConsistent, Resolves
<1>7. NoFault' /\ DyingOK'
  BY <1>2 DEF Inv, NoFault, DyingOK, Running
<1>8. SystemTasks'
  BY <1>1, <1>2, <1>4, SystemSlots DEF Inv, SystemTasks
<1>9. StackLifetime' /\ IdleOK'
  BY <1>1, <1>2, <1>3, <1>4 DEF Inv, StackLifetime, IdleOK
<1>10. QuantumLeft'
  BY <1>2 DEF Inv, QuantumLeft
<1>11. QED BY <1>5, <1>6, <1>7, <1>8, <1>9, <1>10

\* Creating a task keeps the invariant.
LEMMA CreateInv ==
    ASSUME Inv, TypeOK', NEW p \in Procs, NEW prio \in UserPrios, Create(p, prio)
    PROVE  Inv'
<1>1. prio \in Prios
  BY SizesAssumption
<1>2. /\ Running /\ FreeSlots # {} /\ NewTask(p, prio, threads)
      /\ UNCHANGED <<waitList, exitList, exitCut, schedVars, pMainThread, dying, idleVars, fault>>
  BY DEF Create
<1>3. MainThreadOwned'
  <2> DEFINE t == Topmost(FreeSlots)
  <2>1. t \in Tasks /\ t \notin used
    BY <1>2, FreeSlot
  <2>2. /\ used' = used \cup {t}
        /\ flag' = [flag EXCEPT ![t] = "READY"]
        /\ pProcess' = [pProcess EXCEPT ![t] = p]
        /\ pMainThread' = pMainThread
    BY <1>2 DEF NewTask
  <2> HIDE DEF t
  <2>3. QED BY <2>1, <2>2 DEF Inv, TypeOK, MainThreadOwned, Resolves
<1>4. QED BY <1>1, <1>2, <1>3, NewTaskInv DEF Inv

\* The new process's main thread is the task made for it.
LEMMA CreateProcessInv ==
    ASSUME Inv, TypeOK', ProperApi, NEW q \in Procs, NEW prio \in UserPrios,
           CreateProcess(q, prio)
    PROVE  Inv'
<1> DEFINE p == Topmost({r \in Procs : pageDir[r] = "null"})
           th == [threads EXCEPT ![p] = {}]
           t == Topmost(FreeSlots)
<1>1. prio \in Prios
  BY SizesAssumption
<1>2. p \in Procs
  <2>1. {r \in Procs : pageDir[r] = "null"} # {}
    BY DEF CreateProcess
  <2>2. {r \in Procs : pageDir[r] = "null"} \subseteq Nat
    BY DEF Procs
  <2>3. QED BY <2>1, <2>2, TopmostLemma
<1>3. /\ Running /\ FreeSlots # {} /\ NewTask(p, prio, th)
      /\ pMainThread' = [pMainThread EXCEPT ![p] = t]
      /\ UNCHANGED <<waitList, exitList, exitCut, schedVars, dying, idleVars, fault>>
  BY DEF CreateProcess, UserRuns, ProperApi, Misuses
<1> HIDE DEF p, th
<1>4. MainThreadOwned'
  <2>1. t \in Tasks /\ t \notin used
    BY <1>3, FreeSlot
  <2>2. /\ used' = used \cup {t}
        /\ flag' = [flag EXCEPT ![t] = "READY"]
        /\ pProcess' = [pProcess EXCEPT ![t] = p]
    BY <1>3 DEF NewTask
  <2> HIDE DEF t
  <2>3. /\ \A r \in Procs : pMainThread'[r] = IF r = p THEN t ELSE pMainThread[r]
        /\ \A u \in Tasks : flag'[u] = IF u = t THEN "READY" ELSE flag[u]
        /\ \A u \in Tasks : pProcess'[u] = IF u = t THEN p ELSE pProcess[u]
    BY <1>2, <1>3, <2>1, <2>2 DEF Inv, TypeOK
  <2>4. \A r \in Procs : pMainThread[r] # NULL =>
           /\ pMainThread[r] \in Tasks /\ pMainThread[r] \in used
           /\ flag[pMainThread[r]] # "WAITFOREXIT" /\ pProcess[pMainThread[r]] = r
    BY DEF Inv, TypeOK, MainThreadOwned, Resolves
  <2>5. QED BY <2>1, <2>2, <2>3, <2>4 DEF MainThreadOwned, Resolves
<1>5. QED BY <1>1, <1>2, <1>3, <1>4, NewTaskInv DEF Inv

-----------------------------------------------------------------------------
(* Waking, and the steps of a termination. *)

\* Waking a task that waits moves it from WaitList to its ready list.
LEMMA WakesExact ==
    ASSUME Inv, NEW u \in Tasks, u \in used, flag[u] = "WAIT", Wakes(u),
           UNCHANGED <<used, priority, exitList, pNow, idleTask>>
    PROVE  /\ FlagMatchesList' /\ fault' = "none"
           /\ \A t \in Tasks : flag'[t] = IF t = u THEN "READY" ELSE flag[t]
<1>1. /\ waitList' = Erase(waitList, u)
      /\ flag' = [flag EXCEPT ![u] = "READY"]
      /\ readyList' = [readyList EXCEPT ![priority[u]] = Append(@, u)]
      /\ fault' = EraseFault(waitList, u)
  BY DEF Wakes
<1>2. /\ flag \in [Tasks -> Flags] /\ used \subseteq Tasks /\ priority[u] \in Prios
      /\ readyList \in [Prios -> Seq(Tasks)] /\ waitList \in Seq(Tasks)
  BY DEF Inv, TypeOK
<1>3. \A t \in Tasks : flag'[t] = IF t = u THEN "READY" ELSE flag[t]
  BY <1>1, <1>2
<1>4. /\ Distinct(waitList) /\ In(u, waitList)
      /\ \A q \in Prios : Distinct(readyList[q]) /\ ~In(u, readyList[q])
  BY DEF Inv, FlagMatchesList, WaitExact, ReadyExact
<1>5. ReadyExact'
  <2>1. /\ \A q \in Prios : Distinct(readyList'[q])
        /\ \A q \in Prios, t \in Tasks :
              In(t, readyList'[q]) <=> In(t, readyList[q]) \/ (q = priority[u] /\ t = u)
    BY <1>1, <1>2, <1>4, ReadyPush
  <2>2. QED BY <1>2, <1>3, <2>1 DEF Inv, FlagMatchesList, ReadyExact
<1>6. WaitExact'
  <2>1. /\ Distinct(waitList')
        /\ \A t : In(t, waitList') <=> In(t, waitList) /\ t # u
    BY <1>1, <1>2, <1>4, EraseLemma
  <2>2. QED BY <1>3, <2>1 DEF Inv, FlagMatchesList, WaitExact
<1>7. ExitExact'
  BY <1>3 DEF Inv, FlagMatchesList, ExitExact
<1>8. (pNow \in used)' /\ RunningIsNow'
  BY <1>2, <1>3 DEF Inv, FlagMatchesList, RunningIsNow
<1>9. fault' = "none"
  BY <1>1, <1>4 DEF EraseFault
<1>10. QED BY <1>3, <1>5, <1>6, <1>7, <1>8, <1>9 DEF FlagMatchesList

\* The first step of a termination keeps the invariant.
LEMMA BeginTerminateInv ==
    ASSUME Inv, TypeOK', ProperApi, NEW t \in Tasks, BeginTerminate(t)
    PROVE  Inv'
<1>1. /\ Resolves(t) /\ t \notin {Kernel, Idle}
      /\ flag[t] = "WAIT" => waitObj[t] # NULL
      /\ dying' = t
      /\ UNCHANGED <<used, flag, priority, waitObj, waitMe, pProcess, stack, readyList,
                     waitList, exitList, pNow, remainQuantum, pMainThread, idlePc,
                     idleTask, fault>>
  BY DEF BeginTerminate, ProperApi, Misuses, listVars, schedVars, procVars, idleVars
<1>2. FlagMatchesList' /\ JoinConsistent' /\ NoFault' /\ SystemTasks'
  BY <1>1 DEF Inv, FlagMatchesList, RunningIsNow, ReadyExact, WaitExact, ExitExact,
              JoinConsistent, NoFault, SystemTasks, Resolves
<1>3. MainThreadOwned' /\ StackLifetime' /\ DyingOK' /\ IdleOK' /\ QuantumLeft'
  BY <1>1 DEF Inv, MainThreadOwned, StackLifetime, DyingOK, IdleOK, QuantumLeft, Resolves
<1>4. QED BY <1>2, <1>3 DEF Inv

\* The next joiner of the dying task stops waiting and is ready; the others
\* still wait, on the same task.
LEMMA WakeJoinerInv ==
    ASSUME Inv, TypeOK', WakeJoiner
    PROVE  Inv'
<1> DEFINE u == Head(waitMe[dying])
           d == dying
<1>1. /\ d \in Tasks /\ waitMe[d] \in Seq(Tasks) /\ waitMe[d] # <<>>
      /\ waitMe \in [Tasks -> Seq(Tasks)] /\ waitObj \in [Tasks -> Tasks \cup {NULL}]
      /\ flag \in [Tasks -> Flags]
  BY DEF WakeJoiner, Inv, TypeOK
<1>2. /\ u \in Tasks /\ In(u, waitMe[d])
      /\ Tail(waitMe[d]) \in Seq(Tasks)
      /\ Distinct(Tail(waitMe[d]))
      /\ \A v : In(v, Tail(waitMe[d])) <=> In(v, waitMe[d]) /\ v # u
  <2>1. Distinct(waitMe[d])
    BY <1>1 DEF Inv, JoinConsistent
  <2>2. /\ u \in Tasks /\ Tail(waitMe[d]) \in Seq(Tasks) /\ In(u, waitMe[d])
        /\ \A v : In(v, Tail(waitMe[d])) => In(v, waitMe[d])
        /\ \A v : In(v, waitMe[d]) => v = u \/ In(v, Tail(waitMe[d]))
        /\ Distinct(Tail(waitMe[d])) /\ ~In(u, Tail(waitMe[d]))
    BY <1>1, <2>1, PopFrontLemma
  <2>3. QED BY <2>2
<1>3. /\ waitMe' = [waitMe EXCEPT ![d] = Tail(@)]
      /\ waitObj' = [waitObj EXCEPT ![u] = NULL]
      /\ Wakes(u)
      /\ UNCHANGED <<used, priority, pProcess, stack, exitList, pNow, remainQuantum,
                     pMainThread, dying, idlePc, idleTask>>
  BY DEF WakeJoiner, schedVars, procVars, idleVars
<1> HIDE DEF u, d
<1>4. waitObj[u] = d /\ u \in used /\ flag[u] = "WAIT" /\ d # NULL
  <2>1. d # NULL
    BY <1>1, NullAssumption
  <2>2. waitObj[u] = d
    BY <1>1, <1>2 DEF Inv, JoinConsistent
  <2>3. QED BY <1>2, <2>1, <2>2 DEF Inv, JoinConsistent
<1>5. /\ FlagMatchesList' /\ fault' = "none"
      /\ \A t \in Tasks : flag'[t] = IF t = u THEN "READY" ELSE flag[t]
  BY <1>2, <1>3, <1>4, WakesExact
<1>6. \A t \in Tasks : /\ waitMe'[t] = IF t = d THEN Tail(waitMe[d]) ELSE waitMe[t]
                       /\ waitObj'[t] = IF t = u THEN NULL ELSE waitObj[t]
  BY <1>1, <1>2, <1>3
<1>7. JoinConsistent'
  <2>1. /\ \A t \in Tasks : waitObj[t] # NULL => t \in used /\ flag[t] = "WAIT"
        /\ \A t \in Tasks : waitMe[t] # <<>> => t \in used /\ flag[t] # "WAITFOREXIT"
        /\ \A t \in Tasks : Distinct(waitMe[t])
        /\ \A t, v \in Tasks : In(v, waitMe[t]) <=> waitObj[v] = t
    BY DEF Inv, JoinConsistent, Resolves
  <2>2. \A t, v \in Tasks : In(v, waitMe'[t]) <=> waitObj'[v] = t
    <3>1. TAKE t \in Tasks, v \in Tasks
    <3>2. CASE t = d
      <4>1. In(v, waitMe'[t]) <=> In(v, waitMe[d]) /\ v # u
        BY <1>2, <1>6, <3>2
      <4>2. In(v, waitMe[d]) <=> waitObj[v] = d
        BY <1>1, <2>1
      <4>3. waitObj'[v] = IF v = u THEN NULL ELSE waitObj[v]
        BY <1>6
      <4>4. QED BY <1>4, <3>2, <4>1, <4>2, <4>3
    <3>3. CASE t # d
      <4>1. In(v, waitMe'[t]) <=> waitObj[v] = t
        BY <1>6, <2>1, <3>3
      <4>2. waitObj'[v] = IF v = u THEN NULL ELSE waitObj[v]
        BY <1>6
      <4>3. t # NULL
        BY NullAssumption
      <4>4. QED BY <1>4, <3>3, <4>1, <4>2, <4>3
    <3>4. QED BY <3>2, <3>3
  <2>3. \A t \in Tasks : Distinct(waitMe'[t])
    BY <1>2, <1>6, <2>1
  <2>4. QED BY <1>1, <1>3, <1>5, <1>6, <2>1, <2>2, <2>3 DEF JoinConsistent, Resolves
<1>8. NoFault' /\ QuantumLeft'
  BY <1>3, <1>5 DEF Inv, NoFault, QuantumLeft
<1>9. SystemTasks' /\ MainThreadOwned'
  <2>1. SystemTasks'
    BY <1>3, <1>5, SystemSlots DEF Inv, SystemTasks
  <2>2. \A p \in Procs : pMainThread[p] # NULL =>
           /\ pMainThread[p] \in Tasks /\ pMainThread[p] \in used
           /\ flag[pMainThread[p]] # "WAITFOREXIT" /\ pProcess[pMainThread[p]] = p
    BY DEF Inv, TypeOK, MainThreadOwned, Resolves
  <2>3. MainThreadOwned'
    BY <1>3, <1>5, <2>2 DEF MainThreadOwned, Resolves
  <2>4. QED BY <2>1, <2>3
<1>10. StackLifetime' /\ IdleOK'
  BY <1>3, <1>4, <1>5 DEF Inv, StackLifetime, IdleOK, TypeOK
<1>11. DyingOK'
  BY <1>1, <1>3, <1>5, <1>6 DEF Inv, DyingOK, Resolves, d
<1>12. QED BY <1>5, <1>7, <1>8, <1>9, <1>10, <1>11 DEF Inv

\* A task that leaves its process is the main thread of none, and every other
\* main thread keeps its process.
LEMMA LeaveMain ==
    ASSUME Inv, NEW t \in Tasks, LeaveProcess(t)
    PROVE  \A q \in Procs : pMainThread'[q] # NULL =>
              /\ pMainThread'[q] = pMainThread[q] /\ pMainThread'[q] # t
              /\ pProcess'[pMainThread[q]] = q
<1> DEFINE p == pProcess[t]
<1>1. /\ pMainThread \in [Procs -> Tasks \cup {NULL}]
      /\ pProcess \in [Tasks -> Procs \cup {NULL}]
      /\ \A q \in Procs : pMainThread[q] # NULL => pProcess[pMainThread[q]] = q
  BY DEF Inv, TypeOK, MainThreadOwned
<1>2. \A q \in Procs : pMainThread[q] = t => q = p
  BY <1>1, NullAssumption
<1>3. CASE pMainThread[p] = t
  <2>1. pMainThread' = [pMainThread EXCEPT ![p] = NULL] /\ pProcess' = pProcess
    BY <1>3 DEF LeaveProcess
  <2> HIDE DEF p
  <2>2. \A q \in Procs : pMainThread'[q] = IF q = p THEN NULL ELSE pMainThread[q]
    BY <1>1, <2>1
  <2>3. QED BY <1>1, <1>2, <2>1, <2>2
<1>4. CASE pMainThread[p] # t
  <2>1. pMainThread' = pMainThread /\ pProcess' = [pProcess EXCEPT ![t] = NULL]
    BY <1>4 DEF LeaveProcess
  <2> HIDE DEF p
  <2>2. \A v \in Tasks : v # t => pProcess'[v] = pProcess[v]
    BY <1>1, <2>1
  <2>3. QED BY <1>1, <1>2, <1>4, <2>1, <2>2
<1>5. QED BY <1>3, <1>4

\* The running task gives up the CPU to wait or for good, and another one takes it.
LEMMA GiveUpExact ==
    ASSUME Inv, NEW f \in {"WAIT", "WAITFOREXIT"}, NEW left,
           Schedule(readyList, [flag EXCEPT ![pNow] = f], left)
    PROVE  /\ pNow' \in used
           /\ remainQuantum' = Quantum
           /\ \A t \in used : flag'[t] = "RUNNING" <=> t = pNow'
           /\ \A p \in Prios : Distinct(readyList'[p])
           /\ \A p \in Prios, t \in Tasks :
                 In(t, readyList'[p]) <=> t \in used /\ flag'[t] = "READY" /\ priority[t] = p
           /\ \A t \in Tasks : flag'[t] = "WAIT" <=> flag[t] = "WAIT" \/ (t = pNow /\ f = "WAIT")
           /\ \A t \in Tasks : flag'[t] = "WAITFOREXIT"
                 <=> flag[t] = "WAITFOREXIT" \/ (t = pNow /\ f = "WAITFOREXIT")
<1> DEFINE fl == [flag EXCEPT ![pNow] = f]
<1>1. TypeOK /\ readyList \in [Prios -> Seq(Tasks)] /\ flag \in [Tasks -> Flags]
  BY DEF Inv, TypeOK
<1>2. pNow \in used /\ pNow \in Tasks /\ flag[pNow] = "RUNNING"
  BY RunningTask
<1>3. /\ fl \in [Tasks -> Flags]
      /\ \A t \in Tasks : fl[t] = IF t = pNow THEN f ELSE flag[t]
  BY <1>1, <1>2 DEF Flags
<1>4. Schedule(readyList, fl, left)
  OBVIOUS
<1> HIDE DEF fl
<1>5. \A p \in Prios : Distinct(readyList[p])
  BY DEF Inv, FlagMatchesList, ReadyExact
<1>6. \A p \in Prios, t \in Tasks :
            In(t, readyList[p]) <=> t \in used /\ fl[t] = "READY" /\ priority[t] = p
  BY <1>2, <1>3 DEF Inv, FlagMatchesList, ReadyExact
<1>7. (\A t \in used : fl[t] = "RUNNING" => t = pNow) /\ fl[pNow] # "READY"
  BY <1>1, <1>2, <1>3 DEF Inv, FlagMatchesList, RunningIsNow, TypeOK
<1>8. /\ pNow' \in used
      /\ remainQuantum' = Quantum
      /\ \A t \in used : flag'[t] = "RUNNING" <=> t = pNow'
      /\ \A p \in Prios : Distinct(readyList'[p])
      /\ \A p \in Prios, t \in Tasks :
            In(t, readyList'[p]) <=> t \in used /\ flag'[t] = "READY" /\ priority[t] = p
      /\ \A t \in Tasks : flag'[t] = "WAIT" <=> fl[t] = "WAIT"
      /\ \A t \in Tasks : flag'[t] = "WAITFOREXIT" <=> fl[t] = "WAITFOREXIT"
  BY <1>1, <1>2, <1>3, <1>4, <1>5, <1>6, <1>7, Replaceable, ScheduleExact
<1>9. QED BY <1>2, <1>3, <1>8

\* A task that terminates itself joins the tasks the idle task has to clean up;
\* by then nobody joins it, and its process has another main thread or none.
LEMMA TerminateSelfInv ==
    ASSUME Inv, TypeOK', TerminateSelf
    PROVE  Inv'
<1>1. /\ dying = pNow /\ waitMe[pNow] = <<>>
      /\ LeaveProcess(pNow)
      /\ exitList' = Append(exitList, pNow)
      /\ Schedule(readyList, [flag EXCEPT ![pNow] = "WAITFOREXIT"], remainQuantum)
      /\ fault' = IF waitObj[pNow] = NULL THEN "none" ELSE "assert"
      /\ dying' = NULL
      /\ UNCHANGED <<used, priority, waitObj, waitMe, stack, waitList, idlePc, idleTask>>
  BY DEF TerminateSelf, idleVars
<1>2. /\ pNow \in used /\ pNow \in Tasks /\ flag[pNow] = "RUNNING"
      /\ waitObj[pNow] = NULL /\ ~In(pNow, exitList) /\ pNow # idleTask
  BY RunningTask
<1>3. /\ pNow' \in used
      /\ remainQuantum' = Quantum
      /\ \A t \in used : flag'[t] = "RUNNING" <=> t = pNow'
      /\ \A p \in Prios : Distinct(readyList'[p])
      /\ \A p \in Prios, t \in Tasks :
            In(t, readyList'[p]) <=> t \in used /\ flag'[t] = "READY" /\ priority[t] = p
      /\ \A t \in Tasks : flag'[t] = "WAIT" <=> flag[t] = "WAIT"
      /\ \A t \in Tasks : flag'[t] = "WAITFOREXIT" <=> flag[t] = "WAITFOREXIT" \/ t = pNow
  BY <1>1, GiveUpExact
<1>4. /\ used \subseteq Tasks /\ exitList \in Seq(Tasks)
      /\ flag \in [Tasks -> Flags] /\ flag' \in [Tasks -> Flags]
  BY DEF Inv, TypeOK
<1>5. FlagMatchesList'
  <2>1. /\ Distinct(exitList')
        /\ \A t : In(t, exitList') <=> In(t, exitList) \/ t = pNow
    BY <1>1, <1>2, <1>4, PushBackLemma DEF Inv, FlagMatchesList, ExitExact
  <2>2. ExitExact'
    BY <1>1, <1>2, <1>3, <2>1 DEF Inv, FlagMatchesList, ExitExact
  <2>3. WaitExact'
    BY <1>1, <1>3 DEF Inv, FlagMatchesList, WaitExact
  <2>4. ReadyExact' /\ RunningIsNow' /\ (pNow \in used)'
    BY <1>1, <1>3 DEF ReadyExact, RunningIsNow
  <2>5. QED BY <2>2, <2>3, <2>4 DEF FlagMatchesList
<1>6. JoinConsistent'
  <2>1. /\ \A t \in Tasks : waitObj[t] # NULL => t \in used /\ flag[t] = "WAIT"
        /\ \A t \in Tasks : waitMe[t] # <<>> => t \in used /\ flag[t] # "WAITFOREXIT"
        /\ \A t \in Tasks : Distinct(waitMe[t])
        /\ \A t, v \in Tasks : In(v, waitMe[t]) <=> waitObj[v] = t
    BY DEF Inv, JoinConsistent, Resolves
  <2>2. QED BY <1>1, <1>3, <2>1 DEF JoinConsistent, Resolves
<1>7. NoFault' /\ DyingOK'
  BY <1>1, <1>2 DEF NoFault, DyingOK
<1>8. SystemTasks'
  <2>1. pNow \notin {Kernel, Idle}
    BY <1>1, <1>2, NullAssumption DEF Inv, DyingOK
  <2>2. QED BY <1>1, <1>3, <1>4, <2>1, SystemSlots DEF Inv, SystemTasks, Flags
<1>9. MainThreadOwned'
  <2>1. \A p \in Procs : pMainThread[p] # NULL =>
           /\ pMainThread[p] \in Tasks /\ pMainThread[p] \in used
           /\ flag[pMainThread[p]] # "WAITFOREXIT"
    BY DEF Inv, TypeOK, MainThreadOwned, Resolves
  <2>2. \A q \in Procs : pMainThread'[q] # NULL =>
              /\ pMainThread'[q] = pMainThread[q] /\ pMainThread'[q] # pNow
              /\ pProcess'[pMainThread[q]] = q
    BY <1>1, <1>2, LeaveMain
  <2>3. QED BY <1>1, <1>3, <2>1, <2>2 DEF MainThreadOwned, Resolves
<1>10. StackLifetime' /\ IdleOK'
  BY <1>1, <1>2, <1>3, <1>4 DEF Inv, StackLifetime, IdleOK
<1>11. QuantumLeft'
  BY <1>3, SizesAssumption DEF QuantumLeft
<1>12. QED BY <1>5, <1>6, <1>7, <1>8, <1>9, <1>10, <1>11 DEF Inv

-----------------------------------------------------------------------------
(* Terminating another task. *)

\* Whether it waits or is ready, it leaves every list it is on, and no other
\* task leaves one.
LEMMA UnlinkExact ==
    ASSUME Inv, NEW d \in Tasks, Resolves(d), d # pNow,
           flag[d] = "WAIT" => waitObj[d] # NULL,
           UnlinkWaiting(d) \/ UnlinkReady(d)
    PROVE  /\ fault' = "none"
           /\ \A q \in Prios : Distinct(readyList'[q])
           /\ \A q \in Prios, t \in Tasks : In(t, readyList'[q]) <=> In(t, readyList[q]) /\ t # d
           /\ Distinct(waitList')
           /\ \A t \in Tasks : In(t, waitList') <=> In(t, waitList) /\ t # d
           /\ \A t \in Tasks : Distinct(waitMe'[t])
           /\ \A t, v \in Tasks : In(v, waitMe'[t]) <=> In(v, waitMe[t]) /\ v # d
           /\ \A t \in Tasks : waitMe'[t] # <<>> => waitMe[t] # <<>>
           /\ \A v \in Tasks : waitObj'[v] = IF v = d THEN NULL ELSE waitObj[v]
<1>1. /\ flag \in [Tasks -> Flags] /\ priority \in [Tasks -> Prios]
      /\ waitObj \in [Tasks -> Tasks \cup {NULL}] /\ waitMe \in [Tasks -> Seq(Tasks)]
      /\ readyList \in [Prios -> Seq(Tasks)] /\ waitList \in Seq(Tasks)
      /\ d \in used /\ flag[d] # "WAITFOREXIT" /\ priority[d] \in Prios
  BY DEF Inv, TypeOK, Resolves
<1>2. flag[d] = "WAIT" \/ flag[d] = "READY"
  BY <1>1 DEF Inv, FlagMatchesList, RunningIsNow, Flags
<1>3. /\ \A q \in Prios : Distinct(readyList[q])
      /\ \A q \in Prios : In(d, readyList[q]) <=> flag[d] = "READY" /\ priority[d] = q
      /\ Distinct(waitList) /\ (In(d, waitList) <=> flag[d] = "WAIT")
  BY <1>1 DEF Inv, FlagMatchesList, ReadyExact, WaitExact
<1>4. /\ \A t \in Tasks : Distinct(waitMe[t])
      /\ \A t \in Tasks : In(d, waitMe[t]) <=> waitObj[d] = t
      /\ waitObj[d] # NULL => flag[d] = "WAIT"
  BY DEF Inv, JoinConsistent
<1>5. CASE UnlinkWaiting(d)
  <2> DEFINE x == waitObj[d]
  <2>1. /\ x # NULL
        /\ waitMe' = [waitMe EXCEPT ![x] = Erase(@, d)]
        /\ waitObj' = [waitObj EXCEPT ![d] = NULL]
        /\ waitList' = Erase(waitList, d)
        /\ fault' = IF flag[d] # "WAIT" THEN "assert"
                    ELSE IF In(d, waitMe[x]) THEN EraseFault(waitList, d) ELSE "list"
        /\ readyList' = readyList
    BY <1>5 DEF UnlinkWaiting
  <2>2. x \in Tasks /\ flag[d] = "WAIT" /\ In(d, waitMe[x])
    BY <1>1, <1>4, <2>1
  <2>3. fault' = "none"
    BY <1>3, <2>1, <2>2 DEF EraseFault
  <2>4. /\ Distinct(waitList')
        /\ \A t : In(t, waitList') <=> In(t, waitList) /\ t # d
    BY <1>1, <1>3, <2>1, EraseLemma
  <2>5. /\ Distinct(Erase(waitMe[x], d))
        /\ \A v : In(v, Erase(waitMe[x], d)) <=> In(v, waitMe[x]) /\ v # d
        /\ ~In(d, waitMe[x]) => Erase(waitMe[x], d) = waitMe[x]
    BY <1>1, <1>4, <2>2, EraseLemma
  <2>6. Erase(waitMe[x], d) # <<>> => waitMe[x] # <<>>
    BY <2>5, EmptyLemma
  <2>7. \A t \in Tasks : waitMe'[t] = IF t = x THEN Erase(waitMe[x], d) ELSE waitMe[t]
    BY <1>1, <2>1, <2>2
  <2>8. \A v \in Tasks : waitObj'[v] = IF v = d THEN NULL ELSE waitObj[v]
    BY <1>1, <2>1
  <2> HIDE DEF x
  <2>9. \A q \in Prios, t \in Tasks : In(t, readyList'[q]) <=> In(t, readyList[q]) /\ t # d
    BY <1>3, <2>1, <2>2
  <2>10. \A t, v \in Tasks : In(v, waitMe'[t]) <=> In(v, waitMe[t]) /\ v # d
    <3>1. TAKE t \in Tasks, v \in Tasks
    <3>2. CASE t = x
      BY <2>5, <2>7, <3>2
    <3>3. CASE t # x
      BY <1>4, <2>7, <3>3 DEF x
    <3>4. QED BY <3>2, <3>3
  <2>11. /\ \A t \in Tasks : Distinct(waitMe'[t])
         /\ \A t \in Tasks : waitMe'[t] # <<>> => waitMe[t] # <<>>
    BY <1>4, <2>5, <2>6, <2>7
  <2>12. QED BY <1>3, <2>1, <2>3, <2>4, <2>8, <2>9, <2>10, <2>11
<1>6. CASE UnlinkReady(d)
  <2>1. /\ waitObj[d] = NULL
        /\ readyList' = [readyList EXCEPT ![priority[d]] = Erase(@, d)]
        /\ fault' = IF flag[d] # "READY" THEN "assert"
                    ELSE EraseFault(readyList[priority[d]], d)
        /\ waitMe' = waitMe /\ waitObj' = waitObj /\ waitList' = waitList
    BY <1>6 DEF UnlinkReady
  <2>2. flag[d] = "READY"
    BY <1>2, <2>1
  <2>3. fault' = "none"
    BY <1>1, <1>3, <2>1, <2>2 DEF EraseFault
  <2> DEFINE r1 == [readyList EXCEPT ![priority[d]] = Erase(@, d)]
  <2>3a. /\ r1 \in [Prios -> Seq(Tasks)]
         /\ \A q \in Prios : Distinct(r1[q])
         /\ \A q \in Prios, t \in Tasks :
               In(t, r1[q]) <=> In(t, readyList[q]) /\ ~(q = priority[d] /\ t = d)
    <3>1. (\A q \in Prios : Distinct(readyList[q])) /\ priority[d] \in Prios
      BY <1>1, <1>3
    <3>2. QED BY <1>1, <3>1, ReadyErase
  <2> HIDE DEF r1
  <2>4. /\ \A q \in Prios : Distinct(readyList'[q])
        /\ \A q \in Prios, t \in Tasks :
              In(t, readyList'[q]) <=> In(t, readyList[q]) /\ ~(q = priority[d] /\ t = d)
    <3>1. readyList' = r1
      BY <2>1 DEF r1
    <3>2. QED BY <2>3a, <3>1
  <2>5. \A q \in Prios, t \in Tasks : In(t, readyList'[q]) <=> In(t, readyList[q]) /\ t # d
    BY <1>3, <2>2, <2>4
  <2>6. \A t, v \in Tasks : In(v, waitMe'[t]) <=> In(v, waitMe[t]) /\ v # d
    BY <1>4, <2>1, NullAssumption
  <2>7. /\ \A t \in Tasks : In(t, waitList') <=> In(t, waitList) /\ t # d
        /\ \A v \in Tasks : waitObj'[v] = IF v = d THEN NULL ELSE waitObj[v]
    BY <1>3, <2>1, <2>2
  <2>8. QED BY <1>3, <1>4, <2>1, <2>3, <2>4, <2>5, <2>6, <2>7
<1>7. QED BY <1>5, <1>6

\* Its slot is freed in the same step; by then nobody joins it.
LEMMA TerminateOtherInv ==
    ASSUME Inv, TypeOK', TerminateOther
    PROVE  Inv'
<1> DEFINE d == dying
<1>1. /\ d # NULL /\ d # pNow /\ waitMe[d] = <<>>
      /\ LeaveProcess(d)
      /\ UnlinkWaiting(d) \/ UnlinkReady(d)
      /\ stack' = stack \ {d} /\ used' = used \ {d} /\ dying' = NULL
      /\ UNCHANGED <<flag, priority, exitList, pNow, remainQuantum, idlePc, idleTask>>
  BY DEF TerminateOther, schedVars, idleVars
<1>2. /\ Resolves(d) /\ d \notin {Kernel, Idle} /\ d \in Tasks
      /\ flag[d] = "WAIT" => waitObj[d] # NULL
  BY <1>1 DEF Inv, DyingOK, TypeOK
<1> HIDE DEF d
<1>3. /\ fault' = "none"
      /\ \A q \in Prios : Distinct(readyList'[q])
      /\ \A q \in Prios, t \in Tasks : In(t, readyList'[q]) <=> In(t, readyList[q]) /\ t # d
      /\ Distinct(waitList')
      /\ \A t \in Tasks : In(t, waitList') <=> In(t, waitList) /\ t # d
      /\ \A t \in Tasks : Distinct(waitMe'[t])
      /\ \A t, v \in Tasks : In(v, waitMe'[t]) <=> In(v, waitMe[t]) /\ v # d
      /\ \A t \in Tasks : waitMe'[t] # <<>> => waitMe[t] # <<>>
      /\ \A v \in Tasks : waitObj'[v] = IF v = d THEN NULL ELSE waitObj[v]
  BY <1>1, <1>2, UnlinkExact
<1>4. flag[d] # "WAITFOREXIT" /\ d \in used /\ used \subseteq Tasks
  BY <1>2 DEF Resolves, Inv, TypeOK
<1>5. FlagMatchesList'
  <2>1. (pNow \in used)' /\ RunningIsNow'
    BY <1>1, <1>4 DEF Inv, FlagMatchesList, RunningIsNow
  <2>2. ReadyExact'
    BY <1>1, <1>3 DEF Inv, FlagMatchesList, ReadyExact
  <2>3. WaitExact'
    BY <1>1, <1>3 DEF Inv, FlagMatchesList, WaitExact
  <2>4. ExitExact'
    BY <1>1, <1>2, <1>4 DEF Inv, FlagMatchesList, ExitExact
  <2>5. QED BY <2>1, <2>2, <2>3, <2>4 DEF FlagMatchesList
<1>6. JoinConsistent'
  <2>1. /\ \A t \in Tasks : waitObj[t] # NULL => t \in used /\ flag[t] = "WAIT"
        /\ \A t \in Tasks : waitMe[t] # <<>> => t \in used /\ flag[t] # "WAITFOREXIT"
        /\ \A t, v \in Tasks : In(v, waitMe[t]) <=> waitObj[v] = t
    BY DEF Inv, JoinConsistent, Resolves
  <2>2. \A t, v \in Tasks : In(v, waitMe'[t]) <=> waitObj'[v] = t
    BY <1>3, <2>1, NullAssumption
  <2>3. QED BY <1>1, <1>3, <2>1, <2>2 DEF JoinConsistent, Resolves
<1>7. NoFault' /\ DyingOK' /\ QuantumLeft'
  BY <1>1, <1>3 DEF Inv, NoFault, DyingOK, QuantumLeft
<1>8. SystemTasks'
  BY <1>1, <1>2 DEF Inv, SystemTasks
<1>9. MainThreadOwned'
  <2>1. \A p \in Procs : pMainThread[p] # NULL =>
           /\ pMainThread[p] \in Tasks /\ pMainThread[p] \in used
           /\ flag[pMainThread[p]] # "WAITFOREXIT"
    BY DEF Inv, TypeOK, MainThreadOwned, Resolves
  <2>2. \A q \in Procs : pMainThread'[q] # NULL =>
              /\ pMainThread'[q] = pMainThread[q] /\ pMainThread'[q] # d
              /\ pProcess'[pMainThread[q]] = q
    BY <1>1, <1>2, LeaveMain
  <2>3. QED BY <1>1, <2>1, <2>2 DEF MainThreadOwned, Resolves
<1>10. StackLifetime' /\ IdleOK'
  BY <1>1, <1>4 DEF Inv, StackLifetime, IdleOK
<1>11. QED BY <1>5, <1>6, <1>7, <1>8, <1>9, <1>10 DEF Inv

-----------------------------------------------------------------------------
(* Suspending, joining and resuming. *)

\* ckTaskSuspend_byptr of the running task moves it to WaitList.
LEMMA SuspendNow ==
    ASSUME Inv, SuspendByPtr(pNow), UNCHANGED <<used, priority, exitList, idleTask>>
    PROVE  /\ FlagMatchesList' /\ fault' = "none" /\ remainQuantum' = Quantum
           /\ \A t \in Tasks : flag'[t] = "WAIT" <=> flag[t] = "WAIT" \/ t = pNow
           /\ \A t \in Tasks : flag'[t] = "WAITFOREXIT" <=> flag[t] = "WAITFOREXIT"
<1>1. /\ pNow \in used /\ pNow \in Tasks /\ flag[pNow] = "RUNNING"
      /\ ~In(pNow, waitList) /\ waitList \in Seq(Tasks)
  BY RunningTask DEF Inv, TypeOK
<1>2. /\ waitList' = Append(waitList, pNow)
      /\ Schedule(readyList, [flag EXCEPT ![pNow] = "WAIT"], remainQuantum)
      /\ fault' = "none"
  BY <1>1 DEF SuspendByPtr
<1>3. /\ pNow' \in used
      /\ remainQuantum' = Quantum
      /\ \A t \in used : flag'[t] = "RUNNING" <=> t = pNow'
      /\ \A p \in Prios : Distinct(readyList'[p])
      /\ \A p \in Prios, t \in Tasks :
            In(t, readyList'[p]) <=> t \in used /\ flag'[t] = "READY" /\ priority[t] = p
      /\ \A t \in Tasks : flag'[t] = "WAIT" <=> flag[t] = "WAIT" \/ t = pNow
      /\ \A t \in Tasks : flag'[t] = "WAITFOREXIT" <=> flag[t] = "WAITFOREXIT"
  BY <1>2, GiveUpExact
<1>4. WaitExact'
  <2>1. /\ Distinct(waitList')
        /\ \A t : In(t, waitList') <=> In(t, waitList) \/ t = pNow
    BY <1>1, <1>2, PushBackLemma DEF Inv, FlagMatchesList, WaitExact
  <2>2. QED BY <1>1, <1>3, <2>1 DEF Inv, FlagMatchesList, WaitExact
<1>5. ExitExact'
  BY <1>3 DEF Inv, FlagMatchesList, ExitExact
<1>6. ReadyExact' /\ RunningIsNow' /\ (pNow \in used)'
  BY <1>3 DEF ReadyExact, RunningIsNow
<1>7. QED BY <1>2, <1>3, <1>4, <1>5, <1>6 DEF FlagMatchesList

\* What a step keeps that neither ends a task nor touches the system tasks.
LEMMA RestKept ==
    ASSUME Inv, flag' \in [Tasks -> Flags],
           \A t \in Tasks : flag'[t] = "WAITFOREXIT" <=> flag[t] = "WAITFOREXIT",
           \A t \in {Kernel, Idle} : flag'[t] # "WAIT",
           dying' = NULL, remainQuantum' \in 1 .. Quantum,
           UNCHANGED <<used, pProcess, pMainThread, stack, idlePc, idleTask>>
    PROVE  SystemTasks' /\ MainThreadOwned' /\ StackLifetime' /\ DyingOK' /\ IdleOK'
           /\ QuantumLeft'
<1>1. SystemTasks'
  <2>1. SUFFICES ASSUME NEW t \in {Kernel, Idle}
                 PROVE  t \in used' /\ flag'[t] \in {"RUNNING", "READY"}
    BY DEF SystemTasks
  <2>2. t \in Tasks /\ t \in used /\ flag[t] \in {"RUNNING", "READY"}
    BY SystemSlots DEF Inv, SystemTasks
  <2>3. flag'[t] \in Flags /\ flag'[t] # "WAITFOREXIT" /\ flag'[t] # "WAIT"
    BY <2>2
  <2>4. QED BY <2>2, <2>3 DEF Flags
<1>2. MainThreadOwned'
  <2>1. \A p \in Procs : pMainThread[p] # NULL =>
           /\ pMainThread[p] \in Tasks /\ pMainThread[p] \in used
           /\ flag[pMainThread[p]] # "WAITFOREXIT" /\ pProcess[pMainThread[p]] = p
    BY DEF Inv, TypeOK, MainThreadOwned, Resolves
  <2>2. QED BY <2>1 DEF MainThreadOwned, Resolves
<1>3. StackLifetime' /\ DyingOK' /\ QuantumLeft'
  BY DEF Inv, StackLifetime, DyingOK, QuantumLeft
<1>4. IdleOK'
  BY DEF Inv, IdleOK, TypeOK
<1>5. QED BY <1>1, <1>2, <1>3, <1>4

\* A task suspends itself.
LEMMA SuspendInv ==
    ASSUME Inv, TypeOK', ProperApi, NEW t \in Tasks, Suspend(t)
    PROVE  Inv'
<1>1. /\ t = pNow /\ pNow \notin {Kernel, Idle} /\ SuspendByPtr(pNow) /\ dying = NULL
      /\ UNCHANGED <<used, priority, waitObj, waitMe, pProcess, stack, exitList,
                     pMainThread, dying, idlePc, idleTask>>
  BY DEF Suspend, ProperApi, Misuses, UserRuns, Running, procVars, idleVars
<1>2. /\ FlagMatchesList' /\ fault' = "none" /\ remainQuantum' = Quantum
      /\ \A u \in Tasks : flag'[u] = "WAIT" <=> flag[u] = "WAIT" \/ u = pNow
      /\ \A u \in Tasks : flag'[u] = "WAITFOREXIT" <=> flag[u] = "WAITFOREXIT"
  BY <1>1, SuspendNow
<1>3. JoinConsistent'
  <2>1. /\ \A u \in Tasks : waitObj[u] # NULL => u \in used /\ flag[u] = "WAIT"
        /\ \A u \in Tasks : waitMe[u] # <<>> => u \in used /\ flag[u] # "WAITFOREXIT"
        /\ \A u \in Tasks : Distinct(waitMe[u])
        /\ \A u, v \in Tasks : In(v, waitMe[u]) <=> waitObj[v] = u
    BY DEF Inv, JoinConsistent, Resolves
  <2>2. QED BY <1>1, <1>2, <2>1 DEF JoinConsistent, Resolves
<1>4. \A s \in {Kernel, Idle} : flag'[s] # "WAIT"
  BY <1>1, <1>2, SystemSlots DEF Inv, SystemTasks
<1>5. flag' \in [Tasks -> Flags] /\ remainQuantum' \in 1 .. Quantum
  BY <1>2, SizesAssumption DEF TypeOK
<1>6. QED BY <1>1, <1>2, <1>3, <1>4, <1>5, RestKept DEF Inv, NoFault

\* A task waits for one that has not terminated: it joins exactly that one.
LEMMA WaitInv ==
    ASSUME Inv, TypeOK', NEW t \in Tasks, Resolves(t), Wait(t)
    PROVE  Inv'
<1>1. waitObj[pNow] = NULL /\ pNow \in Tasks /\ pNow \in used
  BY RunningTask
<1>2. /\ pNow \notin {Kernel, Idle} /\ SuspendByPtr(pNow) /\ dying = NULL
      /\ waitObj' = [waitObj EXCEPT ![pNow] = t]
      /\ waitMe' = [waitMe EXCEPT ![t] = Append(@, pNow)]
      /\ UNCHANGED <<used, priority, pProcess, stack, exitList,
                     pMainThread, dying, idlePc, idleTask>>
  BY <1>1 DEF Wait, UserRuns, Running, procVars, idleVars
<1>3. /\ FlagMatchesList' /\ fault' = "none" /\ remainQuantum' = Quantum
      /\ \A u \in Tasks : flag'[u] = "WAIT" <=> flag[u] = "WAIT" \/ u = pNow
      /\ \A u \in Tasks : flag'[u] = "WAITFOREXIT" <=> flag[u] = "WAITFOREXIT"
  BY <1>2, SuspendNow
<1>4. JoinConsistent'
  <2>1. /\ \A u \in Tasks : waitObj[u] # NULL => u \in used /\ flag[u] = "WAIT"
        /\ \A u \in Tasks : waitMe[u] # <<>> => u \in used /\ flag[u] # "WAITFOREXIT"
        /\ \A u \in Tasks : Distinct(waitMe[u])
        /\ \A u, v \in Tasks : In(v, waitMe[u]) <=> waitObj[v] = u
        /\ ~In(pNow, waitMe[t])
    BY RunningTask DEF Inv, JoinConsistent, Resolves
  <2>2. /\ waitMe \in [Tasks -> Seq(Tasks)]
        /\ waitObj \in [Tasks -> Tasks \cup {NULL}]
    BY DEF Inv, TypeOK
  <2>3. /\ Append(waitMe[t], pNow) # <<>>
        /\ Distinct(Append(waitMe[t], pNow))
        /\ \A u : In(u, Append(waitMe[t], pNow)) <=> In(u, waitMe[t]) \/ u = pNow
    BY <1>1, <2>1, <2>2, PushBackLemma
  <2>4. \A u \in Tasks : /\ waitMe'[u] = IF u = t THEN Append(waitMe[t], pNow) ELSE waitMe[u]
                         /\ waitObj'[u] = IF u = pNow THEN t ELSE waitObj[u]
    BY <1>1, <1>2, <2>2
  <2>5. \A u, v \in Tasks : In(v, waitMe'[u]) <=> waitObj'[v] = u
    <3>1. TAKE u \in Tasks, v \in Tasks
    <3>2. In(v, waitMe[u]) <=> waitObj[v] = u
      BY <2>1
    <3>3. u # NULL
      BY NullAssumption
    <3>4. CASE u = t
      BY <1>1, <2>3, <2>4, <3>2, <3>4
    <3>5. CASE u # t
      BY <1>1, <2>4, <3>2, <3>3, <3>5
    <3>6. QED BY <3>4, <3>5
  <2>6. \A u \in Tasks : waitObj'[u] # NULL => u \in used' /\ flag'[u] = "WAIT"
    BY <1>1, <1>2, <1>3, <2>1, <2>4
  <2>7. \A u \in Tasks : Distinct(waitMe'[u])
    BY <2>1, <2>3, <2>4
  <2>8. \A u \in Tasks : waitMe'[u] # <<>> => u \in used' /\ flag'[u] # "WAITFOREXIT"
    BY <1>2, <1>3, <2>1, <2>4 DEF Resolves
  <2>9. QED BY <2>5, <2>6, <2>7, <2>8 DEF JoinConsistent, Resolves
<1>5. \A s \in {Kernel, Idle} : flag'[s] # "WAIT"
  BY <1>2, <1>3, SystemSlots DEF Inv, SystemTasks
<1>6. flag' \in [Tasks -> Flags] /\ remainQuantum' \in 1 .. Quantum
  BY <1>3, SizesAssumption DEF TypeOK
<1>7. QED BY <1>2, <1>3, <1>4, <1>5, <1>6, RestKept DEF Inv, NoFault

\* A suspended task is resumed; a joiner never is.
LEMMA ResumeInv ==
    ASSUME Inv, TypeOK', ProperApi, NEW t \in Tasks, Resume(t)
    PROVE  Inv'
<1>1. /\ t \in used /\ t \notin {Kernel, Idle} /\ flag[t] = "WAIT" /\ waitObj[t] = NULL
      /\ Wakes(t) /\ dying = NULL
      /\ UNCHANGED <<used, priority, waitObj, waitMe, pProcess, stack, exitList, pNow,
                     remainQuantum, pMainThread, dying, idlePc, idleTask>>
  BY DEF Resume, ProperApi, Misuses, UserRuns, Running, Resolves, schedVars, procVars, idleVars
<1>2. /\ FlagMatchesList' /\ fault' = "none"
      /\ \A u \in Tasks : flag'[u] = IF u = t THEN "READY" ELSE flag[u]
  BY <1>1, WakesExact
<1>3. JoinConsistent'
  <2>1. /\ \A u \in Tasks : waitObj[u] # NULL => u \in used /\ flag[u] = "WAIT"
        /\ \A u \in Tasks : waitMe[u] # <<>> => u \in used /\ flag[u] # "WAITFOREXIT"
        /\ \A u \in Tasks : Distinct(waitMe[u])
        /\ \A u, v \in Tasks : In(v, waitMe[u]) <=> waitObj[v] = u
    BY DEF Inv, JoinConsistent, Resolves
  <2>2. QED BY <1>1, <1>2, <2>1 DEF JoinConsistent, Resolves
<1>4. \A s \in {Kernel, Idle} : flag'[s] # "WAIT"
  BY <1>1, <1>2, SystemSlots DEF Inv, SystemTasks
<1>5. /\ flag' \in [Tasks -> Flags] /\ remainQuantum' \in 1 .. Quantum
      /\ \A u \in Tasks : flag'[u] = "WAITFOREXIT" <=> flag[u] = "WAITFOREXIT"
  BY <1>1, <1>2 DEF TypeOK, Inv, QuantumLeft
<1>6. QED BY <1>1, <1>2, <1>3, <1>4, <1>5, RestKept DEF Inv, NoFault

\* A ready task, or the running one, changes its level.
LEMMA ChangePriorityInv ==
    ASSUME Inv, ProperApi, TypeOK', NEW t \in Tasks, NEW prio \in UserPrios, ChangePriority(t, prio)
    PROVE  Inv'
<1>1. /\ t \in used /\ flag[t] # "WAITFOREXIT" /\ flag[t] # "WAIT" /\ priority[t] # prio
      /\ dying = NULL /\ prio \in Prios
      /\ priority' = [priority EXCEPT ![t] = prio]
      /\ UNCHANGED <<used, flag, waitObj, waitMe, pProcess, stack, waitList, exitList,
                     pNow, remainQuantum, pMainThread, dying, idlePc, idleTask>>
  BY SizesAssumption
     DEF ChangePriority, ProperApi, Misuses, UserRuns, Running, Resolves, schedVars, procVars, idleVars
<1>2. /\ flag \in [Tasks -> Flags] /\ priority \in [Tasks -> Prios] /\ priority[t] \in Prios
      /\ readyList \in [Prios -> Seq(Tasks)] /\ used \subseteq Tasks
  BY DEF Inv, TypeOK
<1>3. \A u \in Tasks : priority'[u] = IF u = t THEN prio ELSE priority[u]
  BY <1>1, <1>2
<1>4. /\ \A q \in Prios : Distinct(readyList[q])
      /\ \A q \in Prios, u \in Tasks :
            In(u, readyList[q]) <=> u \in used /\ flag[u] = "READY" /\ priority[u] = q
      /\ \A u \in used : flag[u] = "RUNNING" <=> u = pNow
  BY DEF Inv, FlagMatchesList, ReadyExact, RunningIsNow
<1>5. ReadyExact' /\ fault' = "none"
  <2>1. CASE t = pNow
    <3>1. readyList' = readyList /\ fault' = fault
      BY <2>1 DEF ChangePriority
    <3>2. flag[t] # "READY"
      BY <1>1, <1>4, <2>1
    <3>3. QED BY <1>1, <1>3, <1>4, <3>1, <3>2 DEF Inv, NoFault, ReadyExact
  <2>2. CASE t # pNow
    <3>1. flag[t] = "READY"
      BY <1>1, <1>2, <1>4, <2>2 DEF Flags
    <3> DEFINE r1 == [readyList EXCEPT ![priority[t]] = Erase(@, t)]
    <3>2. /\ readyList' = [readyList EXCEPT ![priority[t]] = Erase(@, t), ![prio] = Append(@, t)]
          /\ fault' = EraseFault(readyList[priority[t]], t)
      BY <2>2 DEF ChangePriority
    <3>3. readyList' = [r1 EXCEPT ![prio] = Append(@, t)]
      BY <1>1, <1>2, <3>2
    <3>4. /\ r1 \in [Prios -> Seq(Tasks)]
          /\ \A q \in Prios : Distinct(r1[q])
          /\ \A q \in Prios, u \in Tasks :
                In(u, r1[q]) <=> In(u, readyList[q]) /\ ~(q = priority[t] /\ u = t)
      BY <1>2, <1>4, ReadyErase
    <3> HIDE DEF r1
    <3>5. ~In(t, r1[prio])
      BY <1>1, <1>4, <3>4
    <3>6. /\ \A q \in Prios : Distinct(readyList'[q])
          /\ \A q \in Prios, u \in Tasks :
                In(u, readyList'[q]) <=> In(u, r1[q]) \/ (q = prio /\ u = t)
      BY <1>1, <3>3, <3>4, <3>5, ReadyPush
    <3>7. \A q \in Prios, u \in Tasks :
             In(u, readyList'[q]) <=> u \in used /\ flag[u] = "READY" /\ priority'[u] = q
      BY <1>1, <1>3, <1>4, <3>1, <3>4, <3>6
    <3>8. fault' = "none"
      BY <1>1, <1>2, <1>4, <3>1, <3>2 DEF EraseFault
    <3>9. QED BY <1>1, <3>6, <3>7, <3>8 DEF ReadyExact
  <2>3. QED BY <2>1, <2>2
<1>6. FlagMatchesList' /\ JoinConsistent'
  <2>1. (pNow \in used)' /\ RunningIsNow' /\ WaitExact' /\ ExitExact'
    BY <1>1 DEF Inv, FlagMatchesList, RunningIsNow, WaitExact, ExitExact
  <2>2. JoinConsistent'
    BY <1>1 DEF Inv, JoinConsistent, Resolves
  <2>3. QED BY <1>5, <2>1, <2>2 DEF FlagMatchesList
<1>7. \A s \in {Kernel, Idle} : flag'[s] # "WAIT"
  BY <1>1 DEF Inv, SystemTasks
<1>8. flag' \in [Tasks -> Flags] /\ remainQuantum' \in 1 .. Quantum
  BY <1>1, <1>2 DEF Inv, QuantumLeft
<1>9. QED BY <1>1, <1>5, <1>6, <1>7, <1>8, RestKept DEF Inv, NoFault

\* A tick that leaves the running task the CPU.
LEMMA CountDownInv ==
    ASSUME Inv, TypeOK', CountDown
    PROVE  Inv'
<1>1. /\ dying = NULL /\ Decremented # 0 /\ remainQuantum' = Decremented
      /\ UNCHANGED <<used, flag, priority, waitObj, waitMe, pProcess, stack, readyList,
                     waitList, exitList, pNow, pMainThread, dying, idlePc, idleTask, fault>>
  BY DEF CountDown, Running, listVars, procVars, idleVars
<1>2. remainQuantum' \in 1 .. Quantum
  BY <1>1, SizesAssumption DEF Inv, QuantumLeft, Decremented
<1>3. FlagMatchesList' /\ JoinConsistent' /\ NoFault'
  BY <1>1 DEF Inv, FlagMatchesList, RunningIsNow, ReadyExact, WaitExact, ExitExact,
              JoinConsistent, NoFault, Resolves
<1>4. flag' \in [Tasks -> Flags] /\ \A s \in {Kernel, Idle} : flag'[s] # "WAIT"
  BY <1>1 DEF Inv, SystemTasks, TypeOK
<1>5. QED BY <1>1, <1>2, <1>3, <1>4, RestKept DEF Inv

-----------------------------------------------------------------------------
(* The idle task. *)

\* The popped task is no longer on WaitForExitList, and is the idle task's.
LEMMA IdlePopInv ==
    ASSUME Inv, TypeOK', IdlePop
    PROVE  Inv'
<1>1. /\ idlePc = "pop" /\ dying = NULL
      /\ UNCHANGED <<used, flag, priority, waitObj, waitMe, pProcess, stack, readyList,
                     waitList, pNow, remainQuantum, pMainThread, dying, fault>>
  BY DEF IdlePop, IdleRuns, Running, unchangedByIdle, schedVars, procVars
<1>2. idleTask = NULL
  BY <1>1 DEF Inv, IdleOK
<1>3. JoinConsistent' /\ NoFault' /\ SystemTasks' /\ MainThreadOwned' /\ QuantumLeft' /\ DyingOK'
  BY <1>1 DEF Inv, JoinConsistent, NoFault, SystemTasks, MainThreadOwned, QuantumLeft,
              DyingOK, Resolves
<1>4. (pNow \in used)' /\ RunningIsNow' /\ ReadyExact' /\ WaitExact'
  BY <1>1 DEF Inv, FlagMatchesList, RunningIsNow, ReadyExact, WaitExact
<1>5. CASE exitList = <<>> \/ exitCut
  <2>1. idlePc' = "yield" /\ exitList' = exitList /\ idleTask' = idleTask
    BY <1>5 DEF IdlePop
  <2>2. ExitExact' /\ IdleOK' /\ StackLifetime'
    BY <1>1, <1>2, <2>1 DEF Inv, FlagMatchesList, ExitExact, IdleOK, StackLifetime
  <2>3. QED BY <1>3, <1>4, <2>2 DEF Inv, FlagMatchesList
<1>6. CASE exitList # <<>> /\ ~exitCut
  <2>1. /\ idleTask' = Head(exitList) /\ exitList' = Tail(exitList)
        /\ idlePc' \in {"link", "reap"}
    BY <1>6 DEF IdlePop
  <2>2. /\ Distinct(exitList) /\ exitList \in Seq(Tasks)
        /\ \A t \in Tasks : In(t, exitList) <=> t \in used /\ flag[t] = "WAITFOREXIT" /\ t # idleTask
    BY DEF Inv, TypeOK, FlagMatchesList, ExitExact
  <2>3. /\ Head(exitList) \in Tasks /\ In(Head(exitList), exitList)
        /\ Distinct(Tail(exitList)) /\ ~In(Head(exitList), Tail(exitList))
        /\ \A y : In(y, Tail(exitList)) => In(y, exitList)
        /\ \A y : In(y, exitList) => y = Head(exitList) \/ In(y, Tail(exitList))
    BY <1>6, <2>2, PopFrontLemma
  <2>4. ExitExact'
    <3>1. \A t \in Tasks : In(t, exitList')
             <=> t \in used /\ flag[t] = "WAITFOREXIT" /\ t # idleTask'
      <4>1. TAKE t \in Tasks
      <4>2. In(t, exitList) <=> t \in used /\ flag[t] = "WAITFOREXIT"
        BY <1>2, <2>2, NullAssumption
      <4>3. In(t, Tail(exitList)) <=> In(t, exitList) /\ t # Head(exitList)
        BY <2>3
      <4>4. QED BY <2>1, <4>2, <4>3
    <3>2. QED BY <1>1, <2>1, <2>3, <3>1 DEF ExitExact
  <2>5. IdleOK'
    BY <1>1, <2>1, <2>2, <2>3, NullAssumption DEF IdleOK
  <2>6. StackLifetime'
    BY <1>1, <1>2, <2>1, NullAssumption DEF Inv, StackLifetime
  <2>7. QED BY <1>3, <1>4, <2>4, <2>5, <2>6 DEF Inv, FlagMatchesList
<1>7. QED BY <1>5, <1>6

\* Its process's memory and its stack go before its slot does.
LEMMA IdleLinkReapInv ==
    ASSUME Inv, TypeOK', IdleLink \/ IdleReap \/ IdleFree
    PROVE  Inv'
<1>1. /\ dying = NULL
      /\ UNCHANGED <<used, flag, priority, waitObj, waitMe, pProcess, readyList, waitList,
                     exitList, pNow, remainQuantum, pMainThread, dying, idleTask, fault>>
  BY DEF IdleLink, IdleReap, IdleFree, IdleRuns, Running, unchangedByIdle, schedVars, procVars
<1>2. FlagMatchesList' /\ JoinConsistent' /\ NoFault'
  BY <1>1 DEF Inv, FlagMatchesList, RunningIsNow, ReadyExact, WaitExact, ExitExact,
              JoinConsistent, NoFault, Resolves
<1>3. SystemTasks' /\ MainThreadOwned' /\ QuantumLeft' /\ DyingOK'
  BY <1>1 DEF Inv, SystemTasks, MainThreadOwned, QuantumLeft, DyingOK, Resolves
<1>4. StackLifetime' /\ IdleOK'
  <2>1. CASE IdleLink
    <3>1. idlePc = "link" /\ idlePc' = "reap" /\ stack' = stack
      BY <2>1 DEF IdleLink
    <3>2. QED BY <1>1, <3>1 DEF Inv, StackLifetime, IdleOK
  <2>2. CASE IdleReap
    <3>1. idlePc = "reap" /\ idlePc' = "free" /\ stack' = stack
      BY <2>2 DEF IdleReap
    <3>2. QED BY <1>1, <3>1 DEF Inv, StackLifetime, IdleOK
  <2>3. CASE IdleFree
    <3>1. idlePc = "free" /\ idlePc' = "release" /\ stack' = stack \ {idleTask}
      BY <2>3 DEF IdleFree
    <3>2. QED BY <1>1, <3>1 DEF Inv, StackLifetime, IdleOK
  <2>4. QED BY <2>1, <2>2, <2>3
<1>5. QED BY <1>2, <1>3, <1>4 DEF Inv

\* A released task was on no list and joined by nobody.
LEMMA IdleReleaseInv ==
    ASSUME Inv, TypeOK', IdleRelease
    PROVE  Inv'
<1>1. /\ idlePc = "release" /\ idlePc' = "pop" /\ idleTask' = NULL /\ dying = NULL
      /\ used' = used \ {idleTask}
      /\ UNCHANGED <<flag, priority, waitObj, waitMe, pProcess, stack, readyList, waitList,
                     exitList, pNow, remainQuantum, pMainThread, dying, fault>>
  BY DEF IdleRelease, IdleRuns, Running, unchangedByIdle, schedVars, procVars
<1>2. /\ idleTask # NULL /\ idleTask \in used /\ flag[idleTask] = "WAITFOREXIT"
      /\ idleTask \notin stack /\ used \subseteq Tasks
  BY <1>1 DEF Inv, IdleOK, TypeOK
<1>3. FlagMatchesList'
  <2>1. (pNow \in used)' /\ RunningIsNow'
    BY <1>1, <1>2, RunningTask DEF Inv, FlagMatchesList, RunningIsNow
  <2>2. ReadyExact' /\ WaitExact'
    BY <1>1, <1>2 DEF Inv, FlagMatchesList, ReadyExact, WaitExact
  <2>3. ExitExact'
    BY <1>1, <1>2, NullAssumption DEF Inv, FlagMatchesList, ExitExact
  <2>4. QED BY <2>1, <2>2, <2>3 DEF FlagMatchesList
<1>4. JoinConsistent' /\ NoFault'
  BY <1>1, <1>2 DEF Inv, JoinConsistent, NoFault, Resolves
<1>5. SystemTasks' /\ MainThreadOwned' /\ QuantumLeft' /\ DyingOK'
  BY <1>1, <1>2 DEF Inv, SystemTasks, MainThreadOwned, QuantumLeft, DyingOK, Resolves
<1>6. StackLifetime' /\ IdleOK'
  BY <1>1, <1>2 DEF Inv, StackLifetime, IdleOK
<1>7. QED BY <1>3, <1>4, <1>5, <1>6 DEF Inv

-----------------------------------------------------------------------------
(* The invariant is inductive. *)

LEMMA InitInv == Init => Inv
<1> SUFFICES ASSUME Init PROVE Inv
  OBVIOUS
<1>1. TypeOK
  BY InitTypeOK
<1>2. Kernel \in Tasks /\ Idle \in Tasks /\ Kernel # Idle
  BY SystemSlots
<1>3. IdlePrio \in Prios
  BY SizesAssumption DEF IdlePrio, Prios
<1>4. \A t \in Tasks :
         /\ flag[t] = IF t = Idle THEN "READY" ELSE "RUNNING"
         /\ priority[t] = IF t = Kernel THEN KernelPrio ELSE IF t = Idle THEN IdlePrio ELSE 0
         /\ waitObj[t] = NULL /\ waitMe[t] = <<>>
         /\ pProcess[t] = IF t \in used THEN KernelProc ELSE NULL
  BY DEF Init
<1>5. \A p \in Prios : readyList[p] = IF p = IdlePrio THEN <<Idle>> ELSE <<>>
  BY DEF Init
<1>6. /\ used = {Kernel, Idle} /\ waitList = <<>> /\ exitList = <<>> /\ pNow = Kernel
      /\ stack = {} /\ remainQuantum = Quantum /\ dying = NULL /\ idlePc = "pop"
      /\ idleTask = NULL /\ fault = "none"
  BY DEF Init
<1>7. \A p \in Procs : pMainThread[p] = IF p = KernelProc THEN Kernel ELSE NULL
  BY DEF Init
<1>8. FlagMatchesList
  <2>1. pNow \in used /\ RunningIsNow
    BY <1>2, <1>4, <1>6 DEF RunningIsNow
  <2>2. ReadyExact
    <3>1. Distinct(<<Idle>>) /\ \A t : In(t, <<Idle>>) <=> t = Idle
      BY DEF Distinct, In
    <3>2. QED BY <1>2, <1>3, <1>4, <1>5, <1>6, <3>1, EmptyLemma DEF ReadyExact
  <2>3. WaitExact /\ ExitExact
    BY <1>4, <1>6, EmptyLemma DEF WaitExact, ExitExact
  <2>4. QED BY <2>1, <2>2, <2>3 DEF FlagMatchesList
<1>9. JoinConsistent
  BY <1>4, EmptyLemma, NullAssumption DEF JoinConsistent
<1>10. NoFault /\ DyingOK /\ IdleOK
  BY <1>6 DEF NoFault, DyingOK, IdleOK
<1>11. SystemTasks
  BY <1>2, <1>4, <1>6 DEF SystemTasks
<1>12. MainThreadOwned
  BY <1>2, <1>4, <1>6, <1>7 DEF MainThreadOwned, Resolves
<1>13. StackLifetime
  BY <1>6 DEF StackLifetime
<1>14. QuantumLeft
  BY <1>6, SizesAssumption DEF QuantumLeft
<1>15. QED BY <1>1, <1>8, <1>9, <1>10, <1>11, <1>12, <1>13, <1>14 DEF Inv

\* Every step keeps the invariant.
LEMMA NextInv == ASSUME Inv, ProperApi, [Next]_vars PROVE Inv'
<1>1. TypeOK'
  BY NextTypeOK DEF Inv
<1>2. ASSUME NEW p \in Procs, NEW prio \in UserPrios, Create(p, prio) PROVE Inv'
  BY <1>1, <1>2, CreateInv
<1>3. ASSUME NEW p \in Procs, NEW prio \in UserPrios, CreateProcess(p, prio) PROVE Inv'
  BY <1>1, <1>3, CreateProcessInv
<1>4. ASSUME NEW t \in Tasks, TerminateTask(t) PROVE Inv'
  BY <1>1, <1>4, BeginTerminateInv DEF TerminateTask
<1>5. ASSUME NEW p \in Procs, TerminateProcess(p) PROVE Inv'
  <2>1. pMainThread[p] \in Tasks /\ BeginTerminate(pMainThread[p])
    BY <1>5 DEF TerminateProcess, ProcResolves, Inv, TypeOK
  <2>2. QED BY <1>1, <2>1, BeginTerminateInv
<1>6. CASE WakeJoiner
  BY <1>1, <1>6, WakeJoinerInv
<1>7. CASE TerminateSelf
  BY <1>1, <1>7, TerminateSelfInv
<1>8. CASE TerminateOther
  BY <1>1, <1>8, TerminateOtherInv
<1>9. ASSUME NEW t \in Tasks, NEW prio \in UserPrios, ChangePriority(t, prio) PROVE Inv'
  BY <1>1, <1>9, ChangePriorityInv
<1>10. ASSUME NEW t \in Tasks, Suspend(t) PROVE Inv'
  BY <1>1, <1>10, SuspendInv
<1>11. ASSUME NEW t \in Tasks, Resume(t) PROVE Inv'
  BY <1>1, <1>11, ResumeInv
<1>12. ASSUME NEW t \in Tasks, Join(t) PROVE Inv'
  BY <1>1, <1>12, WaitInv DEF Join
<1>13. ASSUME NEW p \in Procs, JoinProcess(p) PROVE Inv'
  <2>1. Wait(pMainThread[p]) /\ pMainThread[p] # NULL
    BY <1>13 DEF JoinProcess, ProcResolves
  <2>2. pMainThread[p] \in Tasks /\ Resolves(pMainThread[p])
    BY <2>1 DEF Inv, TypeOK, MainThreadOwned
  <2>3. QED BY <1>1, <2>1, <2>2, WaitInv
<1>14. CASE Yield
  BY <1>1, <1>14, SwitchInv DEF Yield, Running
<1>15. CASE Expire
  BY <1>1, <1>15, SwitchInv DEF Expire, Running
<1>16. CASE CountDown
  BY <1>1, <1>16, CountDownInv
<1>17. CASE IdlePop
  BY <1>1, <1>17, IdlePopInv
<1>18. CASE IdleLink \/ IdleReap \/ IdleFree
  BY <1>1, <1>18, IdleLinkReapInv
<1>19. CASE IdleRelease
  BY <1>1, <1>19, IdleReleaseInv
<1>20. CASE IdleYield
  BY <1>1, <1>20, SwitchInv DEF IdleYield, IdleRuns, Running
<1>21. CASE UNCHANGED vars
  <2>1. UNCHANGED <<used, flag, priority, waitObj, waitMe, pProcess, stack, readyList,
                    waitList, exitList, pNow, remainQuantum, pMainThread, dying, idlePc,
                    idleTask, fault>>
    BY <1>21 DEF vars, listVars, schedVars, procVars, idleVars
  <2>2. FlagMatchesList' /\ JoinConsistent' /\ NoFault' /\ SystemTasks'
    BY <2>1 DEF Inv, FlagMatchesList, RunningIsNow, ReadyExact, WaitExact, ExitExact,
                JoinConsistent, NoFault, SystemTasks, Resolves
  <2>3. MainThreadOwned' /\ StackLifetime' /\ DyingOK' /\ IdleOK' /\ QuantumLeft'
    BY <2>1 DEF Inv, MainThreadOwned, StackLifetime, DyingOK, IdleOK, QuantumLeft, Resolves
  <2>4. QED BY <1>1, <2>2, <2>3 DEF Inv
<1>22. QED
  BY <1>2, <1>3, <1>4, <1>5, <1>6, <1>7, <1>8, <1>9, <1>10, <1>11, <1>12, <1>13, <1>14,
     <1>15, <1>16, <1>17, <1>18, <1>19, <1>20, <1>21 DEF Next, Tick, IdleStep

\* Whatever calls are made and wherever the timer comes in between, lists,
\* flags, joins, processes, stacks and the idle task's clean-up stay consistent:
\* the invariant of TaskInvariant holds in every reachable state.
THEOREM Invariance == ASSUME ProperApi PROVE Spec => []Inv
<1>1. Init => Inv
  BY InitInv
<1>2. Inv /\ [Next]_vars => Inv'
  BY NextInv
<1>3. QED BY <1>1, <1>2, PTL DEF Spec

-----------------------------------------------------------------------------
(* What it implies. *)

\* Every task is on exactly the list its flag names, once, and the running task
\* is on none, whatever calls are made and wherever the timer interrupts the
\* idle task: the lists that share Task::_node never corrupt each other.
THEOREM ListsExact == ASSUME ProperApi PROVE Spec => []FlagMatchesList
<1>1. Inv => FlagMatchesList
  BY DEF Inv
<1>2. QED BY <1>1, Invariance, PTL

\* A joiner waits on a task that has not terminated, and is on that task's
\* WaitMeList exactly once: terminating a task wakes all who join it and leaves
\* no one joining a freed slot.
THEOREM JoinersConsistent == ASSUME ProperApi PROVE Spec => []JoinConsistent
<1>1. Inv => JoinConsistent
  BY DEF Inv
<1>2. QED BY <1>1, Invariance, PTL

\* No assertion of task.c fails and no node is erased from a list it is not on.
THEOREM NeverFaults == ASSUME ProperApi PROVE Spec => []NoFault
<1>1. Inv => NoFault
  BY DEF Inv
<1>2. QED BY <1>1, Invariance, PTL

\* The main thread of a process is a task of it that has not terminated.
THEOREM MainThreadsOwned == ASSUME ProperApi PROVE Spec => []MainThreadOwned
<1>1. Inv => MainThreadOwned
  BY DEF Inv
<1>2. QED BY <1>1, Invariance, PTL

\* A stack stays allocated while its task can run again, and is freed before
\* its slot can be taken by another task.
THEOREM StacksLive == ASSUME ProperApi PROVE Spec => []StackLifetime
<1>1. Inv => StackLifetime
  BY DEF Inv
<1>2. QED BY <1>1, Invariance, PTL

\* There is always a task to switch to, so a task that suspended or terminated
\* itself is never returned to, and the quantum counter never passes 0.
THEOREM Replaced == ASSUME ProperApi PROVE Spec => []AlwaysReplaceable
<1>1. Inv => AlwaysReplaceable
  BY Replaceable DEF Inv, AlwaysReplaceable, QuantumLeft
<1>2. QED BY <1>1, Invariance, PTL

-----------------------------------------------------------------------------
(* What a step never does. *)

KeepsJoins ==
    \A u \in used : waitObj[u] # NULL /\ (flag'[u] # "WAIT" \/ waitObj'[u] # waitObj[u])
                      => dying = waitObj[u] \/ u \notin used'

KeepsZombies ==
    \A t \in used : flag[t] = "WAITFOREXIT" /\ t \in used' => flag'[t] = "WAITFOREXIT"

\* A step that moves no task into or out of a wait or the zombie state, and
\* keeps whom they join, keeps both.
LEMMA Quiet ==
    ASSUME Inv, \A t \in Tasks : flag[t] = "WAIT" => flag'[t] = "WAIT",
           \A t \in Tasks : flag[t] = "WAITFOREXIT" => flag'[t] = "WAITFOREXIT",
           \A t \in Tasks : waitObj[t] # NULL => waitObj'[t] = waitObj[t]
    PROVE  KeepsJoins /\ KeepsZombies
<1>1. /\ used \subseteq Tasks
      /\ \A u \in Tasks : waitObj[u] # NULL => flag[u] = "WAIT"
  BY DEF Inv, TypeOK, JoinConsistent
<1>2. QED BY <1>1 DEF KeepsJoins, KeepsZombies

\* A new task's slot was free.
LEMMA NewTaskKeeps ==
    ASSUME Inv, NEW p \in Procs, NEW prio \in Prios, NEW th, FreeSlots # {},
           NewTask(p, prio, th)
    PROVE  KeepsJoins /\ KeepsZombies
<1> DEFINE t == Topmost(FreeSlots)
<1>1. t \in Tasks /\ t \notin used
  BY FreeSlot
<1>2. flag' = [flag EXCEPT ![t] = "READY"] /\ waitObj' = [waitObj EXCEPT ![t] = NULL]
  BY DEF NewTask
<1> HIDE DEF t
<1>3. /\ used \subseteq Tasks /\ flag \in [Tasks -> Flags]
      /\ waitObj \in [Tasks -> Tasks \cup {NULL}]
      /\ \A u \in Tasks : waitObj[u] # NULL => u \in used /\ flag[u] = "WAIT"
  BY DEF Inv, TypeOK, JoinConsistent
<1>4. \A u \in used : flag'[u] = flag[u] /\ waitObj'[u] = waitObj[u]
  BY <1>1, <1>2, <1>3
<1>5. QED BY <1>3, <1>4 DEF KeepsJoins, KeepsZombies

\* Only a joiner of the dying task stops waiting.
LEMMA WakeJoinerKeeps == ASSUME Inv, WakeJoiner PROVE KeepsJoins /\ KeepsZombies
<1> DEFINE u == Head(waitMe[dying])
<1>1. /\ dying \in Tasks /\ waitMe[dying] \in Seq(Tasks) /\ waitMe[dying] # <<>>
      /\ waitObj \in [Tasks -> Tasks \cup {NULL}] /\ flag \in [Tasks -> Flags]
      /\ used \subseteq Tasks
  BY DEF WakeJoiner, Inv, TypeOK
<1>2. u \in Tasks /\ In(u, waitMe[dying])
  BY <1>1, PopFrontLemma
<1>3. waitObj' = [waitObj EXCEPT ![u] = NULL] /\ Wakes(u)
  BY DEF WakeJoiner
<1> HIDE DEF u
<1>4. waitObj[u] = dying /\ \A t \in Tasks : waitObj[t] # NULL => flag[t] = "WAIT"
  BY <1>1, <1>2 DEF Inv, JoinConsistent
<1>5. flag' = flag \/ (flag[u] = "WAIT" /\ flag' = [flag EXCEPT ![u] = "READY"])
  BY <1>3 DEF Wakes
<1>6. \A t \in Tasks : t # u => flag'[t] = flag[t] /\ waitObj'[t] = waitObj[t]
  BY <1>1, <1>3, <1>5
<1>7. flag[u] = "WAITFOREXIT" => flag'[u] = "WAITFOREXIT"
  BY <1>5
<1>8. KeepsJoins
  BY <1>1, <1>4, <1>6 DEF KeepsJoins
<1>9. KeepsZombies
  BY <1>1, <1>6, <1>7 DEF KeepsZombies
<1>10. QED BY <1>8, <1>9

\* A task terminated by another leaves its wait with its slot.
LEMMA TerminateOtherKeeps == ASSUME Inv, TerminateOther PROVE KeepsJoins /\ KeepsZombies
<1>1. /\ dying \in Tasks /\ dying # NULL /\ used' = used \ {dying} /\ flag' = flag
      /\ waitObj' = waitObj \/ waitObj' = [waitObj EXCEPT ![dying] = NULL]
      /\ used \subseteq Tasks /\ waitObj \in [Tasks -> Tasks \cup {NULL}]
      /\ \A u \in Tasks : waitObj[u] # NULL => flag[u] = "WAIT"
  BY DEF TerminateOther, UnlinkWaiting, UnlinkReady, Inv, TypeOK, JoinConsistent
<1>2. \A u \in Tasks : u # dying => waitObj'[u] = waitObj[u]
  BY <1>1
<1>3. QED BY <1>1, <1>2 DEF KeepsJoins, KeepsZombies

\* A task that starts to join waited for nothing.
LEMMA WaitKeeps ==
    ASSUME Inv, NEW t \in Tasks, Wait(t)
    PROVE  KeepsJoins /\ KeepsZombies
<1>1. waitObj[pNow] = NULL
  BY RunningTask
<1>2. /\ SuspendByPtr(pNow) /\ waitObj' = [waitObj EXCEPT ![pNow] = t]
      /\ UNCHANGED <<used, priority, exitList, idleTask>>
  BY <1>1 DEF Wait, idleVars
<1>3. /\ \A u \in Tasks : flag'[u] = "WAIT" <=> flag[u] = "WAIT" \/ u = pNow
      /\ \A u \in Tasks : flag'[u] = "WAITFOREXIT" <=> flag[u] = "WAITFOREXIT"
  BY <1>2, SuspendNow
<1>4. \A u \in Tasks : waitObj[u] # NULL => waitObj'[u] = waitObj[u]
  BY <1>1, <1>2 DEF Inv, TypeOK
<1>5. QED BY <1>3, <1>4, Quiet

\* No step ends a join early or takes a terminated task back.
LEMMA NextKeeps == ASSUME Inv, ProperApi, [Next]_vars PROVE KeepsJoins /\ KeepsZombies
<1>1. ASSUME NEW p \in Procs, NEW prio \in UserPrios,
             Create(p, prio) \/ CreateProcess(p, prio)
      PROVE  KeepsJoins /\ KeepsZombies
  <2>1. prio \in Prios
    BY SizesAssumption
  <2>2. CASE Create(p, prio)
    BY <2>1, <2>2, NewTaskKeeps DEF Create
  <2>3. CASE CreateProcess(p, prio)
    <3> DEFINE free == {q \in Procs : pageDir[q] = "null"}
               r == Topmost(free)
               th == [threads EXCEPT ![r] = {}]
    <3>1. free # {} /\ FreeSlots # {} /\ NewTask(r, prio, th)
      BY <2>3 DEF CreateProcess, ProperApi, Misuses
    <3>2. r \in Procs
      <4>1. free \subseteq Nat
        BY DEF Procs
      <4>2. QED BY <3>1, <4>1, TopmostLemma
    <3> HIDE DEF free, r, th
    <3>3. QED BY <2>1, <3>1, <3>2, NewTaskKeeps
  <2>4. QED BY <1>1, <2>2, <2>3
<1>2. CASE WakeJoiner
  BY <1>2, WakeJoinerKeeps
<1>3. CASE TerminateSelf
  <2>1. waitObj' = waitObj /\ Schedule(readyList, [flag EXCEPT ![pNow] = "WAITFOREXIT"], remainQuantum)
    BY <1>3 DEF TerminateSelf
  <2>2. /\ \A t \in Tasks : flag[t] = "WAIT" => flag'[t] = "WAIT"
        /\ \A t \in Tasks : flag[t] = "WAITFOREXIT" => flag'[t] = "WAITFOREXIT"
    BY <2>1, GiveUpExact
  <2>3. QED BY <2>1, <2>2, Quiet
<1>4. CASE TerminateOther
  BY <1>4, TerminateOtherKeeps
<1>5. ASSUME NEW t \in Tasks, Suspend(t) PROVE KeepsJoins /\ KeepsZombies
  <2>1. /\ t = pNow /\ SuspendByPtr(pNow) /\ waitObj' = waitObj
        /\ UNCHANGED <<used, priority, exitList, idleTask>>
    BY <1>5 DEF Suspend, ProperApi, Misuses, idleVars
  <2>2. QED BY <2>1, SuspendNow, Quiet
<1>6. ASSUME NEW t \in Tasks, Resume(t) PROVE KeepsJoins /\ KeepsZombies
  <2>1. /\ t \in used /\ flag[t] = "WAIT" /\ waitObj[t] = NULL /\ waitObj' = waitObj
        /\ flag' = [flag EXCEPT ![t] = "READY"]
    BY <1>6 DEF Resume, ProperApi, Misuses, Resolves, Wakes
  <2>2. \A u \in Tasks : u # t => flag'[u] = flag[u]
    BY <2>1 DEF Inv, TypeOK
  <2>3. used \subseteq Tasks /\ \A u \in Tasks : waitObj[u] # NULL => flag[u] = "WAIT"
    BY DEF Inv, TypeOK, JoinConsistent
  <2>4. QED BY <2>1, <2>2, <2>3 DEF KeepsJoins, KeepsZombies
<1>7. ASSUME NEW t \in Tasks, Join(t) PROVE KeepsJoins /\ KeepsZombies
  BY <1>7, WaitKeeps DEF Join
<1>8. ASSUME NEW p \in Procs, JoinProcess(p) PROVE KeepsJoins /\ KeepsZombies
  <2>1. pMainThread[p] \in Tasks /\ Wait(pMainThread[p])
    BY <1>8 DEF JoinProcess, ProcResolves, Inv, TypeOK
  <2>2. QED BY <2>1, WaitKeeps
<1>9. CASE Yield \/ Expire \/ IdleYield
  <2>1. (Schedule(readyList, flag, remainQuantum) \/ Schedule(readyList, flag, 0)) /\ waitObj' = waitObj
    BY <1>9 DEF Yield, Expire, IdleYield, Switch
  <2>2. QED BY <2>1, SwitchExact, Quiet
<1>10. ASSUME flag' = flag, waitObj' = waitObj PROVE KeepsJoins /\ KeepsZombies
  BY <1>10, Quiet
<1>11. ASSUME NEW t \in Tasks, BeginTerminate(t) PROVE KeepsJoins /\ KeepsZombies
  BY <1>10, <1>11 DEF BeginTerminate
<1>12. ASSUME NEW p \in Procs, TerminateProcess(p) PROVE KeepsJoins /\ KeepsZombies
  BY <1>10, <1>12 DEF TerminateProcess, BeginTerminate
<1>13. ASSUME NEW t \in Tasks, NEW prio \in UserPrios, ChangePriority(t, prio)
       PROVE  KeepsJoins /\ KeepsZombies
  BY <1>10, <1>13 DEF ChangePriority
<1>14. CASE CountDown
  BY <1>10, <1>14 DEF CountDown
<1>15. CASE IdlePop \/ IdleLink \/ IdleReap \/ IdleFree \/ IdleRelease
  BY <1>10, <1>15 DEF IdlePop, IdleLink, IdleReap, IdleFree, IdleRelease, unchangedByIdle
<1>16. CASE UNCHANGED vars
  BY <1>10, <1>16 DEF vars
<1>17. QED
  BY <1>1, <1>2, <1>3, <1>4, <1>5, <1>6, <1>7, <1>8, <1>9, <1>11, <1>12, <1>13, <1>14,
     <1>15, <1>16 DEF Next, Tick, IdleStep, TerminateTask

\* A joiner goes on waiting, for the same task, until that task is being
\* terminated or it is terminated itself: ckTaskJoin never returns early.
THEOREM NeverJoinsEarly == ASSUME ProperApi PROVE Spec => JoinNotEarly
<1>1. Inv /\ [Next]_vars => [KeepsJoins]_vars
  BY NextKeeps
<1>2. Spec => [][KeepsJoins]_vars
  BY <1>1, Invariance, PTL DEF Spec
<1>3. QED BY <1>2 DEF JoinNotEarly, KeepsJoins

\* A terminated task awaiting clean-up never runs, waits or becomes ready again
\* before its slot has been released.
THEOREM ZombiesStay == ASSUME ProperApi PROVE Spec => ZombieStays
<1>1. Inv /\ [Next]_vars => [KeepsZombies]_vars
  BY NextKeeps
<1>2. Spec => [][KeepsZombies]_vars
  BY <1>1, Invariance, PTL DEF Spec
<1>3. QED BY <1>2 DEF ZombieStays, KeepsZombies
=============================================================================
