--------------------------- MODULE RecursiveMutex --------------------------
(***************************************************************************)
(* The recursive mutex, src/src/recursive_mutex.c, under the shell's test  *)
(* of it (testmutex in src/src/coshell_cmd.c): each run of the command     *)
(* initialises the mutex again and creates tasks that lock it and count    *)
(* one up, and a task that joins them and prints the count.  The accesses  *)
(* to memory they share are steps, between any two of which a task may be  *)
(* preempted, or killed by another command; those that only look at what   *)
(* the owner alone changes are part of the next step.                      *)
(***************************************************************************)
EXTENDS Integers, FiniteSets

CONSTANTS
    Runs,   \* bound: how often the command is run
    Count,  \* TEST_MUTEX_TASK_COUNT
    Rounds, \* bound: how often each task locks
    Depth   \* bound: how deep it locks; the command's tasks lock once

ASSUME MutexAssumption == {Runs, Count, Rounds, Depth} \subseteq Nat \ {0}

\* The tasks of every run
Tasks == (1 .. Runs) \X (1 .. Count)

NoTask == <<0, 0>> \* TASK_INVALID_ID

VARIABLES
    TaskId, LockCount, bLocked, \* TestMutex
    count,   \* the static count
    tmp,     \* the local tmp of each task
    at,      \* where each task is
    rounds,  \* how often it has locked
    depth,   \* how often it holds the mutex
    testing, \* what the command is at: "none", a store of its initialisation, or "create"
    run,     \* how often the command was run
    printed, \* what the joining task of each run has printed, -1 before it has
    holder,  \* the task that has set bLocked
    killed,  \* tasks were killed
    overlap  \* a run began before the one before it had printed its count

mutexVars == <<TaskId, LockCount, bLocked, count, tmp, at, rounds, depth, testing, run, printed, holder, killed, overlap>>

\* The mutex; what the tasks do with it; the command; what is kept for the properties
Mutex == <<TaskId, LockCount, bLocked>>
Work == <<count, tmp, rounds>>
Command == <<testing, run, printed>>
Ghosts == <<killed, overlap>>

MutexInit ==
    /\ TaskId = NoTask /\ LockCount = 0 /\ bLocked = FALSE
    /\ count = 0 /\ tmp = [t \in Tasks |-> 0] /\ rounds = [t \in Tasks |-> 0]
    /\ at = [t \in Tasks |-> "unborn"] /\ depth = [t \in Tasks |-> 0]
    /\ testing = "none" /\ run = 0 /\ printed = [r \in 1 .. Runs |-> -1]
    /\ holder = NoTask /\ killed = FALSE /\ overlap = FALSE

\* Task t goes on from p to q.
Goes(t, p, q) == at[t] = p /\ at' = [at EXCEPT ![t] = q]

-----------------------------------------------------------------------------
(* ckRecursiveMutexLock *)

Lock(t) ==
    /\ \/ Goes(t, "out", "swap") /\ rounds[t] < Rounds
       \/ Goes(t, "locked", "swap") /\ depth[t] < Depth
    /\ UNCHANGED <<Mutex, depth, holder, Work, Command, Ghosts>>

\* Mutant: a locked mutex is taken.
Free_Always == TRUE

Free == ~bLocked

\* The compare-and-swap: the first one, and the ones of the loop, which yields in between.
Swap(t) ==
    /\ IF Free THEN /\ \E p \in {"swap", "again"} : Goes(t, p, "setCount")
                    /\ bLocked' = TRUE /\ holder' = t
       ELSE Goes(t, "swap", "ask") /\ UNCHANGED <<bLocked, holder>>
    /\ UNCHANGED <<TaskId, LockCount, depth, Work, Command, Ghosts>>

\* It is locked, by the caller itself or not.
AskOwner(t) ==
    /\ IF TaskId = t
       THEN Goes(t, "ask", "locked") /\ LockCount' = LockCount + 1 /\ depth' = [depth EXCEPT ![t] = @ + 1]
       ELSE Goes(t, "ask", "again") /\ UNCHANGED <<LockCount, depth>>
    /\ UNCHANGED <<TaskId, bLocked, holder, Work, Command, Ghosts>>

SetCount(t) ==
    /\ Goes(t, "setCount", "setId") /\ LockCount' = 1
    /\ UNCHANGED <<TaskId, bLocked, depth, holder, Work, Command, Ghosts>>

SetId(t) ==
    /\ Goes(t, "setId", "locked") /\ TaskId' = t /\ depth' = [depth EXCEPT ![t] = 1]
    /\ UNCHANGED <<LockCount, bLocked, holder, Work, Command, Ghosts>>

-----------------------------------------------------------------------------
(* increase_count, and ckRecursiveMutexUnlock *)

ReadCount(t) ==
    /\ Goes(t, "locked", "write") /\ tmp' = [tmp EXCEPT ![t] = count + 2]
    /\ UNCHANGED <<Mutex, count, rounds, depth, holder, Command, Ghosts>>

\* tmp loses 3, and count becomes 2 more.
WriteCount(t) ==
    /\ Goes(t, "write", "unlock") /\ count' = tmp[t] - 3 + 2
    /\ UNCHANGED <<Mutex, tmp, rounds, depth, holder, Command, Ghosts>>

\* Mutant: the recursion is not counted down.
LastUnlock_Always == TRUE

LastUnlock == LockCount <= 1

\* One lock less; for the last one the count, the owner and then, behind a
\* barrier, the flag are cleared.
Unlock(t) ==
    /\ bLocked /\ TaskId = t
    /\ depth' = [depth EXCEPT ![t] = @ - 1]
    /\ IF LastUnlock THEN Goes(t, "unlock", "clearId") /\ LockCount' = 0
       ELSE Goes(t, "unlock", "unlock") /\ LockCount' = LockCount - 1
    /\ UNCHANGED <<TaskId, bLocked, holder, Work, Command, Ghosts>>

\* What another task, or none, holds by now is not unlocked.
UnlockFails(t) ==
    /\ ~(bLocked /\ TaskId = t)
    /\ Goes(t, "unlock", "out") /\ depth' = [depth EXCEPT ![t] = 0] /\ rounds' = [rounds EXCEPT ![t] = @ + 1]
    /\ UNCHANGED <<Mutex, holder, count, tmp, Command, Ghosts>>

ClearId(t) ==
    /\ Goes(t, "clearId", "clearFlag") /\ TaskId' = NoTask
    /\ UNCHANGED <<LockCount, bLocked, depth, holder, Work, Command, Ghosts>>

ClearFlag(t) ==
    /\ Goes(t, "clearFlag", "out") /\ bLocked' = FALSE /\ holder' = NoTask
    /\ rounds' = [rounds EXCEPT ![t] = @ + 1]
    /\ UNCHANGED <<TaskId, LockCount, depth, count, tmp, Command, Ghosts>>

Exit(t) ==
    /\ Goes(t, "out", "ended") /\ rounds[t] = Rounds
    /\ UNCHANGED <<Mutex, depth, holder, Work, Command, Ghosts>>

\* killtask: wherever the task is; what it holds stays held.  Bound: one task is killed.
Kill(t) ==
    /\ at[t] \notin {"unborn", "ended", "killed"} /\ ~killed /\ ~overlap
    /\ at' = [at EXCEPT ![t] = "killed"] /\ killed' = TRUE
    /\ UNCHANGED <<Mutex, depth, holder, Work, Command, overlap>>

-----------------------------------------------------------------------------
(* ckCoshellCmdTestMutex *)

Left(r) == {t \in Tasks : t[1] = r /\ at[t] \notin {"ended", "killed"}}

\* Bound: when it begins too early, one task of the runs before is left, about to unlock.
StartTest ==
    /\ testing = "none" /\ run < Runs
    /\ \A t, u \in UNION {Left(r) : r \in 1 .. run} : t = u /\ at[t] = "unlock"
    /\ testing' = "initId" /\ run' = run + 1
    /\ overlap' = (overlap \/ \E r \in 1 .. run : printed[r] = -1)
    /\ UNCHANGED <<Mutex, at, depth, holder, Work, printed, killed>>

\* ckRecursiveMutexInit: the owner, the count and the flag are stored.
InitId ==
    /\ testing = "initId" /\ testing' = "initCount" /\ TaskId' = NoTask
    /\ UNCHANGED <<LockCount, bLocked, at, depth, holder, Work, run, printed, Ghosts>>
InitCount ==
    /\ testing = "initCount" /\ testing' = "initFlag" /\ LockCount' = 0
    /\ UNCHANGED <<TaskId, bLocked, at, depth, holder, Work, run, printed, Ghosts>>
InitFlag ==
    /\ testing = "initFlag" /\ testing' = "create" /\ bLocked' = FALSE /\ holder' = NoTask
    /\ UNCHANGED <<TaskId, LockCount, at, depth, Work, run, printed, Ghosts>>

\* The next task; after the last one the command ends.
CreateTask ==
    /\ testing = "create"
    /\ \E t \in Tasks :
          /\ t[1] = run /\ at[t] = "unborn" /\ \A u \in Tasks : u[1] = run /\ u[2] < t[2] => at[u] # "unborn"
          /\ at' = [at EXCEPT ![t] = "out"]
          /\ testing' = IF t[2] = Count THEN "none" ELSE "create"
    /\ UNCHANGED <<Mutex, depth, holder, Work, run, printed, Ghosts>>

\* joinermutextest, when the tasks it joins have ended.
PrintCount(r) ==
    /\ r <= run /\ printed[r] = -1 /\ Left(r) = {}
    /\ printed' = [printed EXCEPT ![r] = count] /\ count' = 0
    /\ UNCHANGED <<Mutex, at, depth, holder, tmp, rounds, testing, run, Ghosts>>

TaskStep(t) ==
    \/ Lock(t) \/ Swap(t) \/ AskOwner(t) \/ SetCount(t) \/ SetId(t) \/ ReadCount(t) \/ WriteCount(t)
    \/ Unlock(t) \/ UnlockFails(t) \/ ClearId(t) \/ ClearFlag(t) \/ Exit(t)

CommandStep == InitId \/ InitCount \/ InitFlag \/ CreateTask

MutexNext ==
    \/ \E t \in Tasks : TaskStep(t) \/ Kill(t)
    \/ StartTest \/ CommandStep \/ \E r \in 1 .. Runs : PrintCount(r)

MutexSpec == MutexInit /\ [][MutexNext]_mutexVars

\* Every ready task gets the processor again, the command's and the joining one's too.
MutexFairness ==
    /\ \A t \in Tasks : WF_mutexVars(TaskStep(t))
    /\ WF_mutexVars(CommandStep)
    /\ \A r \in 1 .. Runs : WF_mutexVars(PrintCount(r))

-----------------------------------------------------------------------------
(* Properties. *)

\* Task t is between the swap that takes the mutex and the store that frees it,
\* or else inside, with the mutex in its name.
Taking(t) == at[t] \in {"setCount", "setId", "clearId", "clearFlag"}
Inside(t) == at[t] # "killed" /\ depth[t] > 0

\* One task at most has the mutex, and while it is inside the owner and the count
\* are its own, also when tasks are killed in it; unless the command was run
\* again too early.
OneInside ==
    ~overlap =>
        /\ \A t, u \in Tasks : (Taking(t) \/ Inside(t)) /\ (Taking(u) \/ Inside(u)) => t = u
        /\ \A t \in Tasks : Inside(t) => TaskId = t /\ LockCount = depth[t]

\* When no task was killed and no run began too early, the count printed is that
\* of all the times the tasks of the run have locked, and it is printed at last.
AllCounted ==
    \A r \in 1 .. Runs :
        run = r ~> killed \/ overlap \/ printed[r] = Count * Rounds
=============================================================================
