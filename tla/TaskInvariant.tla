--------------------------- MODULE TaskInvariant ---------------------------
(***************************************************************************)
(* The inductive invariant behind the safety properties of Task: what they *)
(* say together, and what must be known of the system tasks, of the task   *)
(* being terminated and of the idle task's clean-up for each step to       *)
(* preserve it.                                                            *)
(***************************************************************************)
EXTENDS Task

\* The callers stay within what the implementation expects.
ProperApi == Api \cap Misuses = {}

\* The kernel task and the idle task never wait and never end, so one of them
\* is ready whenever the other runs.
SystemTasks == \A t \in {Kernel, Idle} : t \in used /\ flag[t] \in {"RUNNING", "READY"}

\* The task being terminated can be found by its id; if it waits, it joins.
DyingOK ==
    dying # NULL =>
        /\ Resolves(dying) /\ dying \notin {Kernel, Idle}
        /\ flag[dying] = "WAIT" => waitObj[dying] # NULL

\* The idle task holds a terminated task exactly while it is cleaning it up.
IdleOK ==
    /\ idleTask # NULL <=> idlePc \in {"link", "reap", "free", "release"}
    /\ idleTask # NULL => idleTask \in used /\ flag[idleTask] = "WAITFOREXIT"
    /\ idlePc = "release" => idleTask \notin stack

QuantumLeft == remainQuantum \in 1 .. Quantum

\* Lists, flags, joins, processes, stacks and the idle task's clean-up are
\* consistent, whatever the tasks do and wherever the timer interrupts
\* (task.c:189-676, 762-793).  Inductive for proper calls.
Inv ==
    /\ TypeOK
    /\ FlagMatchesList
    /\ JoinConsistent
    /\ NoFault
    /\ SystemTasks
    /\ MainThreadOwned
    /\ StackLifetime
    /\ DyingOK
    /\ IdleOK
    /\ QuantumLeft
=============================================================================
