------------------------------- MODULE MCTask -------------------------------
(***************************************************************************)
(* The instances of Task that TLC checks: which calls the tasks make.  A   *)
(* table of four or five slots has both system tasks and two or three      *)
(* others, so that one task can act on a second while a third waits for    *)
(* either; two processes are the kernel's and one that can be killed.      *)
(***************************************************************************)
EXTENDS TaskInvariant

\* Life and death of tasks, threads and processes, with joins.
LifecycleApi == {"process", "threads", "join"}

\* Everything that moves a task between the lists.
SchedulingApi == {"process", "priority", "suspend", "join"}

FairnessApi == {"suspend", "join"}

\* Processes with several threads, for the finding.
KilledProcessApi == {"process", "threads"}
=============================================================================
