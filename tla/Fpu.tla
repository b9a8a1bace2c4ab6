-------------------------------- MODULE Fpu --------------------------------
(***************************************************************************)
(* The floating-point registers, which the tasks of src/src/task.c share:  *)
(* a switch only sets or clears the flag TS, and the first instruction     *)
(* that uses them with TS set traps, to the handler that saves the         *)
(* registers of one task and loads those of another.  Every action runs    *)
(* with interrupts disabled, or is one instruction.                        *)
(***************************************************************************)
EXTENDS Integers

CONSTANTS
    Slots,  \* the entries of tasks
    NoSlot, \* NULL
    Values, \* bound: what a task may calculate
    Clean   \* what the registers hold when they are initialised

ASSUME FpuAssumption == NoSlot \notin Slots /\ Slots # {}

VARIABLES
    live,             \* the slots with a task that may run
    pNow,             \* the running one
    pLastTaskUsedFPU, \* the one the registers belong to
    TS,               \* the flag of CR0
    bFpuUsed,         \* by slot: its task has used the registers
    fpu_context,      \* by slot: what was saved of it
    registers,        \* what they hold
    own               \* by slot: what the task in it has calculated last

fpuVars == <<live, pNow, pLastTaskUsedFPU, TS, bFpuUsed, fpu_context, registers, own>>

Images == Values \cup {Clean}

FpuInit ==
    /\ pNow \in Slots /\ live = {pNow}
    /\ pLastTaskUsedFPU = NoSlot /\ TS = TRUE
    /\ bFpuUsed = [s \in Slots |-> FALSE]
    /\ fpu_context = [s \in Slots |-> Clean] /\ registers = Clean
    /\ own = [s \in Slots |-> Clean]

\* ckTaskCreate_unsafe, as to the registers: what was saved stays in the slot.
CreateIn(s) ==
    /\ s \notin live
    /\ live' = live \cup {s}
    /\ bFpuUsed' = [bFpuUsed EXCEPT ![s] = FALSE]
    /\ own' = [own EXCEPT ![s] = Clean]
    /\ UNCHANGED <<pNow, pLastTaskUsedFPU, TS, fpu_context, registers>>

\* ckTaskSchedule_internal.  Where the switch itself sets TS, as a jump to a task
\* segment does on the processor, what the code made of it before is lost.
SwitchTo(s, last) ==
    /\ pNow' = s
    /\ TS' \in {s # last, TRUE}

Switch(s) ==
    /\ s \in live \ {pNow} /\ SwitchTo(s, pLastTaskUsedFPU)
    /\ UNCHANGED <<live, pLastTaskUsedFPU, bFpuUsed, fpu_context, registers, own>>

\* Mutant: the registers stay with the ended task.
Forgotten_Never(s) == pLastTaskUsedFPU

\* ckTaskTerminate_internal: the registers are no one's if they were the ended task's.
Forgotten(s) == IF pLastTaskUsedFPU = s THEN NoSlot ELSE pLastTaskUsedFPU

\* Another task ends a task, which leaves its slot to the next that is created.
Terminate(s) ==
    /\ s \in live \ {pNow}
    /\ live' = live \ {s} /\ pLastTaskUsedFPU' = Forgotten(s)
    /\ UNCHANGED <<pNow, TS, bFpuUsed, fpu_context, registers, own>>

\* A task ends itself, and another runs.
ExitTo(s) ==
    /\ s \in live \ {pNow}
    /\ live' = live \ {pNow} /\ pLastTaskUsedFPU' = Forgotten(pNow)
    /\ SwitchTo(s, Forgotten(pNow))
    /\ UNCHANGED <<bFpuUsed, fpu_context, registers, own>>

\* ck_ExceptIntHandler07: an instruction that uses the registers traps.
DeviceNotAvailable ==
    /\ TS /\ TS' = FALSE
    /\ IF pNow = pLastTaskUsedFPU THEN UNCHANGED <<pLastTaskUsedFPU, bFpuUsed, fpu_context, registers>>
       ELSE /\ fpu_context' = IF pLastTaskUsedFPU = NoSlot THEN fpu_context
                              ELSE [fpu_context EXCEPT ![pLastTaskUsedFPU] = registers]
            /\ registers' = IF bFpuUsed[pNow] THEN fpu_context[pNow] ELSE Clean
            /\ bFpuUsed' = [bFpuUsed EXCEPT ![pNow] = TRUE]
            /\ pLastTaskUsedFPU' = pNow
    /\ UNCHANGED <<live, pNow, own>>

\* The instruction itself.
Calculate(v) ==
    /\ ~TS /\ registers' = v
    /\ own' = [own EXCEPT ![pNow] = v]
    /\ UNCHANGED <<live, pNow, pLastTaskUsedFPU, TS, bFpuUsed, fpu_context>>

FpuNext ==
    \/ \E s \in Slots : CreateIn(s) \/ Switch(s) \/ Terminate(s) \/ ExitTo(s)
    \/ DeviceNotAvailable
    \/ \E v \in Values : Calculate(v)

FpuSpec == FpuInit /\ [][FpuNext]_fpuVars

-----------------------------------------------------------------------------
(* Properties. *)

\* A task that uses the floating-point registers without a trap finds what it
\* left there, or clean ones when it is new, whatever tasks used them meanwhile,
\* ended, or had its slot before.
FpuOwn == ~TS => registers = own[pNow]
=============================================================================
