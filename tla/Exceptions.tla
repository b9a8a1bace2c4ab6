----------------------------- MODULE Exceptions ----------------------------
(***************************************************************************)
(* How an interrupt or exception gets to its handler and back: the order   *)
(* in which ckMain sets the machine up, the descriptor table (idt.c), the  *)
(* interrupt controller (pic.c), the stubs that build the context on the   *)
(* stack of the running task and take it down (interrupt.asm), the switch  *)
(* of tasks inside the timer's handler, and the handlers of the exceptions,*)
(* which show the context and stop (int_except.c).  A stack is a sequence  *)
(* of words, the top first; a word is the name of what it holds of the     *)
(* interrupted code and the task that it belongs to.                       *)
(***************************************************************************)
EXTENDS Integers, Sequences

CONSTANTS
    Vectors, \* bound: the vectors that come up
    Stacks   \* bound: the tasks, each with its stack

VARIABLES
    booted,    \* how many steps of ckMain are done
    current,   \* the task that runs
    phase,     \* by task: "running", then "entered", "stacked", "handled"
    vector,    \* by task: the vector that came up last
    pushed,    \* by task: the words on its stack since
    restored,  \* by task: what the last return put back into each register
    inService, \* the requests the controller waits for the end of
    panic      \* what a panic shows, by the name of the field; <<>> before

exceptionVars == <<booted, current, phase, vector, pushed, restored, inService, panic>>

TimerIrq == 0
KeyboardIrq == 1
SlaveIrq == 2
IrqBase == 32

\* The slave controller's request stands for one of its own, which are all masked.
ASSUME ExceptionAssumption ==
    /\ Vectors \subseteq (0 .. 255) \ {IrqBase + SlaveIrq}
    /\ Stacks # {}

-----------------------------------------------------------------------------
(* ckMain. *)

\* The steps of ckMain, up to the one that enables interrupts
Boot == <<"gdt", "idt", "dynmem", "queue", "pic", "timer", "rtc", "tasks", "keyboard", "unmask", "sti">>

Done(step) == \E i \in 1 .. booted : Boot[i] = step

BootStep ==
    /\ booted < Len(Boot) /\ phase[current] = "running" /\ panic = <<>>
    /\ booted' = booted + 1
    /\ UNCHANGED <<current, phase, vector, pushed, restored, inService, panic>>

\* The requests the masks let through.
Unmasked == IF Done("unmask") THEN {TimerIrq, KeyboardIrq, SlaveIrq} ELSE {SlaveIrq}

\* What the table names for v: every vector has a handler from ckIdtTableInitialize
\* on, those of 0x00 to 0x14 their own; the two devices' are set with the devices.
Handler(v) ==
    CASE v \in 0 .. 20 -> "exception"
      [] v = IrqBase + TimerIrq /\ Done("timer") -> "interrupt"
      [] v = IrqBase + KeyboardIrq /\ Done("keyboard") -> "interrupt"
      [] OTHER -> "unknown"

-----------------------------------------------------------------------------
(* The stubs. *)

\* The exceptions for which the processor pushes an error code.
PushesError == {8, 10, 11, 12, 13, 14, 17, 21, 29, 30}

ReturnFrame == <<"eip", "cs", "eflag">>
Registers == <<"gs", "fs", "es", "ds", "edi", "esi", "ebp", "esp", "ebx", "edx", "ecx", "eax">>

\* The words for names, of the running task
Words(names) == [i \in DOMAIN names |-> [name |-> names[i], task |-> current]]

\* An exception, or a request that is let through: with interrupts enabled, and
\* none of its or a higher priority in service.  The gate disables interrupts.
Raise(v) ==
    /\ phase[current] = "running" /\ panic = <<>> /\ Done("idt")
    /\ v >= IrqBase =>
         /\ Done("sti") /\ v - IrqBase \in Unmasked
         /\ \A irq \in inService : v - IrqBase < irq
    /\ phase' = [phase EXCEPT ![current] = "entered"]
    /\ vector' = [vector EXCEPT ![current] = v]
    /\ pushed' = [pushed EXCEPT ![current] =
                    Words(IF v \in PushesError THEN <<"err">> \o ReturnFrame ELSE ReturnFrame)]
    /\ inService' = IF v >= IrqBase THEN inService \cup {v - IrqBase} ELSE inService
    /\ UNCHANGED <<booted, current, restored, panic>>

\* PushRegisters
PushRegisters ==
    /\ phase[current] = "entered"
    /\ phase' = [phase EXCEPT ![current] = "stacked"]
    /\ pushed' = [pushed EXCEPT ![current] = Words(Registers) \o @]
    /\ UNCHANGED <<booted, current, vector, restored, inService, panic>>

\* PopRegisters and iretd: popad passes over esp.
InterruptReturn ==
    LET popped == pushed[current]
        Popped(name) == LET i == CHOOSE i \in DOMAIN popped : (Registers \o ReturnFrame)[i] = name IN popped[i]
    IN  /\ phase[current] = "handled"
        /\ phase' = [phase EXCEPT ![current] = "running"]
        /\ restored' = [restored EXCEPT ![current] =
                          [n \in {(Registers \o ReturnFrame)[i] : i \in DOMAIN popped} \ {"esp"} |-> Popped(n)]]
        /\ pushed' = [pushed EXCEPT ![current] = <<>>]
        /\ UNCHANGED <<booted, current, vector, inService, panic>>

-----------------------------------------------------------------------------
(* The handlers. *)

\* The handlers that show an error code.
ShowsError(v) == v \in {8, 10, 11, 12, 13, 14, 17}

\* InterruptContext: the registers and the frame behind them, in one of two forms,
\* with a stack pointer that the processor pushes only when it changes privileges.
Context(v) ==
    Registers \o (IF ShowsError(v) THEN <<"err">> \o ReturnFrame ELSE ReturnFrame) \o <<"esp2", "ss2">>

\* The handlers of the exceptions, but for #NM, and the unknown one: what is on
\* the stack is shown as the fields of the context, and the machine stops.
Panic ==
    LET v == vector[current]
        Stack == pushed[current] \o Words(<<"below", "below", "below">>)
        Field(n) == LET i == CHOOSE i \in DOMAIN Context(v) : Context(v)[i] = n IN Stack[i]
    IN  /\ phase[current] = "stacked" /\ panic = <<>>
        /\ Handler(v) # "interrupt" /\ v # 7
        /\ panic' = [n \in {Context(v)[i] : i \in DOMAIN Context(v)} |-> Field(n)]
        /\ UNCHANGED <<booted, current, phase, vector, pushed, restored, inService>>

\* #NM changes only the floating-point registers.
HandleNM ==
    /\ phase[current] = "stacked" /\ vector[current] = 7
    /\ phase' = [phase EXCEPT ![current] = "handled"]
    /\ UNCHANGED <<booted, current, vector, pushed, restored, inService, panic>>

\* Mutant: the end of the interrupt is told when its handler returns.
InServiceAfter_Late(irq, next) == IF next = current THEN inService \ {irq} ELSE inService

\* Both handlers tell the controller the end of the interrupt, the timer's before
\* it goes on to what may leave the task.
InServiceAfter(irq, next) == inService \ {irq}

\* The timer's may switch to another task, where that has left off.
HandleIrq ==
    LET irq == vector[current] - IrqBase IN
    /\ phase[current] = "stacked" /\ panic = <<>> /\ Handler(vector[current]) = "interrupt"
    /\ \E next \in Stacks :
         /\ irq # TimerIrq => next = current
         /\ current' = next
         /\ inService' = InServiceAfter(irq, next)
    /\ phase' = [phase EXCEPT ![current] = "handled"]
    /\ UNCHANGED <<booted, vector, pushed, restored, panic>>

\* ckTaskSchedule, which a task calls itself: to a task that has left off here, or
\* in the timer's handler.
Schedule ==
    /\ Done("sti") /\ phase[current] = "running" /\ panic = <<>>
    /\ current' \in Stacks
    /\ UNCHANGED <<booted, phase, vector, pushed, restored, inService, panic>>

ExceptionInit ==
    /\ booted = 0
    /\ current = CHOOSE s \in Stacks : TRUE
    /\ phase = [s \in Stacks |-> "running"]
    /\ vector = [s \in Stacks |-> 0]
    /\ pushed = [s \in Stacks |-> <<>>]
    /\ restored = [s \in Stacks |-> <<>>]
    /\ inService = {} /\ panic = <<>>

ExceptionNext ==
    \/ BootStep \/ (\E v \in Vectors : Raise(v))
    \/ PushRegisters \/ HandleIrq \/ HandleNM \/ Panic \/ InterruptReturn
    \/ Schedule

ExceptionSpec == ExceptionInit /\ [][ExceptionNext]_exceptionVars

-----------------------------------------------------------------------------
(* Properties. *)

\* What a panic shows is the interrupted code's, except for its stack pointer, and
\* for the exceptions that push an error code but have the unknown handler; a task
\* gets back all of its own registers, whatever ran in between; whenever a task runs no request is
\* kept back; and no device's interrupt comes up before its handler is there.
Transparent ==
    /\ \A n \in DOMAIN panic \ {"esp2", "ss2"} :
         panic[n] = [name |-> n, task |-> current] \/ vector[current] \in {21, 29, 30}
    /\ \A s \in Stacks : \A n \in DOMAIN restored[s] : restored[s][n] = [name |-> n, task |-> s]
    /\ phase[current] = "running" => inService = {}
    /\ panic # <<>> => vector[current] < IrqBase
=============================================================================
