---------------------------- MODULE MemoryTests -----------------------------
(***************************************************************************)
(* The shell's two tests of the allocator, src/src/coshell_cmd.c 95-211,   *)
(* on Buddy.  testdynran starts tasks that go on in the background, so     *)
(* testdynseq may be started while they take and give back memory.         *)
(*                                                                         *)
(* What a test writes to its memory matters only in whether somebody else  *)
(* has written to it before it is compared.                                *)
(***************************************************************************)
EXTENDS Buddy

CONSTANTS
    Testers,           \* the tasks of testdynran
    Shell,             \* the task of testdynseq, the shell
    Sizes,             \* what rand() % 32768 * 4096 may be
    testdynran_number, \* bound: the rounds of each tester
    NoMem              \* NULL

ASSUME TestersAssumption == Shell \notin Testers
ASSUME SizesAssumption == \A size \in Sizes : size \in Nat /\ size % Unit = 0

VARIABLES
    tested,  \* whether tests run in this behaviour, or other callers
    stage,   \* where each test is
    mem,     \* the block it works on, while it does
    round,   \* how many rounds each tester has made
    stack,   \* the stack of each tester
    level, block, \* i and j of testdynseq
    own,     \* what testdynseq has been given in this run
    spoiled  \* the tests whose block somebody else has written to since they did

Writers == Testers \cup {Shell}

testVars == <<tested, stage, mem, round, stack, level, block, own, spoiled>>

TestsInit ==
    /\ BuddyInit
    /\ tested \in BOOLEAN
    /\ stage = [w \in Writers |-> "off"] /\ mem = [w \in Writers |-> NoMem]
    /\ round = [t \in Testers |-> 0] /\ stack = [t \in Testers |-> NoMem]
    /\ level = 0 /\ block = 0 /\ own = {} /\ spoiled = {}

-----------------------------------------------------------------------------

Goes(w, to) == stage' = [stage EXCEPT ![w] = to]

Given == CHOOSE m \in live' \ live : TRUE

\* The loop that writes to every word of the block.
Fill(w) ==
    /\ stage[w] = "fill"
    /\ Goes(w, "compare")
    /\ spoiled' = (spoiled \ {w}) \cup
                    {v \in Writers \ {w} : stage[v] = "compare" /\ UnitsOf(mem[v]) \cap UnitsOf(mem[w]) # {}}
    /\ UNCHANGED <<buddyVars, tested, mem, round, stack, level, block, own>>

(* testdynseq. *)

StartSeq ==
    /\ stage[Shell] \in {"off", "failed", "completed"}
    /\ Goes(Shell, "allocate")
    /\ level' = 0 /\ block' = 0 /\ own' = {}
    /\ UNCHANGED <<buddyVars, tested, mem, round, stack, spoiled>>

SeqSize == Unit * Pow2[level]

\* A test that fails keeps what it has: it returns without freeing.
SeqAllocate ==
    /\ stage[Shell] = "allocate"
    /\ \/ Refused(SeqSize) /\ Goes(Shell, "failed") /\ UNCHANGED <<buddyVars, mem, own>>
       \/ /\ Allocate(SeqSize) /\ Goes(Shell, "fill")
          /\ mem' = [mem EXCEPT ![Shell] = Given]
          /\ own' = own \cup {Given}
    /\ UNCHANGED <<tested, round, stack, level, block, spoiled>>

SeqCompare ==
    /\ stage[Shell] = "compare"
    /\ IF Shell \in spoiled THEN Goes(Shell, "failed") /\ UNCHANGED block
       ELSE IF block + 1 < LevelSize(level) THEN Goes(Shell, "allocate") /\ block' = block + 1
       ELSE Goes(Shell, "free") /\ block' = 0
    /\ mem' = [mem EXCEPT ![Shell] = NoMem]
    /\ UNCHANGED <<buddyVars, tested, round, stack, level, own, spoiled>>

\* The blocks are freed by their computed addresses.
SeqBlock(b) == [addr |-> BeginAddr + SeqSize * b, size |-> SeqSize]

SeqFree ==
    /\ stage[Shell] = "free"
    /\ Free(SeqBlock(block), SeqBlock(block).addr)
    /\ own' = own \ {SeqBlock(block)}
    /\ IF block + 1 < LevelSize(level) THEN block' = block + 1 /\ UNCHANGED <<stage, level>>
       ELSE IF level + 1 < BitmapLevel THEN Goes(Shell, "allocate") /\ level' = level + 1 /\ block' = 0
       ELSE Goes(Shell, "completed") /\ UNCHANGED <<level, block>>
    /\ UNCHANGED <<tested, mem, round, stack, spoiled>>

(* testdynran. *)

\* The command takes a stack for each of its tasks.  It does not ask whether it got
\* one: without, a task runs on the first page of memory, which two cannot share.
StartTester(t) ==
    /\ stage[t] = "off" /\ stage[Shell] \notin {"allocate", "fill", "compare", "free"}
    /\ \/ Allocate(Unit) /\ stack' = [stack EXCEPT ![t] = Given]
       \/ /\ Refused(Unit) /\ UNCHANGED buddyVars
          /\ stack' = [stack EXCEPT ![t] = NoMem]
          /\ \A v \in Testers : stage[v] \in {"off", "gone"} \/ stack[v] # NoMem
    /\ Goes(t, "allocate")
    /\ UNCHANGED <<tested, mem, round, level, block, own, spoiled>>

\* With another size after each that is refused, and after yielding.
TesterAllocate(t) ==
    /\ stage[t] = "allocate"
    /\ \E size \in Sizes : Allocate(size)
    /\ Goes(t, "fill")
    /\ mem' = [mem EXCEPT ![t] = Given]
    /\ UNCHANGED <<tested, round, stack, level, block, own, spoiled>>

TesterCompare(t) ==
    /\ stage[t] = "compare"
    /\ Goes(t, IF t \in spoiled THEN "exited" ELSE "free")
    /\ UNCHANGED <<buddyVars, tested, mem, round, stack, level, block, own, spoiled>>

TesterFree(t) ==
    /\ stage[t] = "free"
    /\ Free(mem[t], mem[t].addr)
    /\ round' = [round EXCEPT ![t] = @ + 1]
    /\ Goes(t, IF round'[t] = testdynran_number THEN "exited" ELSE "allocate")
    /\ mem' = [mem EXCEPT ![t] = NoMem]
    /\ UNCHANGED <<tested, stack, level, block, own, spoiled>>

\* The idle task frees the stack of a task that has exited, if it has one.
FreeStack(t) ==
    /\ stage[t] = "exited"
    /\ IF stack[t] = NoMem THEN UNCHANGED buddyVars ELSE Free(stack[t], stack[t].addr)
    /\ Goes(t, "gone")
    /\ stack' = [stack EXCEPT ![t] = NoMem]
    /\ UNCHANGED <<tested, mem, round, level, block, own, spoiled>>

TestsNext ==
    \/ ~tested /\ BuddyNext /\ UNCHANGED testVars
    \/ /\ tested
       /\ \/ \E w \in Writers : Fill(w)
          \/ StartSeq \/ SeqAllocate \/ SeqCompare \/ SeqFree
          \/ \E t \in Testers : StartTester(t) \/ TesterAllocate(t) \/ TesterCompare(t) \/ TesterFree(t) \/ FreeStack(t)

TestsSpec == TestsInit /\ [][TestsNext]_<<buddyVars, testVars>>

-----------------------------------------------------------------------------
(* Properties. *)

\* The tests find no fault in the allocator, and cause none: what a test has
\* written nobody else has written over when it compares; testdynseq frees by its
\* computed addresses (coshell_cmd.c:137) only what it was given; and it is refused
\* a block only if somebody else holds memory, so that what the blocks of one level
\* leave behind never keeps those of the next from being allocated.
TestsPass ==
    /\ \A w \in Writers : stage[w] = "compare" => w \notin spoiled
    /\ stage[Shell] = "free" => \A b \in block .. LevelSize(level) - 1 : SeqBlock(b) \in own
    /\ stage[Shell] = "allocate" /\ Refused(SeqSize) => live # own
=============================================================================
