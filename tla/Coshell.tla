------------------------------- MODULE Coshell ------------------------------
(***************************************************************************)
(* The shell, src/src/coshell.excp and coshell_cmd.c: it reads a line,     *)
(* splits it at the first blank, searches its table for the first word,    *)
(* and runs the command with the rest.  The commands that do more than     *)
(* print are composed here with what they start: the clock (Rtc), the game *)
(* (Sokoban), which the shell waits for, and the test of the mutex         *)
(* (RecursiveMutex), which goes on by itself and whose tasks killtask ends.*)
(***************************************************************************)
EXTENDS Rtc, Sokoban, RecursiveMutex

CONSTANTS
    Params,   \* bound: what is typed behind a command
    Subjects, \* bound: what is tried, one subject in a behaviour
    ShellId   \* the id of the shell's own task

VARIABLES
    subject, \* the subject of this behaviour
    shell,   \* "prompt", "busy" with a command, "asking" before it; "reset", "killed"
    typed,   \* the line typed last: a word and a parameter
    entry,   \* what was found for it in the table, 0 for nothing
    ended    \* the ids killtask and killproc were given that they went on with

shellVars == <<subject, shell, typed, entry, ended>>

NoParam == [sign |-> "NULL", digits |-> <<>>]
SystemIds == 0 .. 2 \* of the kernel's task, the idle task, and of no other
IdOf(t) == 10 * t[1] + t[2] \* the ids of the mutex's tasks

-----------------------------------------------------------------------------
(* The table.  Words are numbers that compare as strcmp compares them: the *)
(* i-th command is 2 * i, and between any two commands is another word.    *)

\* Commands, in the order that the preprocessor sorts them to
Commands == <<"cls", "cpuspeed", "datetime", "echo", "help", "killproc", "killtask", "meminfo", "reset", "showtick",
              "skout-sokoban", "testdynran", "testdynseq", "testfloat", "testmutex", "testprocess", "testtask">>

WordOrder == 1 .. 2 * Len(Commands) + 1
WordOf(c) == 2 * (CHOOSE i \in DOMAIN Commands : Commands[i] = c)

\* Mutant: the entry compared is searched again, and not the one before it.
EndAfter_Before(e) == e - 1

\* Where the search ends in the lower half: before the entry compared.
EndAfter(e) == e

\* Begin and end of what is left to search: there are entries from s[1] up to,
\* without, s[2].
Parts == {s \in (1 .. Len(Commands)) \X (2 .. Len(Commands) + 1) : s[1] < s[2]}

csSearchCommand(w) ==
    LET Halve[s \in Parts] ==
            LET i == s[1] + ((s[2] - s[1]) \div 2)
                narrowed == IF w < 2 * i THEN <<s[1], EndAfter(i)>> ELSE <<i + 1, s[2]>>
            IN  IF w = 2 * i THEN i
                ELSE IF narrowed[1] = narrowed[2] THEN 0
                ELSE Halve[narrowed]
    IN  Halve[<<1, Len(Commands) + 1>>]

\* atoi, for what is typed: a sign, digits, and something else.
Atoi(p) ==
    LET value[n \in 0 .. Len(p.digits)] == IF n = 0 THEN 0 ELSE value[n - 1] * 10 + p.digits[n]
    IN  IF p.sign = "-" THEN -value[Len(p.digits)] ELSE value[Len(p.digits)]

-----------------------------------------------------------------------------
(* The commands. *)

\* cpuspeed waits long if more than three seconds are given, in an unsigned word.
Long(p) == p # NoParam /\ (Atoi(p) > 3000 \/ Atoi(p) < 0)

\* The commands that ask before they go on.
Asks(c, p) == c = "reset" \/ (c = "cpuspeed" /\ Long(p))

\* killtask and killproc go on with ids above 2.
Kills(c, p) == c \in {"killtask", "killproc"} /\ p # NoParam /\ Atoi(p) > 2

Unstarted == UNCHANGED <<rtcVars, sokobanVars, mutexVars>>

\* Bound: the lines typed in a behaviour about each subject; every word is, but a
\* parameter only behind the commands that look at it.
TypedWords == [table |-> WordOrder, clock |-> {WordOf("datetime")}, game |-> {WordOf("skout-sokoban")},
               mutex |-> {WordOf("testmutex")}]
TypedWithParam == [table |-> {WordOf(c) : c \in {"cpuspeed", "help", "killproc", "killtask"}}, mutex |-> {WordOf("killtask")}]
Lines(words, params) == IF subject \in DOMAIN words THEN words[subject] \X params ELSE {}

\* What a command starts, or ends; the others only print, or create tasks that do.
Starts(c, p) ==
    CASE subject = "clock" -> Ask /\ UNCHANGED <<sokobanVars, mutexVars>>
      [] subject = "game" -> StartGame /\ UNCHANGED <<rtcVars, mutexVars>>
      [] subject = "mutex" ->
           /\ \/ c = "testmutex" /\ p = NoParam /\ StartTest
              \/ c = "killtask" /\ Kills(c, p) /\ \E t \in Tasks : IdOf(t) = Atoi(p) /\ Kill(t)
           /\ UNCHANGED <<rtcVars, sokobanVars>>
      [] subject = "table" -> c \notin {"datetime", "skout-sokoban", "testmutex"} /\ Unstarted
      [] OTHER -> FALSE

\* csCoshellMain, from the prompt on, with a line that is not empty.
NotFound(w) ==
    /\ csSearchCommand(w) = 0 /\ subject = "table"
    /\ shell' = "prompt" /\ Unstarted /\ UNCHANGED ended

Run(c, p) ==
    /\ Starts(c, p)
    /\ ended' = IF Kills(c, p) THEN ended \cup {Atoi(p)} ELSE ended
    /\ shell' = IF Asks(c, p) THEN "asking"
                ELSE IF c = "killtask" /\ Kills(c, p) /\ Atoi(p) = ShellId THEN "killed" ELSE "busy"

Enter(w, p) ==
    /\ shell = "prompt"
    /\ typed' = [word |-> w, param |-> p] /\ entry' = csSearchCommand(w)
    /\ NotFound(w) \/ (csSearchCommand(w) # 0 /\ Run(Commands[csSearchCommand(w)], p))
    /\ UNCHANGED subject

\* The answer to a question, y or not.
Answer(yes) ==
    /\ shell = "asking"
    /\ shell' = IF ~yes THEN "prompt" ELSE IF Commands[entry] = "reset" THEN "reset" ELSE "busy"
    /\ UNCHANGED <<subject, typed, entry, ended>> /\ Unstarted

\* The handler returns, that of the game when the game's task has ended.
Prompt ==
    /\ shell = "busy" /\ ~asked /\ game = "off" /\ testing = "none"
    /\ shell' = "prompt"
    /\ UNCHANGED <<subject, typed, entry, ended>> /\ Unstarted

\* What the commands have started goes on.
ClockStep ==
    /\ subject = "clock" /\ (Pass \/ ReadField \/ SetWeekday \/ Show)
    /\ UNCHANGED <<shellVars, sokobanVars, mutexVars>>

GameStep ==
    /\ subject = "game" /\ (LoadingStage \/ (\E k \in GameKeys : Turn(k)) \/ NextStage)
    /\ UNCHANGED <<shellVars, rtcVars, mutexVars>>

MutexStep ==
    /\ subject = "mutex"
    /\ (\E t \in Tasks : TaskStep(t)) \/ CommandStep \/ (\E r \in 1 .. Runs : PrintCount(r))
    /\ UNCHANGED <<shellVars, rtcVars, sokobanVars>>

CoshellInit ==
    /\ RtcInit /\ SokobanInit /\ MutexInit
    /\ subject \in Subjects /\ (subject # "clock" => ~IsBCD /\ ~Is12Hour)
    /\ shell = "prompt" /\ typed = [word |-> 1, param |-> NoParam] /\ entry = 0 /\ ended = {}

CoshellNext ==
    \/ \E line \in Lines(TypedWords, {NoParam}) \cup Lines(TypedWithParam, Params) : Enter(line[1], line[2])
    \/ (\E yes \in BOOLEAN : Answer(yes)) \/ Prompt
    \/ ClockStep \/ GameStep \/ MutexStep

CoshellVars == <<shellVars, rtcVars, sokobanVars, mutexVars>>

CoshellSpec == CoshellInit /\ [][CoshellNext]_CoshellVars

-----------------------------------------------------------------------------
(* Properties. *)

\* The table's preprocessed order and the search agree: whatever is typed, the
\* command run is the one whose name it is, none is run for any other word, and
\* nothing typed behind killtask or killproc ends the kernel's task or process, or
\* the idle task (task.c:390 asserts it).
RunsTyped ==
    /\ entry # 0 => typed.word = 2 * entry
    /\ entry = 0 => \A i \in DOMAIN Commands : typed.word # 2 * i
    /\ ended \cap SystemIds = {}
=============================================================================
