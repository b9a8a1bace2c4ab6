--------------------------- MODULE TerminalInput ----------------------------
(***************************************************************************)
(* Input through the terminal, src/src/terminal.c, between three tasks:    *)
(* ckMain, which hands it every key (ckTerminalOnInput); a program that    *)
(* reads lines, characters or keys and clears the buffers, as the shell    *)
(* and the programs it joins do one after the other; and a task that only  *)
(* prints.  They meet at s_TermMutex, and at the events s_LineEvent and    *)
(* s_HitEvent, which are binary semaphores (binary_semaphore.c): 0 is free *)
(* or posted, entering sets 1, and a task that finds 1 yields and tries    *)
(* again.                                                                  *)
(*                                                                         *)
(* What a key does to the screen, and editing inside the line, are in      *)
(* TerminalLine.                                                           *)
(***************************************************************************)
EXTENDS CircularQueue, FiniteSetsExt

CONSTANTS
    Chars,      \* the characters the user types
    LineSize,   \* sizeof(s_LineBuffer) - 1
    InputSize,  \* sizeof(s_InputBuffer)
    HitSize,    \* sizeof(s_HitKeyBuffer)
    MaxKeys,    \* bound: how many keys are pressed
    MaxCalls,   \* bound: how many calls the reader makes
    MaxPrints   \* bound: how many the printer makes

ASSUME SizesAssumption == {LineSize, InputSize} \subseteq Nat \ {0} /\ HitSize \in Nat \ {0, 1}

ASSUME BoundsAssumption == {MaxKeys, MaxCalls, MaxPrints} \subseteq Nat

VARIABLES
    mutex,     \* s_TermMutex.flag
    lineEvent, \* s_LineEvent.flag
    hitEvent,  \* s_HitEvent.flag
    stat,      \* s_TermStat
    hits,      \* s_HitKeyQueue
    typing,    \* s_LineBufArray
    input,     \* s_InputBuffer, and s_InputArray.now as an index of it
    op,        \* what each task has called, or "none"
    key,       \* the key of ckTerminalOnInput
    waits,     \* the semaphores it has still to enter for it, by what they are for
    inside,    \* the tasks between entering s_TermMutex and posting it
    fault,     \* an assertion failed, or input was written past its end
    pressed, calls,  \* the keys pressed and the calls made so far
    due,       \* the characters of the lines entered, that no one has read or cleared
    spoilt,    \* ckTerminalGetLine took a line while more lay behind it
    astray     \* a reader was given something else than was due

buffers == <<stat, hits, typing, input>>
ghosts == <<due, spoilt, astray>>
vars == <<mutex, lineEvent, hitEvent, buffers, op, key, waits, inside, fault, pressed, calls, ghosts>>

Tasks == {"main", "reader", "printer"}

Nul == 0
Backspace == 8
NewLine == 10
Arrow == 167 \* CASCII_LEFT: a key without a character

Keys == Chars \cup {Backspace, NewLine, Arrow}

ASSUME CharsAssumption == Chars \subseteq 32 .. 126

ReaderCalls == {"GetLine", "GetChar", "Getch", "GotoXY", "ClearAllBuffers", "Wait"}

\* What a call enters, in order: s_TermMutex to set the status, an event, s_TermMutex.
Stages(o) ==
    CASE o = "GetLine" \/ o = "GetChar" -> <<"status", "line", "body">>
      [] o = "Getch" -> <<"hit", "body">>
      [] OTHER -> <<"body">>

-----------------------------------------------------------------------------
(* Semaphores. *)

\* ckBiSemEnter gets through.
Enterable(flag) == flag = 0

Stage(t) == Head(waits[t])

EnterMutex(t) ==
    /\ waits[t] # <<>> /\ t \notin inside
    /\ Stage(t) \in {"status", "body"}
    /\ Enterable(mutex) /\ mutex' = 1
    /\ inside' = inside \cup {t}
    /\ UNCHANGED <<lineEvent, hitEvent, buffers, op, key, waits, fault, pressed, calls, ghosts>>

EnterEvent(t) ==
    /\ waits[t] # <<>> /\ t \notin inside
    /\ \/ Stage(t) = "line" /\ Enterable(lineEvent) /\ lineEvent' = 1 /\ UNCHANGED hitEvent
       \/ Stage(t) = "hit" /\ Enterable(hitEvent) /\ hitEvent' = 1 /\ UNCHANGED lineEvent
    /\ waits' = [waits EXCEPT ![t] = Tail(@)]
    /\ UNCHANGED <<mutex, buffers, op, key, inside, fault, pressed, calls, ghosts>>

\* Task t calls o.
Call(t, o) ==
    /\ op[t] = "none"
    /\ op' = [op EXCEPT ![t] = o]
    /\ waits' = [waits EXCEPT ![t] = Stages(o)]
    /\ UNCHANGED <<mutex, lineEvent, hitEvent, buffers, inside, fault, ghosts>>

\* The end of what task t does inside: s_TermMutex is posted, and it goes on, or returns.
Leave(t) ==
    /\ t \in inside
    /\ mutex' = 0 /\ inside' = inside \ {t}
    /\ waits' = [waits EXCEPT ![t] = Tail(@)]
    /\ op' = [op EXCEPT ![t] = IF Len(waits[t]) = 1 THEN "none" ELSE @]
    /\ UNCHANGED <<key, pressed, calls>>

-----------------------------------------------------------------------------
(* Buffers. *)

Init ==
    /\ mutex = 0 /\ lineEvent = 1 /\ hitEvent = 1
    /\ stat = "INPUTING"
    /\ hits = New(HitSize) /\ typing = <<>>
    /\ input = [buf |-> [i \in 0 .. InputSize - 1 |-> Nul], now |-> 0]
    /\ op = [t \in Tasks |-> "none"] /\ key = Nul
    /\ waits = [t \in Tasks |-> <<>>] /\ inside = {}
    /\ fault = FALSE /\ pressed = 0 /\ calls = [t \in Tasks \ {"main"} |-> 0]
    /\ due = <<>> /\ spoilt = FALSE /\ astray = FALSE

\* The array's characters from index m up to n, without n
Part(m, n) == [i \in 1 .. n - m |-> input.buf[m + i - 1]]

\* The characters str stored at index m, as far as the buffer goes
Stored(buf, m, str) == [i \in DOMAIN buf |-> IF i \in m .. m + Len(str) - 1 THEN str[i - m + 1] ELSE buf[i]]

\* ckArray8Append and the new line behind it.  The test for an overflow looks at
\* the line's array, so that a full input is written one past its end.
EnterLine ==
    LET line == SubSeq(typing, 1, Min({Len(typing), InputSize - input.now}))
        now == input.now + Len(line)
    IN  /\ input' = [buf |-> Stored(input.buf, input.now, Append(line, NewLine)), now |-> now + 1]
        /\ fault' = (now = InputSize)
        /\ lineEvent' = 0
        /\ typing' = <<>>
        /\ due' = due \o typing \o <<NewLine>>

\* What a key does to the line.
Edited(k) ==
    IF k \in Chars THEN (IF Len(typing) < LineSize THEN Append(typing, k) ELSE typing)
    ELSE IF k = Backspace /\ typing # <<>> THEN SubSeq(typing, 1, Len(typing) - 1)
    ELSE typing

\* ckTerminalOnInput
OnInput(k) ==
    /\ hits' = Put(hits, k) /\ hitEvent' = 0
    /\ IF stat = "INPUTING" /\ k = NewLine THEN EnterLine
       ELSE /\ typing' = IF stat = "INPUTING" THEN Edited(k) ELSE typing
            /\ UNCHANGED <<input, lineEvent, fault, due>>
    /\ UNCHANGED <<stat, spoilt, astray>>

\* ckTerminalClearHitKeyBuffer_unsafe
ClearHits == hits' = New(HitSize) /\ hitEvent' = 1

\* The lines end at the first new line of the buffer, strchr(s_InputBuffer, '\n').
LineEnds(i) == input.buf[i] = NewLine /\ \A j \in 0 .. i - 1 : input.buf[j] \notin {NewLine, Nul}

\* A reader takes str, and what is left is the array now.
Take(str) ==
    IF spoilt THEN UNCHANGED <<due, astray>>
    ELSE IF Len(str) <= Len(due) /\ SubSeq(due, 1, Len(str)) = str THEN due' = SubSeq(due, Len(str) + 1, Len(due)) /\ UNCHANGED astray
    ELSE astray' = TRUE /\ UNCHANGED due

\* Mutant: the event is not posted for what is left.
PostLine_Never == UNCHANGED lineEvent

\* Mutant: it is posted although nothing is left.
PostLine_Always == lineEvent' = 0

\* The event of the line stays posted while anything is left.
PostLine == lineEvent' = IF input'.now # 0 THEN 0 ELSE lineEvent

\* Mutant: the new line is left in front.
Rest_NewLine(i) == i

\* How much of the array a line that ends at i gives up
Rest(i) == i + 1

\* ckTerminalGetLine: the line is copied out, but only its characters, not the new
\* line, are moved over, while the array becomes shorter by both.
GetLine ==
    IF \E i \in DOMAIN input.buf : LineEnds(i)
    THEN LET i == CHOOSE i \in DOMAIN input.buf : LineEnds(i)
         IN  /\ fault' = (input.now <= i)
             /\ input' = IF fault' THEN input
                         ELSE [buf |-> Stored(input.buf, 0, Part(i, input.now)), now |-> input.now - Rest(i)]
             /\ Take(Append(Part(0, i), NewLine))
             /\ spoilt' = (spoilt \/ i + 1 < input.now)
             /\ PostLine
    ELSE fault' = TRUE /\ UNCHANGED <<input, lineEvent, ghosts>>

\* ckTerminalGetChar
GetChar ==
    IF input.now > 0
    THEN /\ input' = [buf |-> Stored(input.buf, 0, Part(1, input.now)), now |-> input.now - 1]
         /\ Take(<<input.buf[0]>>)
         /\ PostLine
         /\ UNCHANGED <<fault, spoilt>>
    ELSE fault' = TRUE /\ UNCHANGED <<input, lineEvent, ghosts>>

\* ckTerminalGetch
Getch ==
    /\ fault' = hits.empty
    /\ hits' = Remove(hits)
    /\ hitEvent' = IF hits'.empty THEN hitEvent ELSE 0
    /\ UNCHANGED <<lineEvent, stat, typing, input, ghosts>>

\* Mutant: the event of a line that is thrown away stays posted.
ClearInput_KeepEvent ==
    /\ input' = [input EXCEPT !.now = 0] /\ UNCHANGED lineEvent
    /\ due' = <<>> /\ spoilt' = FALSE /\ UNCHANGED astray

\* ckTerminalClearInputBuffer_unsafe
ClearInput ==
    /\ input' = [input EXCEPT !.now = 0] /\ lineEvent' = 1
    /\ due' = <<>> /\ spoilt' = FALSE /\ UNCHANGED astray

-----------------------------------------------------------------------------
(* Tasks. *)

\* A key gets to ckTerminalOnInput.
Press(k) ==
    /\ pressed < MaxKeys /\ pressed' = pressed + 1
    /\ Call("main", "OnInput") /\ key' = k
    /\ UNCHANGED calls

Ask(t, o, max) ==
    /\ calls[t] < max /\ calls' = [calls EXCEPT ![t] = @ + 1]
    /\ Call(t, o)
    /\ UNCHANGED <<key, pressed>>

MainBody == OnInput(key) /\ Leave("main")

\* ckTerminalSetStatus(TERMINAL_STATUS_STRING_INPUTING), before a line is awaited
SetStatus ==
    /\ waits["reader"] # <<>> /\ Stage("reader") = "status"
    /\ stat' = "INPUTING"
    /\ Leave("reader")
    /\ UNCHANGED <<lineEvent, hitEvent, hits, typing, input, fault, ghosts>>

ReaderBody ==
    /\ waits["reader"] = <<"body">>
    /\ Leave("reader")
    /\ \/ op["reader"] = "GetLine" /\ GetLine /\ ClearHits /\ UNCHANGED <<stat, typing>>
       \/ op["reader"] = "GetChar" /\ GetChar /\ ClearHits /\ UNCHANGED <<stat, typing>>
       \/ op["reader"] = "Getch" /\ Getch
       \/ op["reader"] = "GotoXY" /\ ClearInput /\ typing' = <<>>
            /\ UNCHANGED <<hitEvent, stat, hits, fault>>
       \/ op["reader"] = "ClearAllBuffers" /\ ClearInput /\ ClearHits /\ typing' = <<>>
            /\ UNCHANGED <<stat, fault>>
       \/ op["reader"] = "Wait" /\ stat' = "WAITING"
            /\ UNCHANGED <<lineEvent, hitEvent, hits, typing, input, fault, ghosts>>

\* ckTerminalPrintString
PrinterBody ==
    /\ Leave("printer")
    /\ UNCHANGED <<lineEvent, hitEvent, buffers, fault, ghosts>>

Progress(t) ==
    \/ EnterMutex(t) \/ EnterEvent(t)
    \/ t = "main" /\ MainBody
    \/ t = "reader" /\ (SetStatus \/ ReaderBody)
    \/ t = "printer" /\ PrinterBody

Next ==
    /\ ~fault
    /\ \/ \E k \in Keys : Press(k)
       \/ \E o \in ReaderCalls : Ask("reader", o, MaxCalls)
       \/ Ask("printer", "Print", MaxPrints)
       \/ \E t \in Tasks : Progress(t)

Spec == Init /\ [][Next]_vars

\* A task that waits tries again whenever it gets the CPU, and every ready task does.
FairSpec == Spec /\ \A t \in Tasks : WF_vars(~fault /\ Progress(t))

-----------------------------------------------------------------------------
(* Properties. *)

HasEntered(calling) == op["reader"] \in calling /\ waits["reader"] = <<"body">>

\* An event is posted exactly while there is something to read, but for the reader
\* that has entered it and not yet read: no wake-up is lost, and none is left over
\* for a buffer that was cleared (terminal.c:646, 682, 699).  A line taken in front of
\* another takes the new line of the last one, and can leave the event behind.  At
\* most one task is between entering and posting s_TermMutex, and no one posts a
\* mutex it does not hold (binary_semaphore.c:44).
EventsExact ==
    /\ \A t, u \in inside : t = u /\ mutex = 1
    /\ ~fault =>
        /\ spoilt \/ HasEntered({"GetLine", "GetChar"}) \/ (lineEvent = 0 <=> input.now # 0)
        /\ HasEntered({"Getch"}) \/ (hitEvent = 0 <=> ~hits.empty)

\* A reader is given what was entered, in order, unless more than one line lay ready
\* when ckTerminalGetLine took one (terminal.c:640).
ReadsInOrder == ~astray

\* No assertion fails, the line and the input stay in their buffers, unless that is full, or a line
\* was taken in front of another (terminal.c:323, 634, array.c:52).
FaultsOnlyFull == Len(typing) <= LineSize /\ (fault => input.now > InputSize \/ spoilt)

\* A reader that waits for a line gets what has been entered.
Answered ==
    (op["reader"] \in {"GetLine", "GetChar"} /\ due # <<>> /\ ~spoilt) ~> (op["reader"] = "none" \/ fault)
=============================================================================
