---------------------------- MODULE TerminalLine ----------------------------
(***************************************************************************)
(* The line a user types and its echo on the screen, src/src/terminal.c:   *)
(* the line buffer with its insertion point, and the screen with its       *)
(* cursor and the end of its text.  Every operation runs under s_TermMutex *)
(* (TerminalInput), so each is one step.                                   *)
(*                                                                         *)
(* Three things the code does take the line and its echo apart: Backspace  *)
(* at the left edge, Escape with the cursor inside the line, and printing  *)
(* while a line is being typed.  They are modelled; apart says that one    *)
(* has happened, and the model goes no further.                            *)
(***************************************************************************)
EXTENDS Integers, SequencesExt, FiniteSetsExt

CONSTANTS
    Width,     \* TERMINAL_WIDTH
    Height,    \* TERMINAL_HEIGHT
    LineSize,  \* sizeof(s_LineBuffer) - 1
    Chars      \* the characters the user types and programs print

ASSUME ScreenAssumption == Width \in Nat \ {0, 1} /\ Height \in Nat \ {0, 1}

\* A line fits on the screen wherever it begins: in the code 249 characters in 24 * 80.
ASSUME LineAssumption == LineSize \in Nat \ {0} /\ LineSize + Width <= Width * Height

Blank == "blank"

ASSUME CharsAssumption == Blank \notin Chars

VARIABLES
    screen,   \* the cells, s_CursorRow, s_CursorColumn, s_EndRow and s_EndColumn
    line,     \* s_LineBufArray
    at,       \* s_LineBufPtr, as the number of characters before it
    apart     \* the line and its echo have come apart

vars == <<screen, line, at, apart>>

Cells == 0 .. Width * Height - 1

Address(p) == p.row * Width + p.col

CursorOf(s) == Address(s.cursor)
EndOf(s) == Address(s.end)

-----------------------------------------------------------------------------
(* The screen. *)

\* memmove of n cells
Moved(cells, to, from, n) == [i \in Cells |-> IF i \in to .. to + n - 1 THEN cells[i - to + from] ELSE cells[i]]

\* _memset_2 of n cells
Cleared(cells, from, n) == [i \in Cells |-> IF i \in from .. from + n - 1 THEN Blank ELSE cells[i]]

\* csFindRightNotNullCol
RightEnd(cells, row) == Max({0} \cup {c \in 1 .. Width : cells[row * Width + c - 1] # Blank})

\* csScrollScreen
Scrolled(cells) == Cleared(Moved(cells, 0, Width, (Height - 1) * Width), (Height - 1) * Width, Width)

Above(p) == [p EXCEPT !.row = @ - 1]

Onwards(p) == IF p.col + 1 = Width THEN [row |-> p.row + 1, col |-> 0] ELSE [p EXCEPT !.col = @ + 1]

\* csNewLine
NewLine(s) ==
    LET full == s.end.row + 1 = Height
        next == [row |-> IF full THEN s.end.row ELSE s.end.row + 1, col |-> 0]
    IN  [cells |-> IF full THEN Scrolled(s.cells) ELSE s.cells, cursor |-> next, end |-> next]

LastCell == [row |-> Height - 1, col |-> Width - 1]

\* csAddChar cannot make room: the cursor's own row would scroll away.
Refuses(s) == s.end = LastCell /\ s.cursor.row = 0

\* The last cell is kept free: one more character makes the screen scroll.
Room(s) ==
    IF s.end = LastCell
    THEN [cells |-> Scrolled(s.cells), cursor |-> Above(s.cursor), end |-> Above(s.end)] ELSE s

\* csAddChar where it does not refuse: c is inserted at the cursor.
AddChar(s, c) ==
    LET r == Room(s)
    IN  [cells |-> [Moved(r.cells, CursorOf(r) + 1, CursorOf(r), EndOf(r) - CursorOf(r)) EXCEPT ![CursorOf(r)] = c],
         cursor |-> Onwards(r.cursor), end |-> Onwards(r.end)]

\* Mutant: the end stays in its row when the row becomes empty.
EndAfter_SameRow(cells, end) == IF end.col # 0 THEN [end EXCEPT !.col = @ - 1] ELSE end

\* Where the text ends when it is one character shorter.
EndAfter(cells, end) ==
    IF end.col # 0 THEN [end EXCEPT !.col = @ - 1]
    ELSE [row |-> end.row - 1, col |-> RightEnd(cells, end.row - 1)]

\* ckTerminalDelete_unsafe: the character at the cursor goes.
Delete(s) ==
    IF CursorOf(s) = EndOf(s) THEN s
    ELSE LET cells == [Moved(s.cells, CursorOf(s), CursorOf(s) + 1, EndOf(s) - CursorOf(s))
                         EXCEPT ![EndOf(s)] = Blank]
         IN  [s EXCEPT !.cells = cells, !.end = EndAfter(cells, @)]

\* ckTerminalBackspace_unsafe at the left edge, below the first row, which goes
\* on from the end of the row above; it ends only if that row is full.
BackspaceEdge(s) ==
    LET to == [row |-> s.cursor.row - 1, col |-> RightEnd(s.cells, s.cursor.row - 1)]
        n == EndOf(s) - CursorOf(s)
    IN  [cells |-> Cleared(Moved(s.cells, Address(to), CursorOf(s), n), Address(to) + n, EndOf(s) - Address(to) - n),
         cursor |-> to, end |-> [to EXCEPT !.col = @ + n]]

\* ckTerminalBackspace_unsafe
Backspace(s) ==
    IF s.cursor.col # 0 THEN Delete([s EXCEPT !.cursor.col = @ - 1])
    ELSE IF s.cursor.row # 0 THEN BackspaceEdge(s)
    ELSE s

\* The place n cells before p, column by column.
Before(p, n) == [row |-> (Address(p) - n) \div Width, col |-> (Address(p) - n) % Width]

-----------------------------------------------------------------------------
(* Keys and calls. *)

\* ckTerminalCls, in ckTerminalInitialize
Init ==
    /\ screen = [cells |-> [i \in Cells |-> Blank], cursor |-> [row |-> 0, col |-> 0], end |-> [row |-> 0, col |-> 0]]
    /\ line = <<>> /\ at = 0
    /\ apart = FALSE

\* ckTerminalClearLineBuffer_unsafe, on screen s
ClearLine(s) ==
    /\ screen' = [s EXCEPT !.end = s.cursor]
    /\ line' = <<>> /\ at' = 0

\* The key of a character: it is inserted, and taken back if the screen refuses it.
Type(c) ==
    /\ Len(line) < LineSize
    /\ IF Refuses(screen) THEN UNCHANGED <<screen, line, at>>
       ELSE /\ screen' = AddChar(screen, c)
            /\ line' = InsertAt(line, at + 1, c)
            /\ at' = at + 1
    /\ UNCHANGED apart

Enter == ClearLine(NewLine(screen)) /\ UNCHANGED apart

\* csCancelInputing counts the whole line back from the cursor.
Escape ==
    LET s == [screen EXCEPT !.cursor = Before(@, Len(line))]
    IN  /\ apart' = (at < Len(line))
        /\ IF apart' THEN UNCHANGED <<screen, line, at>>
           ELSE ClearLine([s EXCEPT !.cells = Cleared(@, CursorOf(s), EndOf(s) - CursorOf(s))])

BackspaceKey ==
    /\ at > 0
    /\ at' = at - 1 /\ line' = RemoveAt(line, at)
    /\ screen' = Backspace(screen)
    /\ apart' = (screen.cursor.col = 0)

DeleteKey ==
    /\ at < Len(line)
    /\ line' = RemoveAt(line, at + 1)
    /\ screen' = Delete(screen)
    /\ UNCHANGED <<at, apart>>

\* Mutant: the cursor stops at the left edge.
Back_Stop(p) == IF p.col = 0 THEN p ELSE [p EXCEPT !.col = @ - 1]

Back(p) == IF p.col = 0 THEN [row |-> p.row - 1, col |-> Width - 1] ELSE [p EXCEPT !.col = @ - 1]

Left ==
    /\ at > 0 /\ at' = at - 1
    /\ screen' = [screen EXCEPT !.cursor = Back(@)]
    /\ UNCHANGED <<line, apart>>

Right ==
    /\ at < Len(line) /\ at' = at + 1
    /\ screen' = [screen EXCEPT !.cursor = Onwards(@)]
    /\ UNCHANGED <<line, apart>>

\* ckTerminalPutChar_unsafe, for a program
PutChar(c) ==
    /\ screen' = (IF c = "new line" THEN NewLine(screen)
                  ELSE IF c = "backspace" THEN Backspace(screen)
                  ELSE IF Refuses(screen) THEN screen
                  ELSE AddChar(screen, c))
    /\ apart' = (line # <<>> \/ (c = "backspace" /\ screen.cursor.col = 0 /\ screen.cursor.row # 0))
    /\ UNCHANGED <<line, at>>

Cls ==
    /\ LET home == [row |-> 0, col |-> 0]
       IN  screen' = [cells |-> [i \in Cells |-> Blank], cursor |-> home, end |-> home]
    /\ line' = <<>> /\ at' = 0
    /\ UNCHANGED apart

Edit == (\E c \in Chars : Type(c)) \/ BackspaceKey \/ DeleteKey \/ Left \/ Right \/ Escape

Next ==
    /\ ~apart
    /\ Edit \/ Enter \/ (\E c \in Chars \cup {"new line", "backspace"} : PutChar(c)) \/ Cls

Spec == Init /\ [][Next]_vars

-----------------------------------------------------------------------------
(* Properties. *)

Places == [row : 0 .. Height - 1, col : 0 .. Width - 1]

\* Where the echo of the line begins
Start(s, n) == CursorOf(s) - n

\* The echo is the line: its characters are on the screen in order, the cursor is at
\* the place where the next one goes, and nothing follows its end, through wrapping
\* and scrolling (terminal.c:182, 262, 364).
Echo ==
    ~apart =>
        /\ screen.cursor \in Places /\ screen.end \in Places
        /\ Start(screen, at) >= 0
        /\ \A i \in 1 .. Len(line) : screen.cells[Start(screen, at) + i - 1] = line[i]
        /\ EndOf(screen) = Start(screen, at) + Len(line)
        /\ \A i \in Cells : i >= EndOf(screen) => screen.cells[i] = Blank

\* Editing leaves what stood before the line as it was, but for rows that scroll away
\* (terminal.c:189, 405).
PromptStays ==
    [][Edit /\ ~apart' =>
        LET gone == Start(screen, at) - Start(screen', at')
        IN  /\ gone \in {0, Width}
            /\ \A i \in 0 .. Start(screen', at') - 1 : screen'.cells[i] = screen.cells[i + gone]]_vars
=============================================================================
