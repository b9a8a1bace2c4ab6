-------------------------- MODULE TerminalLineProofs -------------------------
(***************************************************************************)
(* That the echo of a line is the line, wherever on the screen it begins   *)
(* and however it wraps and scrolls: for any screen and any line that fits *)
(* on it.                                                                  *)
(***************************************************************************)
EXTENDS TerminalLine, SequenceTheorems, FiniteSetTheorems, TLAPS

Contents == Chars \cup {Blank}
Screens == [cells : [Cells -> Contents], cursor : Places, end : Places]

\* From the beginning of the row of address a, or of one above it, nothing is blank up
\* to the end.
Solid(s, a) ==
    \E r \in 0 .. Height - 1 :
        r * Width <= a /\ \A i \in Cells : r * Width <= i /\ i < EndOf(s) => s.cells[i] # Blank

\* The screen s shows the line l, with the insertion point behind n characters.
Echoes(s, l, n) ==
    /\ s \in Screens /\ l \in Seq(Chars) /\ Len(l) <= LineSize /\ n \in 0 .. Len(l)
    /\ Start(s, n) >= 0 /\ EndOf(s) = Start(s, n) + Len(l)
    /\ \A i \in 1 .. Len(l) : s.cells[Start(s, n) + i - 1] = l[i]
    /\ \A i \in Cells : i >= EndOf(s) => s.cells[i] = Blank
    /\ Solid(s, Start(s, n))

LineInv == apart \in BOOLEAN /\ (~apart => Echoes(screen, line, at))

-----------------------------------------------------------------------------
(* Places and addresses. *)

\* A later row begins a row's length behind an earlier one, or further.
LEMMA RowsApart ==
    ASSUME NEW r \in Nat, NEW q \in Nat, r < q
    PROVE  r * Width + Width <= q * Width
<1>1. ASSUME NEW d \in Nat PROVE d * Width >= 0
  BY ScreenAssumption
<1>2. (q - r - 1) * Width >= 0
  BY <1>1
<1>3. (q - r - 1) * Width = q * Width - (r * Width + Width)
  BY ScreenAssumption
<1>4. r * Width \in Int /\ q * Width \in Int /\ Width \in Int
  BY ScreenAssumption
<1>5. QED BY <1>2, <1>3, <1>4

\* The screen's size, and where its last row begins.
Size == Width * Height
LastRow == (Height - 1) * Width

\* The last row is the last Width cells.
LEMMA SizeIs ==
    /\ Width \in Int /\ Height \in Int /\ Width >= 2 /\ Height >= 2
    /\ Size \in Int /\ LastRow \in Int /\ Size = LastRow + Width /\ LastRow >= Width
    /\ Cells = 0 .. Size - 1
<1>1. Width \in Int /\ Height \in Int /\ Width >= 2 /\ Height >= 2
  BY ScreenAssumption
<1>2. 0 * Width + Width <= (Height - 1) * Width
  BY <1>1, RowsApart
<1>3. QED BY <1>1, <1>2 DEF Size, LastRow, Cells

\* An address is a cell's, and its row and column are those it was made of.
LEMMA AddressIs ==
    ASSUME NEW p \in Places
    PROVE  /\ Address(p) \in Cells /\ p.row * Width \in Int
           /\ p = [row |-> p.row, col |-> p.col]
           /\ Address(p) = p.row * Width + p.col
           /\ 0 <= p.row * Width /\ p.row * Width <= LastRow
           /\ p.row = Height - 1 => p.row * Width = LastRow
           /\ p.row = 0 => p.row * Width = 0
           /\ p.row > 0 => Width <= p.row * Width
           /\ p.row < Height - 1 => p.row * Width + Width <= LastRow
<1>1. /\ p.row \in Nat /\ p.row <= Height - 1 /\ p.col \in Int /\ 0 <= p.col /\ p.col < Width
      /\ p = [row |-> p.row, col |-> p.col]
  BY SizeIs DEF Places
<1> DEFINE a == p.row * Width
<1>2. a \in Int /\ Height - 1 \in Nat /\ 0 \in Nat
  BY <1>1, SizeIs
<1>3. p.row < Height - 1 => a + Width <= LastRow
  BY <1>1, <1>2, RowsApart DEF LastRow
<1>4. p.row > 0 => 0 * Width + Width <= a
  BY <1>1, <1>2, RowsApart
<1>5. p.row = 0 => a = 0
  BY SizeIs
<1>6. p.row = Height - 1 => a = LastRow
  BY DEF LastRow
<1>7. 0 * Width = 0
  BY SizeIs
<1>8. Address(p) = a + p.col
  BY DEF Address
<1> HIDE DEF a
<1>9. 0 <= a /\ a <= LastRow
  BY <1>1, <1>2, <1>3, <1>4, <1>5, <1>6, <1>7, SizeIs
<1>10. Address(p) \in Cells
  BY <1>1, <1>2, <1>8, <1>9, SizeIs
<1>11. /\ a \in Int /\ p = [row |-> p.row, col |-> p.col] /\ Address(p) = a + p.col
       /\ 0 <= a /\ a <= LastRow
       /\ p.row = Height - 1 => a = LastRow
       /\ p.row = 0 => a = 0
       /\ p.row > 0 => Width <= a
       /\ p.row < Height - 1 => a + Width <= LastRow
  BY <1>1, <1>2, <1>3, <1>4, <1>5, <1>6, <1>7, <1>8, <1>9, SizeIs
<1>12. QED BY <1>10, <1>11 DEF a

\* What tells the rows of two places tells their addresses.
LEMMA AddressOrder ==
    ASSUME NEW p \in Places, NEW q \in Places
    PROVE  p.row < q.row => Address(p) < q.row * Width
<1>1. p.row \in Nat /\ q.row \in Nat /\ p.col < Width /\ p.col \in Int
  BY SizeIs DEF Places
<1>2. p.row < q.row => p.row * Width + Width <= q.row * Width
  BY <1>1, RowsApart
<1> DEFINE a == p.row * Width
           b == q.row * Width
<1>3. a \in Int /\ b \in Int /\ Address(p) = a + p.col
  BY AddressIs
<1>4. p.row < q.row => a + Width <= b
  BY <1>2
<1> HIDE DEF a, b
<1>5. p.row < q.row => Address(p) < b
  BY <1>1, <1>3, <1>4, SizeIs
<1>6. QED BY <1>5 DEF b

\* The last cell is the last place's.
LEMMA LastIs ==
    /\ LastCell \in Places /\ Address(LastCell) = Size - 1
    /\ \A p \in Places : Address(p) = Size - 1 => p = LastCell
<1>1. LastCell \in Places /\ LastCell.row = Height - 1 /\ LastCell.col = Width - 1
  BY SizeIs DEF LastCell, Places
<1>2. Address(LastCell) = Size - 1
  <2>1. LastCell.row * Width = LastRow /\ Address(LastCell) = LastCell.row * Width + LastCell.col
    BY <1>1, AddressIs
  <2>2. QED BY <1>1, <2>1, SizeIs
<1>3. ASSUME NEW p \in Places, Address(p) = Size - 1 PROVE p = LastCell
  <2> DEFINE a == p.row * Width
  <2>1. /\ p.row \in Int /\ 0 <= p.row /\ p.row <= Height - 1 /\ p.col \in Int /\ p.col < Width
        /\ a \in Int /\ Address(p) = a + p.col /\ (p.row < Height - 1 => a + Width <= LastRow)
        /\ (p.row = Height - 1 => a = LastRow) /\ p = [row |-> p.row, col |-> p.col]
    BY AddressIs, SizeIs DEF Places
  <2> HIDE DEF a
  <2>2. p.row = Height - 1 /\ p.col = Width - 1
    BY <1>3, <2>1, SizeIs
  <2>3. QED BY <2>1, <2>2 DEF LastCell
<1>4. QED BY <1>1, <1>2, <1>3

\* The place after another, before the last (csAddChar, ckTerminalRight).
LEMMA OnwardsIs ==
    ASSUME NEW p \in Places, Address(p) < Size - 1
    PROVE  Onwards(p) \in Places /\ Address(Onwards(p)) = Address(p) + 1
<1> DEFINE q == Onwards(p)
<1>1. /\ p.row \in Int /\ 0 <= p.row /\ p.row <= Height - 1 /\ p.col \in Int /\ 0 <= p.col /\ p.col < Width
      /\ p.row * Width \in Int /\ Address(p) = p.row * Width + p.col
      /\ p = [row |-> p.row, col |-> p.col]
      /\ p.row = Height - 1 => p.row * Width = LastRow
  BY AddressIs, SizeIs DEF Places
<1>2. CASE p.col + 1 = Width
  <2>1. q = [row |-> p.row + 1, col |-> 0]
    BY <1>2 DEF Onwards
  <2>2. p.row < Height - 1
    BY <1>1, <1>2, SizeIs, SMTT(20)
  <2>3. q \in Places
    BY <1>1, <2>1, <2>2, SizeIs DEF Places
  <2>4. Address(q) = (p.row + 1) * Width + 0
    BY <2>1 DEF Address
  <2>5. (p.row + 1) * Width = p.row * Width + Width
    BY <1>1, SizeIs
  <2>6. QED BY <1>1, <1>2, <2>3, <2>4, <2>5, SizeIs
<1>3. CASE p.col + 1 # Width
  <2>1. q = [row |-> p.row, col |-> p.col + 1]
    BY <1>1, <1>3 DEF Onwards
  <2>2. q \in Places
    BY <1>1, <1>3, <2>1, SizeIs DEF Places
  <2>3. Address(q) = p.row * Width + (p.col + 1)
    BY <2>1 DEF Address
  <2>4. QED BY <1>1, <2>2, <2>3
<1>4. QED BY <1>2, <1>3

\* The place before another, behind the first (ckTerminalLeft).
LEMMA BackIs ==
    ASSUME NEW p \in Places, Address(p) > 0
    PROVE  Back(p) \in Places /\ Address(Back(p)) = Address(p) - 1
<1> DEFINE q == Back(p)
<1>1. /\ p.row \in Int /\ 0 <= p.row /\ p.row <= Height - 1 /\ p.col \in Int /\ 0 <= p.col /\ p.col < Width
      /\ p.row * Width \in Int /\ Address(p) = p.row * Width + p.col
      /\ p = [row |-> p.row, col |-> p.col]
      /\ p.row = 0 => p.row * Width = 0
  BY AddressIs, SizeIs DEF Places
<1>2. CASE p.col = 0
  <2>1. q = [row |-> p.row - 1, col |-> Width - 1]
    BY <1>2 DEF Back
  <2>2. p.row > 0
    BY <1>1, <1>2
  <2>3. q \in Places
    BY <1>1, <2>1, <2>2, SizeIs DEF Places
  <2>4. Address(q) = (p.row - 1) * Width + (Width - 1)
    BY <2>1 DEF Address
  <2>5. (p.row - 1) * Width = p.row * Width - Width
    BY <1>1, SizeIs
  <2>6. QED BY <1>1, <1>2, <2>3, <2>4, <2>5, SizeIs
<1>3. CASE p.col # 0
  <2>1. q = [row |-> p.row, col |-> p.col - 1]
    BY <1>1, <1>3 DEF Back
  <2>2. q \in Places
    BY <1>1, <1>3, <2>1, SizeIs DEF Places
  <2>3. Address(q) = p.row * Width + (p.col - 1)
    BY <2>1 DEF Address
  <2>4. QED BY <1>1, <2>2, <2>3
<1>4. QED BY <1>2, <1>3

\* The place a row above (csScrollScreen).
LEMMA AboveIs ==
    ASSUME NEW p \in Places, p.row # 0
    PROVE  Above(p) \in Places /\ Address(Above(p)) = Address(p) - Width
<1>1. /\ p.row \in Int /\ 0 < p.row /\ p.row <= Height - 1 /\ p.col \in Int /\ 0 <= p.col /\ p.col < Width
      /\ p.row * Width \in Int /\ Address(p) = p.row * Width + p.col
      /\ p = [row |-> p.row, col |-> p.col]
  BY AddressIs, SizeIs DEF Places
<1>2. Above(p) = [row |-> p.row - 1, col |-> p.col]
  BY <1>1 DEF Above
<1>3. Above(p) \in Places
  BY <1>1, <1>2, SizeIs DEF Places
<1>4. Address(Above(p)) = (p.row - 1) * Width + p.col
  BY <1>2 DEF Address
<1>5. (p.row - 1) * Width = p.row * Width - Width
  BY <1>1, SizeIs
<1>6. QED BY <1>1, <1>3, <1>4, <1>5, SizeIs

\* The place so many cells before another (csCancelInputing).
LEMMA BeforeIs ==
    ASSUME NEW p \in Places, NEW n \in Nat, n <= Address(p)
    PROVE  Before(p, n) \in Places /\ Address(Before(p, n)) = Address(p) - n
<1> DEFINE a == Address(p) - n
           r == a \div Width
           c == a % Width
<1>1. a \in Int /\ 0 <= a /\ a < Size
  BY AddressIs, SizeIs
<1>2. Before(p, n) = [row |-> r, col |-> c]
  BY DEF Before
<1> HIDE DEF a
<1>3. r \in Int /\ c \in Int /\ 0 <= r /\ 0 <= c /\ c < Width /\ a = r * Width + c
  BY <1>1, SizeIs
<1> HIDE DEF r, c
<1>4. r <= Height - 1
  <2>1. SUFFICES ASSUME Height - 1 < r PROVE FALSE
    BY <1>3, SizeIs
  <2>2. (Height - 1) * Width + Width <= r * Width
    BY <1>3, <2>1, RowsApart, SizeIs
  <2>3. r * Width \in Int
    BY <1>3, SizeIs
  <2>4. QED BY <1>1, <1>3, <2>2, <2>3, SizeIs DEF LastRow
<1>5. Before(p, n) \in Places
  BY <1>2, <1>3, <1>4, SizeIs DEF Places
<1>6. Address(Before(p, n)) = r * Width + c
  BY <1>2 DEF Address
<1>7. QED BY <1>3, <1>5, <1>6 DEF a

-----------------------------------------------------------------------------
(* What the operations do to the screen. *)

\* Cells that are moved.
LEMMA MovedIs ==
    ASSUME NEW cells \in [Cells -> Contents], NEW to \in Int, NEW from \in Int, NEW n \in Int,
           0 <= to, 0 <= from, from + n <= Size
    PROVE  /\ Moved(cells, to, from, n) \in [Cells -> Contents]
           /\ \A i \in Cells : Moved(cells, to, from, n)[i]
                = IF to <= i /\ i < to + n THEN cells[i - to + from] ELSE cells[i]
<1>1. ASSUME NEW i \in Cells
      PROVE  /\ i \in to .. to + n - 1 <=> to <= i /\ i < to + n
             /\ to <= i /\ i < to + n => i - to + from \in Cells
  BY SizeIs
<1>2. \A i \in Cells : Moved(cells, to, from, n)[i]
         = IF to <= i /\ i < to + n THEN cells[i - to + from] ELSE cells[i]
  BY <1>1 DEF Moved
<1>3. \A i \in Cells : Moved(cells, to, from, n)[i] \in Contents
  BY <1>1, <1>2
<1>4. QED BY <1>2, <1>3 DEF Moved

\* Cells that are cleared.
LEMMA ClearedIs ==
    ASSUME NEW cells \in [Cells -> Contents], NEW from \in Int, NEW n \in Int
    PROVE  /\ Cleared(cells, from, n) \in [Cells -> Contents]
           /\ \A i \in Cells : Cleared(cells, from, n)[i]
                = IF from <= i /\ i < from + n THEN Blank ELSE cells[i]
<1>1. \A i \in Cells : i \in from .. from + n - 1 <=> from <= i /\ i < from + n
  BY SizeIs
<1>2. QED BY <1>1 DEF Cleared, Contents

\* The rows move up, and the last one is empty (csScrollScreen).
LEMMA ScrolledIs ==
    ASSUME NEW cells \in [Cells -> Contents]
    PROVE  /\ Scrolled(cells) \in [Cells -> Contents]
           /\ \A i \in Cells : Scrolled(cells)[i] = IF i < LastRow THEN cells[i + Width] ELSE Blank
<1> DEFINE m == Moved(cells, 0, Width, LastRow)
<1>1. /\ m \in [Cells -> Contents]
      /\ \A i \in Cells : m[i] = IF 0 <= i /\ i < 0 + LastRow THEN cells[i - 0 + Width] ELSE cells[i]
  BY MovedIs, SizeIs
<1>2. Scrolled(cells) = Cleared(m, LastRow, Width)
  BY DEF Scrolled, LastRow
<1> HIDE DEF m
<1>3. /\ Scrolled(cells) \in [Cells -> Contents]
      /\ \A i \in Cells : Scrolled(cells)[i] = IF LastRow <= i /\ i < LastRow + Width THEN Blank ELSE m[i]
  BY <1>1, <1>2, ClearedIs, SizeIs
<1>4. ASSUME NEW i \in Cells
      PROVE  Scrolled(cells)[i] = IF i < LastRow THEN cells[i + Width] ELSE Blank
  <2>1. i \in Int /\ 0 <= i /\ i < LastRow + Width
    BY SizeIs
  <2>2. CASE i < LastRow
    <3>1. m[i] = cells[i - 0 + Width] /\ i - 0 + Width = i + Width
      BY <1>1, <2>1, <2>2, SizeIs
    <3>2. Scrolled(cells)[i] = m[i]
      BY <1>3, <2>1, <2>2, SizeIs
    <3>3. QED BY <2>2, <3>1, <3>2
  <2>3. CASE ~(i < LastRow)
    BY <1>3, <2>1, <2>3, SizeIs
  <2>4. QED BY <2>2, <2>3
<1>5. QED BY <1>3, <1>4

\* The fields of a screen.
LEMMA ScreenIs ==
    ASSUME NEW s \in Screens
    PROVE  /\ s = [cells |-> s.cells, cursor |-> s.cursor, end |-> s.end]
           /\ s.cells \in [Cells -> Contents] /\ s.cursor \in Places /\ s.end \in Places
           /\ CursorOf(s) \in Cells /\ EndOf(s) \in Cells /\ CursorOf(s) \in Int /\ EndOf(s) \in Int
           /\ 0 <= CursorOf(s) /\ CursorOf(s) < Size /\ 0 <= EndOf(s) /\ EndOf(s) < Size
<1>1. /\ s = [cells |-> s.cells, cursor |-> s.cursor, end |-> s.end]
      /\ s.cells \in [Cells -> Contents] /\ s.cursor \in Places /\ s.end \in Places
  BY DEF Screens
<1>2. CursorOf(s) \in Cells /\ EndOf(s) \in Cells
  BY <1>1, AddressIs DEF CursorOf, EndOf
<1>3. QED BY <1>1, <1>2, SizeIs

\* The cursor is not behind the end of the text, and nothing else is.
Tidy(s) == s \in Screens /\ CursorOf(s) <= EndOf(s) /\ \A i \in Cells : i >= EndOf(s) => s.cells[i] = Blank

\* The screen has moved up by gone cells, none or a row, as far as n.
MovedUp(s, t, gone, n) ==
    /\ gone \in {0, Width} /\ gone <= n
    /\ \A i \in Cells : i < n - gone => i + gone \in Cells /\ t.cells[i] = s.cells[i + gone]

\* If the text ends in the last cell everything moves up a row (csAddChar).
LEMMA RoomIs ==
    ASSUME NEW s, Tidy(s), ~Refuses(s)
    PROVE  \E gone \in {0, Width} :
             /\ Tidy(Room(s)) /\ EndOf(Room(s)) < Size - 1
             /\ gone <= CursorOf(s) /\ (gone # 0 => EndOf(s) = Size - 1)
             /\ CursorOf(Room(s)) = CursorOf(s) - gone /\ EndOf(Room(s)) = EndOf(s) - gone
             /\ MovedUp(s, Room(s), gone, Size)
<1> DEFINE r == Room(s)
<1>1. /\ s = [cells |-> s.cells, cursor |-> s.cursor, end |-> s.end]
      /\ s.cells \in [Cells -> Contents] /\ s.cursor \in Places /\ s.end \in Places /\ s \in Screens
      /\ CursorOf(s) \in Int /\ EndOf(s) \in Int /\ 0 <= CursorOf(s) /\ EndOf(s) < Size
      /\ CursorOf(s) <= EndOf(s) /\ \A i \in Cells : i >= EndOf(s) => s.cells[i] = Blank
  BY ScreenIs DEF Tidy
<1>2. CASE s.end # LastCell
  <2>1. r = s
    BY <1>2 DEF Room
  <2>2. EndOf(s) < Size - 1
    <3>1. EndOf(s) # Size - 1
      BY <1>1, <1>2, LastIs DEF EndOf
    <3>2. QED BY <1>1, <3>1, SizeIs, SMTT(20)
  <2>3. MovedUp(s, r, 0, Size)
    <3>1. \A i \in Cells : i + 0 = i
      BY SizeIs
    <3>2. 0 <= Size
      BY SizeIs
    <3>3. QED BY <2>1, <3>1, <3>2 DEF MovedUp
  <2>4. 0 <= CursorOf(s) /\ CursorOf(s) = CursorOf(s) - 0 /\ EndOf(s) = EndOf(s) - 0 /\ 0 \in {0, Width}
    BY <1>1
  <2>5. QED BY <2>1, <2>2, <2>3, <2>4
<1>3. CASE s.end = LastCell
  <2>1. s.cursor.row # 0
    BY <1>3 DEF Refuses
  <2>2. r = [cells |-> Scrolled(s.cells), cursor |-> Above(s.cursor), end |-> Above(s.end)]
    BY <1>3 DEF Room
  <2>3. EndOf(s) = Size - 1 /\ s.end.row # 0
    <3>1. LastCell.row # 0
      BY SizeIs DEF LastCell
    <3>2. QED BY <1>3, <3>1, LastIs DEF EndOf
  <2>4. /\ r.cursor \in Places /\ CursorOf(r) = CursorOf(s) - Width
        /\ r.end \in Places /\ EndOf(r) = EndOf(s) - Width
    BY <1>1, <2>1, <2>2, <2>3, AboveIs DEF CursorOf, EndOf
  <2>5. Width <= CursorOf(s)
    <3>1. s.cursor.row > 0
      BY <1>1, <2>1, SizeIs DEF Places
    <3>2. Width <= s.cursor.row * Width /\ CursorOf(s) = s.cursor.row * Width + s.cursor.col
          /\ s.cursor.row * Width \in Int
      BY <1>1, <3>1, AddressIs DEF CursorOf
    <3>3. s.cursor.col \in Int /\ 0 <= s.cursor.col
      BY <1>1, SizeIs DEF Places
    <3>4. QED BY <3>2, <3>3, SizeIs
  <2>6. /\ r.cells \in [Cells -> Contents]
        /\ \A i \in Cells : r.cells[i] = IF i < LastRow THEN s.cells[i + Width] ELSE Blank
    BY <1>1, <2>2, ScrolledIs
  <2>7. r \in Screens
    BY <2>2, <2>4, <2>6 DEF Screens
  <2>8. ASSUME NEW i \in Cells, i >= EndOf(r) PROVE r.cells[i] = Blank
    <3>1. CASE i < LastRow
      <4>1. i + Width = Size - 1 /\ i + Width \in Cells /\ i + Width >= EndOf(s)
        BY <2>3, <2>4, <2>8, <3>1, SizeIs
      <4>2. QED BY <1>1, <2>6, <3>1, <4>1
    <3>2. CASE ~(i < LastRow)
      BY <2>6, <3>2
    <3>3. QED BY <3>1, <3>2
  <2>9. MovedUp(s, r, Width, Size)
    <3>1. \A i \in Cells : i < Size - Width => i + Width \in Cells /\ i < LastRow
      BY SizeIs
    <3>2. Width <= Size
      BY SizeIs
    <3>3. QED BY <2>6, <3>1, <3>2 DEF MovedUp
  <2>10. CursorOf(r) <= EndOf(r) /\ EndOf(r) < Size - 1
    BY <1>1, <2>3, <2>4, SizeIs
  <2>11. QED BY <2>3, <2>4, <2>5, <2>7, <2>8, <2>9, <2>10 DEF Tidy
<1>4. QED BY <1>2, <1>3

\* A character is put in at the cursor, the rest of the text moves on, and perhaps
\* everything up (csAddChar).
LEMMA AddCharIs ==
    ASSUME NEW s, Tidy(s), ~Refuses(s), NEW c \in Chars
    PROVE  \E gone \in {0, Width} :
             LET t == AddChar(s, c)
                 k == CursorOf(s) - gone
             IN  /\ Tidy(t) /\ gone <= CursorOf(s) /\ (gone # 0 => EndOf(s) = Size - 1)
                 /\ CursorOf(t) = k + 1 /\ EndOf(t) = EndOf(s) - gone + 1
                 /\ MovedUp(s, t, gone, CursorOf(s))
                 /\ t.cells[k] = c
                 /\ \A i \in Cells : k < i /\ i <= EndOf(s) - gone
                      => i - 1 + gone \in Cells /\ t.cells[i] = s.cells[i - 1 + gone]
<1> DEFINE r == Room(s)
           t == AddChar(s, c)
           k == CursorOf(r)
           e == EndOf(r)
           m == Moved(r.cells, k + 1, k, e - k)
<1>1. PICK gone \in {0, Width} :
             /\ Tidy(r) /\ e < Size - 1
             /\ gone <= CursorOf(s) /\ (gone # 0 => EndOf(s) = Size - 1)
             /\ k = CursorOf(s) - gone /\ e = EndOf(s) - gone
             /\ MovedUp(s, r, gone, Size)
  BY RoomIs
<1>2. t = [cells |-> [m EXCEPT ![k] = c], cursor |-> Onwards(r.cursor), end |-> Onwards(r.end)]
  BY DEF AddChar
<1>3. /\ r \in Screens /\ r.cells \in [Cells -> Contents] /\ r.cursor \in Places /\ r.end \in Places
      /\ k \in Int /\ e \in Int /\ 0 <= k /\ k <= e /\ k \in Cells
      /\ \A i \in Cells : i >= e => r.cells[i] = Blank
  BY <1>1, ScreenIs DEF Tidy
<1>4. s \in Screens /\ CursorOf(s) \in Int /\ EndOf(s) \in Int /\ gone \in Int /\ 0 <= gone
  BY ScreenIs, SizeIs DEF Tidy
<1>5. /\ Onwards(r.cursor) \in Places /\ Address(Onwards(r.cursor)) = k + 1
      /\ Onwards(r.end) \in Places /\ Address(Onwards(r.end)) = e + 1
  BY <1>1, <1>3, OnwardsIs, SizeIs DEF CursorOf, EndOf
<1>6. t.cursor = Onwards(r.cursor) /\ t.end = Onwards(r.end) /\ t.cells = [m EXCEPT ![k] = c]
  BY <1>2
<1>7. CursorOf(t) = k + 1 /\ EndOf(t) = e + 1
  BY <1>5, <1>6 DEF CursorOf, EndOf
<1> HIDE DEF k, e
<1>8. 0 <= k + 1 /\ 0 <= k /\ k + (e - k) <= Size /\ k + 1 \in Int /\ e - k \in Int
  BY <1>1, <1>3, SizeIs
<1>9. /\ m \in [Cells -> Contents]
      /\ \A i \in Cells : m[i] = IF k + 1 <= i /\ i < k + 1 + (e - k) THEN r.cells[i - (k + 1) + k] ELSE r.cells[i]
  BY <1>3, <1>8, MovedIs
<1> HIDE DEF m
<1>10. t.cells \in [Cells -> Contents] /\ t.cells[k] = c
       /\ \A i \in Cells : i # k => t.cells[i] = m[i]
  BY <1>3, <1>6, <1>9 DEF Contents
<1>11. t \in Screens
  BY <1>2, <1>5, <1>6, <1>10 DEF Screens
<1> HIDE DEF t
<1>12. ASSUME NEW i \in Cells, i < k PROVE t.cells[i] = r.cells[i]
  <2>1. i # k /\ ~(k + 1 <= i)
    BY <1>3, <1>12, SizeIs
  <2>2. QED BY <1>9, <1>10, <2>1
<1>13. ASSUME NEW i \in Cells, k < i, i <= e PROVE i - 1 \in Cells /\ t.cells[i] = r.cells[i - 1]
  <2>1. i # k /\ k + 1 <= i /\ i < k + 1 + (e - k) /\ i - (k + 1) + k = i - 1 /\ i - 1 \in Cells
    BY <1>3, <1>13, SizeIs
  <2>2. t.cells[i] = m[i] /\ m[i] = r.cells[i - (k + 1) + k]
    BY <1>9, <1>10, <2>1
  <2>3. QED BY <2>1, <2>2
<1>14. ASSUME NEW i \in Cells, i >= e + 1 PROVE t.cells[i] = Blank
  <2>1. i # k /\ ~(i < k + 1 + (e - k)) /\ i >= e
    BY <1>3, <1>14, SizeIs
  <2>2. QED BY <1>3, <1>9, <1>10, <2>1
<1>15. Tidy(t)
  <2>1. CursorOf(t) <= EndOf(t)
    BY <1>3, <1>7
  <2>2. QED BY <1>7, <1>11, <1>14, <2>1 DEF Tidy
<1>16. gone <= CursorOf(s) /\ k = CursorOf(s) - gone /\ e = EndOf(s) - gone /\ (gone # 0 => EndOf(s) = Size - 1)
       /\ \A i \in Cells : i < Size - gone => i + gone \in Cells /\ r.cells[i] = s.cells[i + gone]
  BY <1>1 DEF MovedUp
<1>17. MovedUp(s, t, gone, CursorOf(s))
  <2>1. ASSUME NEW i \in Cells, i < CursorOf(s) - gone
        PROVE  i + gone \in Cells /\ t.cells[i] = s.cells[i + gone]
    <3>1. i < k /\ i < Size - gone
      BY <1>3, <1>4, <1>16, <2>1, SizeIs, ScreenIs, SMTT(20)
    <3>2. QED BY <1>12, <1>16, <3>1
  <2>2. QED BY <1>16, <2>1 DEF MovedUp
<1>18. ASSUME NEW i \in Cells, k < i, i <= EndOf(s) - gone
       PROVE  i - 1 + gone \in Cells /\ t.cells[i] = s.cells[i - 1 + gone]
  <2>1. i - 1 \in Cells /\ t.cells[i] = r.cells[i - 1]
    BY <1>13, <1>16, <1>18
  <2>2. i - 1 < Size - gone
    BY <1>4, <1>18, SizeIs, ScreenIs
  <2>3. QED BY <1>16, <2>1, <2>2
<1>19. EndOf(t) = EndOf(s) - gone + 1 /\ CursorOf(t) = CursorOf(s) - gone + 1
       /\ t.cells[CursorOf(s) - gone] = c
  BY <1>7, <1>10, <1>16
<1>20. \A i \in Cells : CursorOf(s) - gone < i /\ i <= EndOf(s) - gone
                      => i - 1 + gone \in Cells /\ t.cells[i] = s.cells[i - 1 + gone]
  BY <1>16, <1>18
<1>21. QED BY <1>15, <1>16, <1>17, <1>19, <1>20 DEF t

\* A row ends behind its last character (csFindRightNotNullCol).
LEMMA RightEndIs ==
    ASSUME NEW cells, NEW row, cells[row * Width + Width - 1] = Blank,
           cells[row * Width + (Width - 1) - 1] # Blank
    PROVE  RightEnd(cells, row) = Width - 1
<1> DEFINE full == {c \in 1 .. Width : cells[row * Width + c - 1] # Blank}
           all == {0} \cup full
<1>1. Width - 1 \in full
  BY SizeIs
<1>2. Width \notin full
  OBVIOUS
<1>3. \A c \in full : c \in Int /\ c <= Width
  BY SizeIs
<1> HIDE DEF full
<1>4. \A c \in all : c <= Width - 1 /\ c \in Int
  BY <1>2, <1>3, SizeIs
<1>5. RightEnd(cells, row) = Max(all)
  BY DEF RightEnd, full
<1>6. Width - 1 \in all
  BY <1>1
<1> HIDE DEF all
<1> DEFINE x == CHOOSE x \in all : \A y \in all : x >= y
<1>7. x \in all /\ \A y \in all : x >= y
  <2>1. \E v \in all : \A y \in all : v >= y
    BY <1>4, <1>6, SizeIs
  <2>2. QED BY <2>1
<1>8. Max(all) = x
  BY DEF Max
<1> HIDE DEF x
<1>9. QED BY <1>4, <1>5, <1>6, <1>7, <1>8, SizeIs

\* The end of the text moves to the place before, also to the row above when its row
\* has become empty (ckTerminalDelete_unsafe).
LEMMA EndAfterIs ==
    ASSUME NEW cells, NEW p \in Places, Address(p) > 0,
           p.col = 0 => cells[Address(p) - 1] = Blank /\ cells[Address(p) - 2] # Blank
    PROVE  EndAfter(cells, p) \in Places /\ Address(EndAfter(cells, p)) = Address(p) - 1
<1> DEFINE q == EndAfter(cells, p)
<1>1. /\ p.row \in Int /\ 0 <= p.row /\ p.row <= Height - 1 /\ p.col \in Int /\ 0 <= p.col /\ p.col < Width
      /\ p.row * Width \in Int /\ Address(p) = p.row * Width + p.col
      /\ p = [row |-> p.row, col |-> p.col]
      /\ p.row = 0 => p.row * Width = 0
  BY AddressIs, SizeIs DEF Places
<1>2. CASE p.col # 0
  <2>1. q = [row |-> p.row, col |-> p.col - 1]
    BY <1>1, <1>2 DEF EndAfter
  <2>2. q \in Places
    BY <1>1, <1>2, <2>1, SizeIs DEF Places
  <2>3. Address(q) = p.row * Width + (p.col - 1)
    BY <2>1 DEF Address
  <2>4. QED BY <1>1, <2>2, <2>3
<1>3. CASE p.col = 0
  <2> DEFINE b == (p.row - 1) * Width
  <2>1. b \in Int /\ b = p.row * Width - Width
    BY <1>1, SizeIs, SMTT(20)
  <2>2. b + Width - 1 = Address(p) - 1 /\ b + (Width - 1) - 1 = Address(p) - 2
    <3> HIDE DEF b
    <3>1. QED BY <1>1, <1>3, <2>1, SizeIs, SMTT(20)
  <2>3. RightEnd(cells, p.row - 1) = Width - 1
    <3>1. cells[b + Width - 1] = Blank /\ cells[b + (Width - 1) - 1] # Blank
      <4> HIDE DEF b
      <4>1. QED BY <1>3, <2>2
    <3>2. QED BY <3>1, RightEndIs
  <2>4. q = [row |-> p.row - 1, col |-> Width - 1]
    BY <1>3, <2>3 DEF EndAfter
  <2>5. p.row > 0
    BY <1>1, <1>3
  <2>6. q \in Places
    BY <1>1, <2>4, <2>5, SizeIs DEF Places
  <2>7. Address(q) = b + (Width - 1)
    BY <2>4 DEF Address
  <2> HIDE DEF b
  <2>8. QED BY <1>1, <1>3, <2>1, <2>6, <2>7, SizeIs
<1>4. QED BY <1>2, <1>3

\* The character at the cursor goes, and the rest of the text moves back
\* (ckTerminalDelete_unsafe).
LEMMA DeleteIs ==
    ASSUME NEW s, Tidy(s), CursorOf(s) < EndOf(s), Solid(s, CursorOf(s))
    PROVE  LET t == Delete(s)
           IN  /\ Tidy(t) /\ CursorOf(t) = CursorOf(s) /\ EndOf(t) = EndOf(s) - 1
               /\ \A i \in Cells : i < CursorOf(s) => t.cells[i] = s.cells[i]
               /\ \A i \in Cells : CursorOf(s) <= i /\ i < EndOf(s) - 1
                    => i + 1 \in Cells /\ t.cells[i] = s.cells[i + 1]
<1> DEFINE t == Delete(s)
           k == CursorOf(s)
           e == EndOf(s)
           m == Moved(s.cells, k, k + 1, e - k)
           cells == [m EXCEPT ![e] = Blank]
<1>1. /\ s = [cells |-> s.cells, cursor |-> s.cursor, end |-> s.end]
      /\ s.cells \in [Cells -> Contents] /\ s.cursor \in Places /\ s.end \in Places
      /\ k \in Int /\ e \in Int /\ 0 <= k /\ e < Size /\ k < e /\ e \in Cells
      /\ \A i \in Cells : i >= e => s.cells[i] = Blank
  BY ScreenIs DEF Tidy
<1>2. t = [cells |-> cells, cursor |-> s.cursor, end |-> EndAfter(cells, s.end)]
  <2>1. CursorOf(s) # EndOf(s)
    BY <1>1
  <2>2. t = [s EXCEPT !.cells = cells, !.end = EndAfter(cells, @)]
    BY <2>1 DEF Delete
  <2> HIDE DEF cells, t
  <2>3. QED BY <1>1, <2>2
<1>3. PICK r \in 0 .. Height - 1 :
        r * Width <= k /\ \A i \in Cells : r * Width <= i /\ i < e => s.cells[i] # Blank
  BY DEF Solid
<1> HIDE DEF k, e
<1>4. /\ m \in [Cells -> Contents]
      /\ \A i \in Cells : m[i] = IF k <= i /\ i < k + (e - k) THEN s.cells[i - k + (k + 1)] ELSE s.cells[i]
  <2>1. 0 <= k /\ 0 <= k + 1 /\ k + 1 + (e - k) <= Size /\ k + 1 \in Int /\ e - k \in Int
    BY <1>1, SizeIs
  <2>2. QED BY <1>1, <2>1, MovedIs
<1> HIDE DEF m
<1>5. cells \in [Cells -> Contents] /\ cells[e] = Blank /\ \A i \in Cells : i # e => cells[i] = m[i]
  BY <1>1, <1>4 DEF Contents
<1> HIDE DEF cells
<1>6. ASSUME NEW i \in Cells, i < k PROVE cells[i] = s.cells[i]
  <2>1. i # e /\ ~(k <= i)
    BY <1>1, <1>6, SizeIs
  <2>2. QED BY <1>4, <1>5, <2>1
<1>7. ASSUME NEW i \in Cells, k <= i, i < e PROVE i + 1 \in Cells /\ cells[i] = s.cells[i + 1]
  <2>1. i # e /\ k <= i /\ i < k + (e - k) /\ i - k + (k + 1) = i + 1 /\ i + 1 \in Cells
    BY <1>1, <1>7, SizeIs, SMTT(20)
  <2>2. cells[i] = m[i] /\ m[i] = s.cells[i - k + (k + 1)]
    BY <1>4, <1>5, <2>1
  <2>3. QED BY <2>1, <2>2
<1>8. ASSUME NEW i \in Cells, i >= e - 1 PROVE cells[i] = Blank
  <2>1. CASE i = e
    BY <1>5, <2>1
  <2>2. CASE i = e - 1
    <3>1. k <= i /\ i < e /\ i + 1 = e
      BY <1>1, <2>2
    <3>2. cells[i] = s.cells[i + 1] /\ s.cells[e] = Blank
      BY <1>1, <1>7, <3>1
    <3>3. QED BY <3>1, <3>2
  <2>3. CASE i > e
    <3>1. i # e /\ ~(i < k + (e - k)) /\ i >= e
      BY <1>1, <2>3, SizeIs
    <3>2. QED BY <1>1, <1>4, <1>5, <3>1
  <2>4. QED BY <1>1, <1>8, <2>1, <2>2, <2>3, SizeIs
<1>9. s.end.col = 0 => cells[e - 1] = Blank /\ cells[e - 2] # Blank
  <2>1. SUFFICES ASSUME s.end.col = 0 PROVE cells[e - 1] = Blank /\ cells[e - 2] # Blank
    OBVIOUS
  <2>2. e - 1 \in Cells /\ e - 1 >= e - 1
    BY <1>1, SizeIs
  <2>3. r * Width \in Int /\ r * Width <= e - Width
    <3> DEFINE b == s.end.row * Width
    <3>1. r \in Nat /\ s.end.row \in Nat /\ s.end.row <= Height - 1
      BY <1>1, SizeIs, SMTT(20) DEF Places
    <3>2. b \in Int /\ e = b
      <4>1. e = b + s.end.col /\ b \in Int
        BY <1>1, AddressIs DEF e, EndOf
      <4>2. QED BY <2>1, <4>1
    <3>3. r < s.end.row => r * Width + Width <= b
      BY <3>1, RowsApart
    <3>4. s.end.row < r => b + Width <= r * Width
      BY <3>1, RowsApart
    <3>5. s.end.row = r => b = r * Width
      OBVIOUS
    <3> DEFINE f == r * Width
    <3>6. f \in Int /\ f <= k
      BY <1>3, <3>1, SizeIs
    <3>7. /\ r < s.end.row => f + Width <= b
          /\ s.end.row < r => b + Width <= f
          /\ s.end.row = r => b = f
      BY <3>3, <3>4, <3>5
    <3> HIDE DEF b, f
    <3>8. f <= e - Width
      BY <1>1, <3>1, <3>2, <3>6, <3>7, SizeIs, SMTT(20)
    <3>9. QED BY <3>6, <3>8 DEF f
  <2>4. e - 2 \in Cells /\ r * Width <= e - 2 /\ 0 <= r * Width
    <3>1. 0 <= r * Width
      BY SizeIs, RowsApart
    <3> DEFINE f == r * Width
    <3>2. 0 <= f /\ f \in Int /\ f <= e - Width
      BY <2>3, <3>1
    <3> HIDE DEF f
    <3>3. e - 2 \in Cells /\ f <= e - 2
      BY <1>1, <3>2, SizeIs
    <3>4. QED BY <3>1, <3>3 DEF f
  <2>5. CASE e - 2 < k
    <3>1. cells[e - 2] = s.cells[e - 2] /\ e - 2 < e
      BY <1>1, <1>6, <2>4, <2>5
    <3>2. QED BY <1>3, <1>8, <2>2, <2>4, <3>1
  <2>6. CASE ~(e - 2 < k)
    <3>1. k <= e - 2 /\ e - 2 < e /\ e - 2 + 1 = e - 1 /\ e - 1 < e
      BY <1>1, <2>6
    <3>2. cells[e - 2] = s.cells[e - 1]
      <4>1. cells[e - 2] = s.cells[e - 2 + 1]
        BY <1>7, <2>4, <3>1
      <4>2. QED BY <3>1, <4>1
    <3>3. r * Width <= e - 1
      <4> DEFINE f == r * Width
      <4>1. f \in Int /\ f <= e - 2
        BY <2>3, <2>4
      <4> HIDE DEF f
      <4>2. f <= e - 1
        BY <1>1, <4>1
      <4>3. QED BY <4>2 DEF f
    <3>4. QED BY <1>3, <1>8, <2>2, <3>1, <3>2, <3>3
  <2>7. QED BY <2>5, <2>6
<1>10. EndAfter(cells, s.end) \in Places /\ Address(EndAfter(cells, s.end)) = e - 1
  <2>1. Address(s.end) = e
    BY DEF e, EndOf
  <2>2. e > 0
    BY <1>1
  <2>3. QED BY <1>1, <1>9, <2>1, <2>2, EndAfterIs
<1>11. t.cells = cells /\ t.cursor = s.cursor /\ t.end = EndAfter(cells, s.end) /\ t \in Screens
  BY <1>1, <1>2, <1>5, <1>10 DEF Screens
<1> HIDE DEF t
<1>12. CursorOf(t) = k /\ EndOf(t) = e - 1
  BY <1>10, <1>11 DEF CursorOf, EndOf, k
<1>13. Tidy(t)
  <2>1. CursorOf(t) <= EndOf(t)
    BY <1>1, <1>12
  <2>2. QED BY <1>8, <1>11, <1>12, <2>1 DEF Tidy
<1>14. \A i \in Cells : k <= i /\ i < e - 1 => i + 1 \in Cells /\ t.cells[i] = s.cells[i + 1]
  <2>1. \A i \in Cells : i < e - 1 => i < e
    BY <1>1, SizeIs
  <2>2. QED BY <1>7, <1>11, <2>1
<1>15. QED BY <1>6, <1>11, <1>12, <1>13, <1>14 DEF t, k, e

\* The next row, at the bottom of a screen that moves up if there is none below
\* (csNewLine).
LEMMA NewLineIs ==
    ASSUME NEW s, Tidy(s)
    PROVE  LET t == NewLine(s)
           IN  /\ Tidy(t) /\ CursorOf(t) = EndOf(t)
               /\ \E r \in 0 .. Height - 1 : EndOf(t) = r * Width
<1> DEFINE t == NewLine(s)
           full == s.end.row + 1 = Height
           row == IF full THEN s.end.row ELSE s.end.row + 1
           next == [row |-> row, col |-> 0]
           cells == IF full THEN Scrolled(s.cells) ELSE s.cells
<1>1. /\ s.cells \in [Cells -> Contents] /\ s.cursor \in Places /\ s.end \in Places
      /\ EndOf(s) \in Int /\ \A i \in Cells : i >= EndOf(s) => s.cells[i] = Blank
  BY ScreenIs DEF Tidy
<1>2. t = [cells |-> cells, cursor |-> next, end |-> next]
  BY DEF NewLine
<1>3. row \in 0 .. Height - 1
  <2>1. s.end.row \in 0 .. Height - 1
    BY <1>1 DEF Places
  <2>2. QED BY <2>1, SizeIs
<1>4. next \in Places
  BY <1>3, SizeIs DEF Places
<1>5. cells \in [Cells -> Contents]
  BY <1>1, ScrolledIs
<1>6. t \in Screens /\ t.cells = cells /\ t.cursor = next /\ t.end = next
  BY <1>2, <1>4, <1>5 DEF Screens
<1>7. EndOf(t) = row * Width /\ CursorOf(t) = EndOf(t) /\ row * Width \in Int
  <2>1. Address(next) = next.row * Width + next.col /\ next.row * Width \in Int
    BY <1>4, AddressIs
  <2>2. next.row = row /\ next.col = 0
    OBVIOUS
  <2> HIDE DEF next, row
  <2>3. QED BY <1>6, <2>1, <2>2 DEF EndOf, CursorOf
<1>8. ASSUME NEW i \in Cells, i >= EndOf(t) PROVE t.cells[i] = Blank
  <2>1. CASE full
    <3>1. row * Width = LastRow
      BY <1>1, <2>1, SizeIs, SMTT(20) DEF LastRow, Places
    <3>2. ~(i < LastRow)
      BY <1>7, <1>8, <3>1, SizeIs
    <3>3. t.cells[i] = Scrolled(s.cells)[i]
      BY <1>6, <2>1
    <3>4. QED BY <1>1, <3>2, <3>3, ScrolledIs
  <2>2. CASE ~full
    <3>1. EndOf(s) < row * Width
      <4>1. s.end.row < next.row
        BY <1>1, <2>2, SizeIs DEF Places
      <4>2. Address(s.end) < next.row * Width
        BY <1>1, <1>4, <4>1, AddressOrder
      <4>3. QED BY <4>2 DEF EndOf
    <3>2. i >= EndOf(s)
      <4> DEFINE b == row * Width
      <4>1. EndOf(s) < b /\ i >= b /\ b \in Int
        BY <1>7, <1>8, <3>1
      <4> HIDE DEF b
      <4>2. QED BY <1>1, <4>1, SizeIs
    <3>3. t.cells[i] = s.cells[i]
      BY <1>6, <2>2
    <3>4. QED BY <1>1, <3>2, <3>3
  <2>3. QED BY <2>1, <2>2
<1>9. CursorOf(t) <= EndOf(t)
  BY <1>6, <1>7, ScreenIs
<1>10. QED BY <1>3, <1>6, <1>7, <1>8, <1>9 DEF Tidy

-----------------------------------------------------------------------------
(* What they do to the line. *)

\* A character put into a line.
LEMMA InsertAtIs ==
    ASSUME NEW s \in Seq(Chars), NEW n \in 0 .. Len(s), NEW x \in Chars
    PROVE  LET r == InsertAt(s, n + 1, x)
           IN  /\ r \in Seq(Chars) /\ Len(r) = Len(s) + 1
               /\ \A i \in 1 .. Len(s) + 1 : r[i] = IF i <= n THEN s[i] ELSE IF i = n + 1 THEN x ELSE s[i - 1]
<1> DEFINE a == SubSeq(s, 1, n)
           b == SubSeq(s, n + 1, Len(s))
           c == a \o <<x>>
           r == c \o b
<1>1. Len(s) \in Nat /\ n \in Nat /\ n <= Len(s) /\ \A i \in 1 .. Len(s) : s[i] \in Chars
  OBVIOUS
<1>2. /\ a \in Seq(Chars) /\ Len(a) = n
      /\ \A i \in 1 .. n : a[i] = s[i]
  <2>1. \A i \in 1 .. n : s[i] \in Chars
    BY <1>1
  <2>2. /\ SubSeq(s, 1, n) \in Seq(Chars)
        /\ Len(SubSeq(s, 1, n)) = IF 1 <= n THEN n - 1 + 1 ELSE 0
        /\ \A i \in 1 .. n - 1 + 1 : SubSeq(s, 1, n)[i] = s[1 + i - 1]
    BY <2>1, SubSeqProperties
  <2> HIDE DEF a
  <2>3. QED BY <1>1, <2>2 DEF a
<1>3. /\ b \in Seq(Chars) /\ Len(b) = Len(s) - n
      /\ \A i \in 1 .. Len(s) - n : b[i] = s[n + i]
  <2>1. \A i \in n + 1 .. Len(s) : s[i] \in Chars
    BY <1>1
  <2>2. n + 1 \in Int /\ Len(s) \in Int
    BY <1>1
  <2>3. /\ SubSeq(s, n + 1, Len(s)) \in Seq(Chars)
        /\ Len(SubSeq(s, n + 1, Len(s))) = IF n + 1 <= Len(s) THEN Len(s) - (n + 1) + 1 ELSE 0
        /\ \A i \in 1 .. Len(s) - (n + 1) + 1 : SubSeq(s, n + 1, Len(s))[i] = s[n + 1 + i - 1]
    BY <2>1, <2>2, SubSeqProperties
  <2>4. \A i \in 1 .. Len(s) - n : n + 1 + i - 1 = n + i
    BY <1>1
  <2> HIDE DEF b
  <2>5. QED BY <1>1, <2>3, <2>4 DEF b
<1>4. <<x>> \in Seq(Chars) /\ Len(<<x>>) = 1 /\ <<x>>[1] = x
  OBVIOUS
<1> HIDE DEF a, b
<1>5. /\ c \in Seq(Chars) /\ Len(c) = Len(a) + Len(<<x>>)
      /\ \A i \in 1 .. Len(a) + Len(<<x>>) : c[i] = IF i <= Len(a) THEN a[i] ELSE <<x>>[i - Len(a)]
  BY <1>2, <1>4, ConcatProperties
<1> HIDE DEF c
<1>6. Len(c) = n + 1 /\ \A i \in 1 .. n + 1 : c[i] = IF i <= n THEN s[i] ELSE x
  <2>1. Len(c) = n + 1
    BY <1>1, <1>2, <1>4, <1>5
  <2>2. ASSUME NEW i \in 1 .. n + 1 PROVE c[i] = IF i <= n THEN s[i] ELSE x
    <3>1. c[i] = IF i <= n THEN a[i] ELSE <<x>>[i - n]
      BY <1>1, <1>2, <1>4, <1>5
    <3>2. CASE i <= n
      BY <1>1, <1>2, <3>1, <3>2
    <3>3. CASE i = n + 1
      BY <1>1, <1>4, <3>1, <3>3
    <3>4. QED BY <1>1, <3>2, <3>3
  <2>3. QED BY <2>1, <2>2
<1>7. /\ r \in Seq(Chars) /\ Len(r) = Len(c) + Len(b)
      /\ \A i \in 1 .. Len(c) + Len(b) : r[i] = IF i <= Len(c) THEN c[i] ELSE b[i - Len(c)]
  <2>1. c \in Seq(Chars) /\ b \in Seq(Chars)
    BY <1>3, <1>5
  <2>2. QED BY <2>1, ConcatProperties
<1> HIDE DEF r
<1>8. Len(r) = Len(s) + 1
  BY <1>1, <1>3, <1>6, <1>7
<1>9. ASSUME NEW i \in 1 .. Len(s) + 1
      PROVE  r[i] = IF i <= n THEN s[i] ELSE IF i = n + 1 THEN x ELSE s[i - 1]
  <2>1. r[i] = IF i <= n + 1 THEN c[i] ELSE b[i - (n + 1)]
    BY <1>1, <1>3, <1>6, <1>7
  <2>2. CASE i <= n + 1
    BY <1>1, <1>6, <2>1, <2>2
  <2>3. CASE i > n + 1
    <3>1. i - (n + 1) \in 1 .. Len(s) - n /\ n + (i - (n + 1)) = i - 1 /\ ~(i <= n) /\ i # n + 1 /\ ~(i <= n + 1)
      BY <1>1, <2>3
    <3>2. b[i - (n + 1)] = s[i - 1]
      BY <1>3, <3>1
    <3>3. QED BY <2>1, <3>1, <3>2
  <2>4. QED BY <1>1, <2>2, <2>3
<1> DEFINE k == n + 1
<1>10. InsertAt(s, k, x) = r
  <2>1. k - 1 = n
    BY <1>1
  <2> HIDE DEF k
  <2>2. InsertAt(s, k, x) = SubSeq(s, 1, k - 1) \o <<x>> \o SubSeq(s, k, Len(s))
    BY DEF InsertAt
  <2>3. SubSeq(s, 1, k - 1) \o <<x>> \o SubSeq(s, k, Len(s)) = r
    <3>1. k = n + 1
      BY DEF k
    <3>2. QED BY <2>1, <3>1 DEF r, c, a, b
  <2>4. QED BY <2>2, <2>3
<1>11. QED BY <1>7, <1>8, <1>9, <1>10

\* A character taken out of a line.
LEMMA RemoveAtIs ==
    ASSUME NEW s \in Seq(Chars), NEW n \in 0 .. Len(s) - 1
    PROVE  LET r == RemoveAt(s, n + 1)
           IN  /\ r \in Seq(Chars) /\ Len(r) = Len(s) - 1
               /\ \A i \in 1 .. Len(s) - 1 : r[i] = IF i <= n THEN s[i] ELSE s[i + 1]
<1> DEFINE a == SubSeq(s, 1, n)
           b == SubSeq(s, n + 2, Len(s))
           r == a \o b
<1>1. Len(s) \in Nat /\ n \in Nat /\ n < Len(s) /\ \A i \in 1 .. Len(s) : s[i] \in Chars
  OBVIOUS
<1>2. /\ a \in Seq(Chars) /\ Len(a) = n
      /\ \A i \in 1 .. n : a[i] = s[i]
  <2>1. \A i \in 1 .. n : s[i] \in Chars
    BY <1>1
  <2>2. /\ SubSeq(s, 1, n) \in Seq(Chars)
        /\ Len(SubSeq(s, 1, n)) = IF 1 <= n THEN n - 1 + 1 ELSE 0
        /\ \A i \in 1 .. n - 1 + 1 : SubSeq(s, 1, n)[i] = s[1 + i - 1]
    BY <2>1, SubSeqProperties
  <2> HIDE DEF a
  <2>3. QED BY <1>1, <2>2 DEF a
<1>3. /\ b \in Seq(Chars) /\ Len(b) = Len(s) - 1 - n
      /\ \A i \in 1 .. Len(s) - 1 - n : b[i] = s[n + 1 + i]
  <2>1. \A i \in n + 2 .. Len(s) : s[i] \in Chars
    BY <1>1
  <2>2. n + 2 \in Int /\ Len(s) \in Int
    BY <1>1
  <2>3. /\ SubSeq(s, n + 2, Len(s)) \in Seq(Chars)
        /\ Len(SubSeq(s, n + 2, Len(s))) = IF n + 2 <= Len(s) THEN Len(s) - (n + 2) + 1 ELSE 0
        /\ \A i \in 1 .. Len(s) - (n + 2) + 1 : SubSeq(s, n + 2, Len(s))[i] = s[n + 2 + i - 1]
    BY <2>1, <2>2, SubSeqProperties
  <2>4. \A i \in 1 .. Len(s) - 1 - n : n + 2 + i - 1 = n + 1 + i
    BY <1>1
  <2> HIDE DEF b
  <2>5. QED BY <1>1, <2>3, <2>4 DEF b
<1> HIDE DEF a, b
<1>4. /\ r \in Seq(Chars) /\ Len(r) = Len(a) + Len(b)
      /\ \A i \in 1 .. Len(a) + Len(b) : r[i] = IF i <= Len(a) THEN a[i] ELSE b[i - Len(a)]
  BY <1>2, <1>3, ConcatProperties
<1> HIDE DEF r
<1>5. Len(r) = Len(s) - 1
  BY <1>1, <1>2, <1>3, <1>4
<1>6. ASSUME NEW i \in 1 .. Len(s) - 1 PROVE r[i] = IF i <= n THEN s[i] ELSE s[i + 1]
  <2>1. r[i] = IF i <= n THEN a[i] ELSE b[i - n]
    BY <1>1, <1>2, <1>3, <1>4
  <2>2. CASE i <= n
    BY <1>1, <1>2, <2>1, <2>2
  <2>3. CASE ~(i <= n)
    <3>1. i - n \in 1 .. Len(s) - 1 - n /\ n + 1 + (i - n) = i + 1
      BY <1>1, <2>3
    <3>2. b[i - n] = s[i + 1]
      BY <1>3, <3>1
    <3>3. QED BY <2>1, <2>3, <3>2
  <2>4. QED BY <2>2, <2>3
<1> DEFINE k == n + 1
<1>7. RemoveAt(s, k) = r
  <2>1. k - 1 = n /\ k + 1 = n + 2
    BY <1>1
  <2> HIDE DEF k
  <2>2. RemoveAt(s, k) = SubSeq(s, 1, k - 1) \o SubSeq(s, k + 1, Len(s))
    BY DEF RemoveAt
  <2>3. QED BY <2>1, <2>2 DEF r, a, b
<1>8. QED BY <1>4, <1>5, <1>6, <1>7

\* What stood before the line, which begins at address a of s and b of t, stays but
\* for rows that move up.
Kept(s, a, t, b) ==
    a - b \in {0, Width} /\ \A i \in 0 .. b - 1 : t.cells[i] = s.cells[i + (a - b)]

\* What is known of a screen and its line, with the line's start.
LEMMA EchoesIs ==
    ASSUME NEW s, NEW l, NEW n, Echoes(s, l, n)
    PROVE  /\ Tidy(s) /\ s \in Screens /\ l \in Seq(Chars) /\ Len(l) \in Nat /\ n \in Nat /\ n <= Len(l)
           /\ Len(l) <= LineSize /\ LineSize \in Nat /\ LineSize + Width <= Size
           /\ Start(s, n) \in Nat /\ CursorOf(s) = Start(s, n) + n /\ EndOf(s) = Start(s, n) + Len(l)
           /\ CursorOf(s) \in Nat /\ EndOf(s) \in Nat /\ EndOf(s) < Size
           /\ \A i \in 1 .. Len(l) : s.cells[Start(s, n) + i - 1] = l[i]
           /\ Solid(s, Start(s, n))
<1>1. /\ s \in Screens /\ l \in Seq(Chars) /\ Len(l) <= LineSize /\ n \in 0 .. Len(l)
      /\ Start(s, n) >= 0 /\ EndOf(s) = Start(s, n) + Len(l)
      /\ \A i \in 1 .. Len(l) : s.cells[Start(s, n) + i - 1] = l[i]
      /\ \A i \in Cells : i >= EndOf(s) => s.cells[i] = Blank
      /\ Solid(s, Start(s, n))
  BY DEF Echoes
<1>2. CursorOf(s) \in Int /\ EndOf(s) \in Int /\ EndOf(s) < Size /\ Len(l) \in Nat /\ n \in Nat /\ n <= Len(l)
      /\ 0 <= CursorOf(s) /\ 0 <= EndOf(s)
  BY <1>1, ScreenIs
<1>3. Start(s, n) = CursorOf(s) - n
  BY DEF Start
<1>4. LineSize \in Nat /\ LineSize + Width <= Size
  BY LineAssumption DEF Size
<1>5. QED BY <1>1, <1>2, <1>3, <1>4 DEF Tidy

\* A screen that is solid from an address is so from a later one.
LEMMA SolidLater ==
    ASSUME NEW s, NEW a \in Int, NEW b \in Int, a <= b, Solid(s, a)
    PROVE  Solid(s, b)
<1>1. PICK r \in 0 .. Height - 1 :
        r * Width <= a /\ \A i \in Cells : r * Width <= i /\ i < EndOf(s) => s.cells[i] # Blank
  BY DEF Solid
<1> DEFINE f == r * Width
<1>2. f \in Int /\ f <= a
  BY <1>1, SizeIs
<1> HIDE DEF f
<1>3. f <= b
  BY <1>2
<1>4. QED BY <1>1, <1>3 DEF Solid, f

\* What moves up a row stays solid from the line's start.
LEMMA SolidAbove ==
    ASSUME NEW s, NEW a \in Int, NEW gone \in {0, Width}, gone <= a, Solid(s, a)
    PROVE  \E r \in 0 .. Height - 1 :
             /\ r * Width <= a - gone
             /\ \A i \in Cells : r * Width <= i /\ i + gone \in Cells /\ i + gone < EndOf(s) => s.cells[i + gone] # Blank
<1>1. PICK r \in 0 .. Height - 1 :
        r * Width <= a /\ \A i \in Cells : r * Width <= i /\ i < EndOf(s) => s.cells[i] # Blank
  BY DEF Solid
<1> DEFINE q == IF gone = 0 THEN r ELSE IF r = 0 THEN 0 ELSE r - 1
<1>2. q \in 0 .. Height - 1
  BY SizeIs
<1>3. q * Width <= a - gone /\ \A i \in Int : q * Width <= i => r * Width <= i + gone
  <2>1. CASE gone = 0
    <3> DEFINE f == r * Width
    <3>1. f \in Int /\ f <= a
      BY <1>1, SizeIs
    <3> HIDE DEF f
    <3>2. f <= a - gone /\ \A i \in Int : f <= i => f <= i + gone
      BY <2>1, <3>1
    <3>3. q = r
      BY <2>1
    <3>4. QED BY <3>2, <3>3 DEF f
  <2>2. CASE gone = Width /\ r = 0
    <3>1. q = 0 /\ r * Width = 0 /\ q * Width = 0
      BY <2>2, SizeIs
    <3>2. \A i \in Int : 0 <= i => 0 <= i + gone
      BY <2>2, SizeIs
    <3>3. QED BY <3>1, <3>2, SizeIs
  <2>3. CASE gone = Width /\ r # 0
    <3> DEFINE f == r * Width
               g == q * Width
    <3>1. f \in Int /\ f <= a
      BY <1>1, SizeIs
    <3>2. q = r - 1
      BY <2>3, SizeIs
    <3>3. g = f - Width
      BY <3>2, SizeIs
    <3> HIDE DEF f, g
    <3>4. g <= a - gone /\ \A i \in Int : g <= i => f <= i + gone
      BY <2>3, <3>1, <3>3, SizeIs
    <3>5. QED BY <3>4 DEF f, g
  <2>4. QED BY <2>1, <2>2, <2>3
<1> HIDE DEF q
<1>4. ASSUME NEW i \in Cells, q * Width <= i, i + gone \in Cells, i + gone < EndOf(s)
      PROVE  s.cells[i + gone] # Blank
  <2>1. i \in Int
    BY SizeIs
  <2>2. r * Width <= i + gone
    BY <1>3, <1>4, <2>1
  <2>3. QED BY <1>1, <1>4, <2>2
<1>5. QED BY <1>2, <1>3, <1>4

\* A character at the end of a solid text leaves it solid, and so does one in it.
LEMMA AddCharSolid ==
    ASSUME NEW s, NEW t, NEW c \in Chars, NEW gone \in {0, Width}, NEW a \in Int,
           Tidy(s), Tidy(t), Solid(s, a), gone <= a, a <= CursorOf(s),
           EndOf(t) = EndOf(s) - gone + 1,
           MovedUp(s, t, gone, CursorOf(s)),
           t.cells[CursorOf(s) - gone] = c,
           \A i \in Cells : CursorOf(s) - gone < i /\ i <= EndOf(s) - gone
              => i - 1 + gone \in Cells /\ t.cells[i] = s.cells[i - 1 + gone]
    PROVE  Solid(t, a - gone)
<1>1. PICK r \in 0 .. Height - 1 :
             /\ r * Width <= a - gone
             /\ \A i \in Cells : r * Width <= i /\ i + gone \in Cells /\ i + gone < EndOf(s) => s.cells[i + gone] # Blank
  BY SolidAbove
<1> DEFINE f == r * Width
<1>2. f \in Int /\ f <= a - gone
  BY <1>1, SizeIs
<1>3. CursorOf(s) \in Int /\ EndOf(s) \in Int /\ CursorOf(s) <= EndOf(s) /\ gone \in Int /\ 0 <= gone
  BY ScreenIs, SizeIs DEF Tidy
<1>4. \A i \in Cells : f <= i /\ i + gone \in Cells /\ i + gone < EndOf(s) => s.cells[i + gone] # Blank
  BY <1>1
<1> HIDE DEF f
<1>5. ASSUME NEW i \in Cells, f <= i, i < EndOf(t) PROVE t.cells[i] # Blank
  <2>1. i \in Int /\ 0 <= i
    BY SizeIs
  <2>2. CASE i < CursorOf(s) - gone
    <3>1. i + gone \in Cells /\ t.cells[i] = s.cells[i + gone]
      BY <2>2 DEF MovedUp
    <3>2. i + gone < EndOf(s)
      BY <1>3, <2>1, <2>2
    <3>3. QED BY <1>4, <1>5, <3>1, <3>2
  <2>3. CASE i = CursorOf(s) - gone
    BY <2>3, CharsAssumption
  <2>4. CASE CursorOf(s) - gone < i
    <3> DEFINE j == i - 1
    <3>1. i <= EndOf(s) - gone
      BY <1>3, <1>5, <2>1
    <3>2. j + gone \in Cells /\ t.cells[i] = s.cells[j + gone]
      BY <2>4, <3>1
    <3>3. f <= j /\ j + gone < EndOf(s) /\ j \in Cells
      <4>1. f <= j /\ j + gone < EndOf(s)
        BY <1>2, <1>3, <2>1, <2>4, <3>1
      <4>2. j \in Cells
        BY <1>3, <2>1, <2>4, SizeIs
      <4>3. QED BY <4>1, <4>2
    <3> HIDE DEF j
    <3>4. QED BY <1>4, <3>2, <3>3
  <2>5. QED BY <1>3, <2>1, <2>2, <2>3, <2>4
<1>6. f <= a - gone
  BY <1>2
<1>7. QED BY <1>5, <1>6 DEF Solid, f

\* A character that is typed stands in the line where it stands on the screen
\* (ckTerminalOnInput, csAddChar).
LEMMA TypeEchoes ==
    ASSUME NEW s, NEW l, NEW n, Echoes(s, l, n), Len(l) < LineSize, ~Refuses(s), NEW c \in Chars
    PROVE  LET t == AddChar(s, c)
           IN  Echoes(t, InsertAt(l, n + 1, c), n + 1) /\ Kept(s, Start(s, n), t, Start(t, n + 1))
<1> DEFINE t == AddChar(s, c)
           a == Start(s, n)
           m == InsertAt(l, n + 1, c)
<1>1. /\ Tidy(s) /\ s \in Screens /\ l \in Seq(Chars) /\ Len(l) \in Nat /\ n \in Nat /\ n <= Len(l)
      /\ Len(l) <= LineSize /\ LineSize \in Nat /\ LineSize + Width <= Size
      /\ a \in Nat /\ CursorOf(s) = a + n /\ EndOf(s) = a + Len(l)
      /\ \A i \in 1 .. Len(l) : s.cells[a + i - 1] = l[i]
      /\ Solid(s, a)
  BY EchoesIs
<1>2. PICK gone \in {0, Width} :
             /\ Tidy(t) /\ gone <= CursorOf(s) /\ (gone # 0 => EndOf(s) = Size - 1)
             /\ CursorOf(t) = CursorOf(s) - gone + 1 /\ EndOf(t) = EndOf(s) - gone + 1
             /\ MovedUp(s, t, gone, CursorOf(s))
             /\ t.cells[CursorOf(s) - gone] = c
             /\ \A i \in Cells : CursorOf(s) - gone < i /\ i <= EndOf(s) - gone
                  => i - 1 + gone \in Cells /\ t.cells[i] = s.cells[i - 1 + gone]
  BY <1>1, AddCharIs
<1>3. /\ m \in Seq(Chars) /\ Len(m) = Len(l) + 1
      /\ \A i \in 1 .. Len(l) + 1 : m[i] = IF i <= n THEN l[i] ELSE IF i = n + 1 THEN c ELSE l[i - 1]
  <2>1. n \in 0 .. Len(l)
    BY <1>1
  <2>2. QED BY <1>1, <2>1, InsertAtIs
<1>4. gone \in Int /\ 0 <= gone /\ gone <= a
  BY <1>1, <1>2, SizeIs
<1>5. Start(t, n + 1) = a - gone
  BY <1>1, <1>2, <1>4 DEF Start
<1>6. Solid(t, a - gone)
  <2>1. a \in Int /\ a <= CursorOf(s)
    BY <1>1
  <2>2. QED BY <1>1, <1>2, <1>4, <2>1, AddCharSolid
<1> HIDE DEF t, a, m
<1>7. t \in Screens /\ (\A i \in Cells : i >= EndOf(t) => t.cells[i] = Blank) /\ EndOf(t) \in Int /\ EndOf(t) < Size
  BY <1>2, ScreenIs DEF Tidy
<1>8. ASSUME NEW i \in 1 .. Len(m) PROVE t.cells[a - gone + i - 1] = m[i]
  <2>1. i \in Int /\ 1 <= i /\ i <= Len(l) + 1
    BY <1>1, <1>3
  <2> DEFINE j == a - gone + i - 1
  <2>2. j \in Cells
    BY <1>1, <1>2, <1>4, <1>7, <2>1, SizeIs
  <2>3. CASE i <= n
    <3>1. j < CursorOf(s) - gone /\ j + gone = a + i - 1 /\ i \in 1 .. Len(l)
      BY <1>1, <1>4, <2>1, <2>3
    <3>2. t.cells[j] = s.cells[j + gone]
      BY <1>2, <2>2, <3>1 DEF MovedUp
    <3>3. s.cells[a + i - 1] = l[i] /\ m[i] = l[i]
      BY <1>1, <1>3, <2>1, <2>3, <3>1
    <3>4. QED BY <3>1, <3>2, <3>3
  <2>4. CASE i = n + 1
    <3>1. j = CursorOf(s) - gone /\ ~(i <= n)
      BY <1>1, <1>4, <2>4, SMTT(20)
    <3>2. m[i] = c
      BY <1>3, <2>1, <2>4, <3>1
    <3>3. QED BY <1>2, <3>1, <3>2
  <2>5. CASE i > n + 1
    <3>1. /\ CursorOf(s) - gone < j /\ j <= EndOf(s) - gone /\ j - 1 + gone = a + (i - 1) - 1
          /\ i - 1 \in 1 .. Len(l) /\ ~(i <= n) /\ i # n + 1
      BY <1>1, <1>4, <2>1, <2>5
    <3>2. t.cells[j] = s.cells[j - 1 + gone]
      BY <1>2, <2>2, <3>1
    <3>3. s.cells[a + (i - 1) - 1] = l[i - 1]
      BY <1>1, <3>1
    <3>4. m[i] = l[i - 1]
      BY <1>3, <2>1, <3>1
    <3>5. QED BY <3>1, <3>2, <3>3, <3>4
  <2>6. QED BY <1>1, <2>1, <2>3, <2>4, <2>5
<1>9. Echoes(t, m, n + 1)
  <2>1. Len(m) <= LineSize /\ n + 1 \in 0 .. Len(m) /\ Start(t, n + 1) >= 0
    BY <1>1, <1>3, <1>4, <1>5
  <2>2. EndOf(t) = Start(t, n + 1) + Len(m)
    BY <1>1, <1>2, <1>3, <1>4, <1>5
  <2>3. QED BY <1>3, <1>5, <1>6, <1>7, <1>8, <2>1, <2>2 DEF Echoes
<1>10. Kept(s, a, t, Start(t, n + 1))
  <2>1. a - (a - gone) = gone
    BY <1>1, <1>4
  <2>2. ASSUME NEW i \in 0 .. a - gone - 1 PROVE t.cells[i] = s.cells[i + gone]
    <3>1. i \in Cells /\ i < CursorOf(s) - gone
      BY <1>1, <1>2, <1>4, <1>7, SizeIs
    <3>2. QED BY <1>2, <3>1 DEF MovedUp
  <2>3. a - gone - 1 = (a - gone) - 1
    OBVIOUS
  <2>4. QED BY <1>2, <1>5, <2>1, <2>2 DEF Kept
<1>11. QED BY <1>9, <1>10 DEF t, a, m

\* A character printed while no line is typed moves the place where one will begin
\* (ckTerminalPutChar_unsafe).
LEMMA PrintEchoes ==
    ASSUME NEW s, NEW n, Echoes(s, <<>>, n), ~Refuses(s), NEW c \in Chars
    PROVE  Echoes(AddChar(s, c), <<>>, n)
<1> DEFINE t == AddChar(s, c)
           a == Start(s, n)
<1>1. /\ Tidy(s) /\ s \in Screens /\ n = 0 /\ LineSize \in Nat
      /\ a \in Nat /\ CursorOf(s) = a /\ EndOf(s) = a
      /\ Solid(s, a)
  <2>1. Len(<<>>) = 0
    OBVIOUS
  <2>2. /\ Tidy(s) /\ s \in Screens /\ n \in Nat /\ n <= Len(<<>>) /\ LineSize \in Nat
        /\ a \in Nat /\ CursorOf(s) = a + n /\ EndOf(s) = a + Len(<<>>)
        /\ Solid(s, a)
    BY EchoesIs
  <2> HIDE DEF a
  <2>3. QED BY <2>1, <2>2
<1>2. PICK gone \in {0, Width} :
             /\ Tidy(t) /\ gone <= CursorOf(s)
             /\ CursorOf(t) = CursorOf(s) - gone + 1 /\ EndOf(t) = EndOf(s) - gone + 1
             /\ MovedUp(s, t, gone, CursorOf(s))
             /\ t.cells[CursorOf(s) - gone] = c
             /\ \A i \in Cells : CursorOf(s) - gone < i /\ i <= EndOf(s) - gone
                  => i - 1 + gone \in Cells /\ t.cells[i] = s.cells[i - 1 + gone]
  BY <1>1, AddCharIs
<1>3. gone \in Int /\ 0 <= gone /\ gone <= a
  BY <1>1, <1>2, SizeIs
<1>4. Solid(t, a - gone)
  <2>1. a \in Int /\ a <= CursorOf(s)
    BY <1>1
  <2>2. QED BY <1>1, <1>2, <1>3, <2>1, AddCharSolid
<1> HIDE DEF t, a
<1>5. t \in Screens /\ (\A i \in Cells : i >= EndOf(t) => t.cells[i] = Blank)
  BY <1>2 DEF Tidy
<1>6. Start(t, n) = a - gone + 1 /\ EndOf(t) = a - gone + 1
  BY <1>1, <1>2, <1>3 DEF Start
<1>7. Solid(t, a - gone + 1)
  <2>1. a - gone \in Int /\ a - gone + 1 \in Int /\ a - gone <= a - gone + 1
    BY <1>1, <1>3
  <2>2. QED BY <1>4, <2>1, SolidLater
<1>8. <<>> \in Seq(Chars) /\ Len(<<>>) = 0
  OBVIOUS
<1>9. Start(t, n) >= 0 /\ EndOf(t) = Start(t, n) + 0 /\ 0 <= LineSize /\ n \in 0 .. 0
  BY <1>1, <1>3, <1>6
<1>10. QED BY <1>5, <1>6, <1>7, <1>8, <1>9 DEF Echoes, t

\* A character is deleted from the line as from the screen (ckTerminalDelete_unsafe).
LEMMA DeleteEchoes ==
    ASSUME NEW s, NEW l, NEW n, Echoes(s, l, n), n < Len(l)
    PROVE  LET t == Delete(s)
           IN  Echoes(t, RemoveAt(l, n + 1), n) /\ Kept(s, Start(s, n), t, Start(t, n))
<1> DEFINE t == Delete(s)
           a == Start(s, n)
           m == RemoveAt(l, n + 1)
<1>1. /\ Tidy(s) /\ s \in Screens /\ l \in Seq(Chars) /\ Len(l) \in Nat /\ n \in Nat /\ n <= Len(l)
      /\ Len(l) <= LineSize /\ LineSize \in Nat
      /\ a \in Nat /\ CursorOf(s) = a + n /\ EndOf(s) = a + Len(l) /\ EndOf(s) < Size
      /\ \A i \in 1 .. Len(l) : s.cells[a + i - 1] = l[i]
      /\ Solid(s, a)
  BY EchoesIs
<1>2. CursorOf(s) < EndOf(s) /\ Solid(s, CursorOf(s))
  <2>1. a \in Int /\ CursorOf(s) \in Int /\ a <= CursorOf(s) /\ CursorOf(s) < EndOf(s)
    BY <1>1
  <2>2. QED BY <1>1, <2>1, SolidLater
<1>3. /\ Tidy(t) /\ CursorOf(t) = CursorOf(s) /\ EndOf(t) = EndOf(s) - 1
      /\ \A i \in Cells : i < CursorOf(s) => t.cells[i] = s.cells[i]
      /\ \A i \in Cells : CursorOf(s) <= i /\ i < EndOf(s) - 1
           => i + 1 \in Cells /\ t.cells[i] = s.cells[i + 1]
  BY <1>1, <1>2, DeleteIs
<1>4. /\ m \in Seq(Chars) /\ Len(m) = Len(l) - 1
      /\ \A i \in 1 .. Len(l) - 1 : m[i] = IF i <= n THEN l[i] ELSE l[i + 1]
  <2>1. n \in 0 .. Len(l) - 1
    BY <1>1
  <2>2. QED BY <1>1, <2>1, RemoveAtIs
<1> HIDE DEF t, m
<1>5. Start(t, n) = a
  BY <1>3 DEF Start
<1>6. Solid(t, a)
  <2>1. PICK r \in 0 .. Height - 1 :
          r * Width <= a /\ \A i \in Cells : r * Width <= i /\ i < EndOf(s) => s.cells[i] # Blank
    BY <1>1 DEF Solid
  <2> DEFINE f == r * Width
  <2>2. f \in Int /\ f <= a /\ \A i \in Cells : f <= i /\ i < EndOf(s) => s.cells[i] # Blank
    BY <2>1, SizeIs
  <2> HIDE DEF f, a
  <2>3. ASSUME NEW i \in Cells, f <= i, i < EndOf(t) PROVE t.cells[i] # Blank
    <3>1. i \in Int
      BY SizeIs
    <3>2. CASE i < CursorOf(s)
      <4>1. i < EndOf(s)
        BY <1>1, <1>3, <2>3, <3>1
      <4>2. QED BY <1>3, <2>2, <2>3, <3>2, <4>1
    <3>3. CASE ~(i < CursorOf(s))
      <4>1. CursorOf(s) <= i /\ i < EndOf(s) - 1 /\ f <= i + 1 /\ i + 1 < EndOf(s)
        BY <1>1, <1>3, <2>2, <2>3, <3>1, <3>3
      <4>2. i + 1 \in Cells /\ t.cells[i] = s.cells[i + 1]
        BY <1>3, <4>1
      <4>3. QED BY <2>2, <4>1, <4>2
    <3>4. QED BY <3>2, <3>3
  <2>4. QED BY <2>2, <2>3 DEF Solid, f
<1> HIDE DEF a
<1>7. t \in Screens /\ (\A i \in Cells : i >= EndOf(t) => t.cells[i] = Blank)
  BY <1>3 DEF Tidy
<1>8. ASSUME NEW i \in 1 .. Len(m) PROVE t.cells[a + i - 1] = m[i]
  <2>1. i \in Int /\ 1 <= i /\ i <= Len(l) - 1 /\ i \in 1 .. Len(l) - 1
    BY <1>1, <1>4
  <2> DEFINE j == a + i - 1
  <2>2. j \in Cells
    BY <1>1, <2>1, SizeIs
  <2>3. CASE i <= n
    <3>1. j < CursorOf(s) /\ i \in 1 .. Len(l)
      BY <1>1, <2>1, <2>3
    <3>2. t.cells[j] = s.cells[j]
      BY <1>3, <2>2, <3>1
    <3>3. s.cells[j] = l[i] /\ m[i] = l[i]
      BY <1>1, <1>4, <2>1, <2>3, <3>1
    <3>4. QED BY <3>2, <3>3
  <2>4. CASE ~(i <= n)
    <3>1. CursorOf(s) <= j /\ j < EndOf(s) - 1 /\ j + 1 = a + (i + 1) - 1 /\ i + 1 \in 1 .. Len(l)
      BY <1>1, <2>1, <2>4
    <3>2. t.cells[j] = s.cells[j + 1]
      BY <1>3, <2>2, <3>1
    <3>3. s.cells[a + (i + 1) - 1] = l[i + 1]
      BY <1>1, <3>1
    <3>4. m[i] = l[i + 1]
      BY <1>4, <2>1, <2>4
    <3>5. QED BY <3>1, <3>2, <3>3, <3>4
  <2>5. QED BY <2>3, <2>4
<1>9. Echoes(t, m, n)
  <2>1. Len(m) <= LineSize /\ n \in 0 .. Len(m) /\ Start(t, n) >= 0 /\ EndOf(t) = Start(t, n) + Len(m)
    BY <1>1, <1>3, <1>4, <1>5
  <2>2. QED BY <1>4, <1>5, <1>6, <1>7, <1>8, <2>1 DEF Echoes
<1>10. Kept(s, a, t, Start(t, n))
  <2>1. a - a = 0
    BY <1>1
  <2>2. ASSUME NEW i \in 0 .. a - 1 PROVE t.cells[i] = s.cells[i + 0]
    <3>1. i \in Cells /\ i < CursorOf(s) /\ i + 0 = i
      BY <1>1, SizeIs
    <3>2. QED BY <1>3, <3>1
  <2>3. QED BY <1>5, <2>1, <2>2 DEF Kept
<1>11. QED BY <1>9, <1>10 DEF t, a, m

\* The cursor moves in the line (ckTerminalLeft, ckTerminalRight).
LEMMA CursorEchoes ==
    ASSUME NEW s, NEW l, NEW n, Echoes(s, l, n), NEW m \in 0 .. Len(l), NEW p \in Places,
           Address(p) = CursorOf(s) - n + m
    PROVE  LET t == [s EXCEPT !.cursor = p]
           IN  Echoes(t, l, m) /\ Kept(s, Start(s, n), t, Start(t, m)) /\ Start(t, m) = Start(s, n)
<1> DEFINE t == [s EXCEPT !.cursor = p]
           a == Start(s, n)
<1>1. /\ s \in Screens /\ l \in Seq(Chars) /\ Len(l) \in Nat /\ n \in Nat /\ n <= Len(l)
      /\ Len(l) <= LineSize
      /\ a \in Nat /\ CursorOf(s) = a + n /\ EndOf(s) = a + Len(l) /\ Tidy(s)
      /\ \A i \in 1 .. Len(l) : s.cells[a + i - 1] = l[i]
      /\ Solid(s, a)
  BY EchoesIs
<1>2. s = [cells |-> s.cells, cursor |-> s.cursor, end |-> s.end]
      /\ s.cells \in [Cells -> Contents] /\ s.end \in Places
  BY <1>1, ScreenIs
<1>3. t = [cells |-> s.cells, cursor |-> p, end |-> s.end]
  BY <1>2
<1>4. t.cells = s.cells /\ t.cursor = p /\ t.end = s.end /\ t \in Screens
  BY <1>2, <1>3 DEF Screens
<1> HIDE DEF t, a
<1>5. CursorOf(t) = a + m /\ EndOf(t) = EndOf(s)
  BY <1>1, <1>4 DEF CursorOf, EndOf
<1>6. Start(t, m) = a
  BY <1>1, <1>5 DEF Start
<1>7. Solid(t, a)
  BY <1>1, <1>4, <1>5 DEF Solid
<1>8. Echoes(t, l, m)
  BY <1>1, <1>4, <1>5, <1>6, <1>7 DEF Echoes, Tidy
<1>9. Kept(s, a, t, a)
  <2>1. a - a = 0 /\ \A i \in 0 .. a - 1 : i + 0 = i
    BY <1>1
  <2>2. QED BY <1>4, <2>1 DEF Kept
<1>10. QED BY <1>6, <1>8, <1>9 DEF t, a

\* Backspace is the cursor's move to the left and a Delete, but at the left edge
\* (ckTerminalBackspace_unsafe).
LEMMA BackspaceEchoes ==
    ASSUME NEW s, NEW l, NEW n, Echoes(s, l, n), n > 0, s.cursor.col # 0
    PROVE  LET t == Backspace(s)
           IN  Echoes(t, RemoveAt(l, n), n - 1) /\ Kept(s, Start(s, n), t, Start(t, n - 1))
<1> DEFINE p == Back(s.cursor)
           q == [s EXCEPT !.cursor = p]
           t == Backspace(s)
           m == n - 1
<1>1. /\ s \in Screens /\ Len(l) \in Nat /\ n \in Nat /\ n <= Len(l)
      /\ Start(s, n) \in Nat /\ CursorOf(s) = Start(s, n) + n
  BY EchoesIs
<1>2. s = [cells |-> s.cells, cursor |-> s.cursor, end |-> s.end] /\ s.cursor \in Places
  BY <1>1, ScreenIs
<1>3. t = Delete(q)
  <2>1. s.cursor = [row |-> s.cursor.row, col |-> s.cursor.col]
    BY <1>2, AddressIs
  <2>2. p = [s.cursor EXCEPT !.col = s.cursor.col - 1]
    BY <2>1 DEF Back
  <2>3. [s EXCEPT !.cursor.col = @ - 1] = q
    <3> HIDE DEF p
    <3>1. QED BY <1>2, <2>2
  <2>4. QED BY <2>3 DEF Backspace
<1>4. Address(s.cursor) > 0
  BY <1>1 DEF CursorOf
<1>5. p \in Places /\ Address(p) = Address(s.cursor) - 1
  BY <1>2, <1>4, BackIs
<1>6. m \in 0 .. Len(l) /\ m < Len(l) /\ m + 1 = n /\ Address(p) = CursorOf(s) - n + m
  <2>1. Address(p) = CursorOf(s) - 1
    BY <1>5 DEF CursorOf
  <2> HIDE DEF p
  <2>2. QED BY <1>1, <2>1
<1> HIDE DEF p
<1>7. Echoes(q, l, m) /\ Kept(s, Start(s, n), q, Start(q, m)) /\ Start(q, m) = Start(s, n)
  BY <1>5, <1>6, CursorEchoes
<1> HIDE DEF q
<1>8. Echoes(t, RemoveAt(l, m + 1), m) /\ Kept(q, Start(q, m), t, Start(t, m))
  BY <1>3, <1>6, <1>7, DeleteEchoes
<1> HIDE DEF t, m
<1>9. Kept(s, Start(s, n), t, Start(t, m))
  <2>1. q.cells = s.cells
    BY <1>2 DEF q
  <2>2. QED BY <1>7, <1>8, <2>1 DEF Kept
<1>10. QED BY <1>6, <1>8, <1>9 DEF t, m

\* A backspace that a program prints, before any line is typed.
LEMMA PrintedBackspaceEchoes ==
    ASSUME NEW s, NEW n, Echoes(s, <<>>, n), s.cursor.col # 0
    PROVE  Echoes(Backspace(s), <<>>, n)
<1> DEFINE p == Back(s.cursor)
           q == [s EXCEPT !.cursor = p]
           t == Backspace(s)
           a == Start(s, n)
<1>1. /\ s \in Screens /\ Tidy(s) /\ n = 0 /\ LineSize \in Nat
      /\ a \in Nat /\ CursorOf(s) = a /\ EndOf(s) = a
      /\ Solid(s, a)
  <2>1. Len(<<>>) = 0
    OBVIOUS
  <2>2. /\ Tidy(s) /\ s \in Screens /\ n \in Nat /\ n <= Len(<<>>) /\ LineSize \in Nat
        /\ a \in Nat /\ CursorOf(s) = a + n /\ EndOf(s) = a + Len(<<>>)
        /\ Solid(s, a)
    BY EchoesIs
  <2> HIDE DEF a
  <2>3. QED BY <2>1, <2>2
<1>2. /\ s = [cells |-> s.cells, cursor |-> s.cursor, end |-> s.end]
      /\ s.cells \in [Cells -> Contents] /\ s.cursor \in Places /\ s.end \in Places
  BY <1>1, ScreenIs
<1>3. t = Delete(q)
  <2>1. s.cursor = [row |-> s.cursor.row, col |-> s.cursor.col]
    BY <1>2, AddressIs
  <2>2. p = [s.cursor EXCEPT !.col = s.cursor.col - 1]
    BY <2>1 DEF Back
  <2>3. [s EXCEPT !.cursor.col = @ - 1] = q
    <3> HIDE DEF p
    <3>1. QED BY <1>2, <2>2
  <2>4. QED BY <2>3 DEF Backspace
<1> DEFINE b == s.cursor.row * Width
<1>4. b \in Int /\ 0 <= b /\ b < a
  <2>1. CursorOf(s) = b + s.cursor.col /\ b \in Int /\ 0 <= b
    BY <1>2, AddressIs DEF CursorOf
  <2>2. s.cursor.col \in Nat
    BY <1>2, SizeIs DEF Places
  <2> HIDE DEF a, b
  <2>3. QED BY <1>1, <2>1, <2>2
<1>5. p \in Places /\ Address(p) = a - 1
  <2>1. Address(s.cursor) = a
    BY <1>1 DEF CursorOf
  <2> HIDE DEF a, b
  <2>2. QED BY <1>1, <1>2, <1>4, <2>1, BackIs
<1> HIDE DEF p
<1>6. q = [cells |-> s.cells, cursor |-> p, end |-> s.end]
  BY <1>2
<1>7. q.cells = s.cells /\ q.cursor = p /\ q.end = s.end /\ q \in Screens
  BY <1>2, <1>5, <1>6 DEF Screens
<1> HIDE DEF q
<1>8. CursorOf(q) = a - 1 /\ EndOf(q) = a
  BY <1>1, <1>5, <1>7 DEF CursorOf, EndOf
<1>9. Tidy(q) /\ CursorOf(q) < EndOf(q)
  <2> HIDE DEF a
  <2>1. QED BY <1>1, <1>7, <1>8 DEF Tidy
<1>10. Solid(q, a - 1)
  <2>1. PICK r \in 0 .. Height - 1 :
          r * Width <= a /\ \A i \in Cells : r * Width <= i /\ i < EndOf(s) => s.cells[i] # Blank
    BY <1>1 DEF Solid
  <2> DEFINE f == r * Width
  <2>2. f \in Int /\ f <= a
    BY <2>1, SizeIs
  <2>3. /\ r \in Nat /\ s.cursor.row \in Nat /\ s.cursor.col < Width /\ s.cursor.col \in Int
        /\ a = b + s.cursor.col
    <3>1. r \in Nat /\ s.cursor.row \in Nat /\ s.cursor.col < Width /\ s.cursor.col \in Int
      BY <1>2, SizeIs DEF Places
    <3>2. CursorOf(s) = b + s.cursor.col
      BY <1>2, AddressIs DEF CursorOf
    <3>3. QED BY <1>1, <3>1, <3>2
  <2>4. /\ s.cursor.row < r => b + Width <= f
        /\ r < s.cursor.row => f + Width <= b
        /\ r = s.cursor.row => f = b
    BY <2>3, RowsApart
  <2> HIDE DEF f, b, a
  <2>5. f <= a - 1
    BY <1>1, <1>4, <2>2, <2>3, <2>4, SizeIs, SMTT(20)
  <2>6. \A i \in Cells : f <= i /\ i < EndOf(q) => q.cells[i] # Blank
    BY <1>1, <1>7, <1>8, <2>1 DEF f
  <2>7. QED BY <2>5, <2>6 DEF Solid, f
<1>11. /\ Tidy(t) /\ CursorOf(t) = a - 1 /\ EndOf(t) = a - 1
       /\ \A i \in Cells : i < a - 1 => t.cells[i] = q.cells[i]
  BY <1>3, <1>8, <1>9, <1>10, DeleteIs
<1> HIDE DEF t, a
<1>12. Solid(t, a - 1)
  <2>1. PICK r \in 0 .. Height - 1 :
          r * Width <= a - 1 /\ \A i \in Cells : r * Width <= i /\ i < EndOf(q) => q.cells[i] # Blank
    BY <1>10 DEF Solid
  <2>2. \A i \in Cells : i < a - 1 => i < a
    BY <1>1, SizeIs
  <2>3. \A i \in Cells : r * Width <= i /\ i < EndOf(t) => t.cells[i] # Blank
    BY <1>8, <1>11, <2>1, <2>2
  <2>4. QED BY <2>1, <2>3 DEF Solid
<1>13. Start(t, n) = a - 1
  BY <1>1, <1>11 DEF Start
<1>14. <<>> \in Seq(Chars) /\ Len(<<>>) = 0 /\ n \in 0 .. 0 /\ 0 <= LineSize /\ a - 1 >= 0 /\ a - 1 = a - 1 + 0
  BY <1>1, <1>4
<1>15. QED BY <1>11, <1>12, <1>13, <1>14 DEF Echoes, Tidy, t

\* A screen with cursor and end in one place shows an empty line.
LEMMA EmptyEchoes ==
    ASSUME NEW t, Tidy(t), CursorOf(t) = EndOf(t), Solid(t, EndOf(t))
    PROVE  Echoes(t, <<>>, 0)
<1>1. t \in Screens /\ CursorOf(t) \in Nat /\ LineSize \in Nat
  BY ScreenIs, LineAssumption DEF Tidy
<1>2. Start(t, 0) = EndOf(t)
  BY <1>1 DEF Start
<1>3. <<>> \in Seq(Chars) /\ Len(<<>>) = 0 /\ 0 \in 0 .. 0 /\ EndOf(t) = EndOf(t) + 0 /\ EndOf(t) >= 0 /\ 0 <= LineSize
  BY <1>1
<1>4. QED BY <1>1, <1>2, <1>3 DEF Echoes, Tidy

\* The line ends, and the next begins in a row of its own (csNewLine,
\* ckTerminalClearLineBuffer_unsafe).
LEMMA NewLineEchoes ==
    ASSUME NEW s, Tidy(s)
    PROVE  LET t == NewLine(s)
           IN  Echoes(t, <<>>, 0) /\ [t EXCEPT !.end = t.cursor] = t
<1> DEFINE t == NewLine(s)
<1>1. Tidy(t) /\ CursorOf(t) = EndOf(t)
  BY NewLineIs
<1>2. PICK r \in 0 .. Height - 1 : EndOf(t) = r * Width
  BY NewLineIs
<1>3. t.cursor = t.end
  BY DEF NewLine
<1> HIDE DEF t
<1>4. t \in Screens /\ EndOf(t) \in Int
  BY <1>1, ScreenIs DEF Tidy
<1>5. Solid(t, EndOf(t))
  <2>1. \A i \in Cells : ~(r * Width <= i /\ i < EndOf(t))
    <3> DEFINE f == r * Width
    <3>1. f = EndOf(t)
      BY <1>2
    <3> HIDE DEF f
    <3>2. \A i \in Cells : ~(f <= i /\ i < EndOf(t))
      BY <1>4, <3>1, SizeIs
    <3>3. QED BY <3>2 DEF f
  <2>2. r * Width <= EndOf(t)
    <3> DEFINE f == r * Width
    <3>1. f = EndOf(t)
      BY <1>2
    <3> HIDE DEF f
    <3>2. f <= EndOf(t)
      BY <1>4, <3>1
    <3>3. QED BY <3>2 DEF f
  <2>3. QED BY <2>1, <2>2 DEF Solid
<1>6. t = [cells |-> t.cells, cursor |-> t.cursor, end |-> t.end]
  BY <1>4, ScreenIs
<1>7. [t EXCEPT !.end = t.cursor] = t
  BY <1>3, <1>6
<1>8. QED BY <1>1, <1>5, <1>7, EmptyEchoes DEF t

\* The line and its echo are taken back (csCancelInputing).
LEMMA EscapeEchoes ==
    ASSUME NEW s, NEW l, Echoes(s, l, Len(l))
    PROVE  LET b == [s EXCEPT !.cursor = Before(@, Len(l))]
               e == [b EXCEPT !.cells = Cleared(@, CursorOf(b), EndOf(b) - CursorOf(b))]
               t == [e EXCEPT !.end = e.cursor]
           IN  Echoes(t, <<>>, 0) /\ Kept(s, Start(s, Len(l)), t, Start(t, 0))
<1> DEFINE p == Before(s.cursor, Len(l))
           b == [s EXCEPT !.cursor = Before(@, Len(l))]
           cells == Cleared(s.cells, CursorOf(b), EndOf(b) - CursorOf(b))
           e == [b EXCEPT !.cells = Cleared(@, CursorOf(b), EndOf(b) - CursorOf(b))]
           t == [e EXCEPT !.end = e.cursor]
           a == Start(s, Len(l))
<1>1. /\ s \in Screens /\ Tidy(s) /\ Len(l) \in Nat
      /\ a \in Nat /\ CursorOf(s) = a + Len(l) /\ EndOf(s) = a + Len(l) /\ EndOf(s) < Size
      /\ Solid(s, a)
  BY EchoesIs
<1>2. /\ s = [cells |-> s.cells, cursor |-> s.cursor, end |-> s.end]
      /\ s.cells \in [Cells -> Contents] /\ s.cursor \in Places /\ s.end \in Places
  BY <1>1, ScreenIs
<1>3. p \in Places /\ Address(p) = a
  <2>1. Address(s.cursor) = a + Len(l)
    BY <1>1 DEF CursorOf
  <2> HIDE DEF a
  <2>2. Len(l) <= Address(s.cursor) /\ Address(s.cursor) - Len(l) = a
    BY <1>1, <2>1
  <2>3. QED BY <1>1, <1>2, <2>2, BeforeIs
<1> HIDE DEF p
<1>4. b = [cells |-> s.cells, cursor |-> p, end |-> s.end]
  <2> HIDE DEF a
  <2>1. QED BY <1>2 DEF p
<1>5. CursorOf(b) = a /\ EndOf(b) = EndOf(s)
  BY <1>3, <1>4 DEF CursorOf, EndOf
<1> HIDE DEF b, a
<1>6. e = [cells |-> cells, cursor |-> p, end |-> s.end]
  BY <1>4
<1>7. /\ cells \in [Cells -> Contents]
      /\ \A i \in Cells : cells[i] = IF a <= i /\ i < a + (EndOf(s) - a) THEN Blank ELSE s.cells[i]
  BY <1>1, <1>2, <1>5, ClearedIs
<1> HIDE DEF cells, e
<1>8. t = [cells |-> cells, cursor |-> p, end |-> p]
  BY <1>6
<1>9. t.cells = cells /\ t.cursor = p /\ t.end = p /\ t \in Screens
  BY <1>3, <1>7, <1>8 DEF Screens
<1> HIDE DEF t
<1>10. CursorOf(t) = a /\ EndOf(t) = a
  BY <1>3, <1>9 DEF CursorOf, EndOf
<1>11. ASSUME NEW i \in Cells, i >= a PROVE t.cells[i] = Blank
  <2>1. i \in Int
    BY SizeIs
  <2>2. CASE i < EndOf(s)
    <3>1. a <= i /\ i < a + (EndOf(s) - a)
      BY <1>1, <1>11, <2>1, <2>2
    <3>2. QED BY <1>7, <1>9, <3>1
  <2>3. CASE ~(i < EndOf(s))
    <3>1. i >= EndOf(s) /\ ~(i < a + (EndOf(s) - a))
      BY <1>1, <2>1, <2>3
    <3>2. s.cells[i] = Blank
      BY <1>1, <3>1 DEF Tidy
    <3>3. QED BY <1>7, <1>9, <3>1, <3>2
  <2>4. QED BY <2>2, <2>3
<1>12. ASSUME NEW i \in Cells, i < a PROVE t.cells[i] = s.cells[i]
  <2>1. ~(a <= i)
    BY <1>1, <1>12, SizeIs
  <2>2. QED BY <1>7, <1>9, <2>1
<1>13. Solid(t, a)
  <2>1. PICK r \in 0 .. Height - 1 :
          r * Width <= a /\ \A i \in Cells : r * Width <= i /\ i < EndOf(s) => s.cells[i] # Blank
    BY <1>1 DEF Solid
  <2>2. \A i \in Cells : i < a => i < EndOf(s)
    BY <1>1, SizeIs
  <2>3. \A i \in Cells : r * Width <= i /\ i < EndOf(t) => t.cells[i] # Blank
    BY <1>10, <1>12, <2>1, <2>2
  <2>4. QED BY <2>1, <2>3 DEF Solid
<1>14. Echoes(t, <<>>, 0)
  <2>1. CursorOf(t) <= EndOf(t)
    BY <1>1, <1>10
  <2>2. QED BY <1>9, <1>10, <1>11, <1>13, <2>1, EmptyEchoes DEF Tidy
<1>15. Start(t, 0) = a
  BY <1>1, <1>10 DEF Start
<1>16. Kept(s, a, t, a)
  <2>1. a - a = 0
    BY <1>1
  <2>2. ASSUME NEW i \in 0 .. a - 1 PROVE t.cells[i] = s.cells[i + 0]
    <3>1. i \in Cells /\ i < a /\ i + 0 = i
      BY <1>1, SizeIs
    <3>2. QED BY <1>12, <3>1
  <2>3. QED BY <2>1, <2>2 DEF Kept
<1>17. QED BY <1>14, <1>15, <1>16 DEF t, e, b, a

-----------------------------------------------------------------------------
(* Each key and each call. *)

\* What stands before the line, from one state to the next.
PromptKept == Kept(screen, Start(screen, at), screen', Start(screen', at'))

\* Nothing happens to the screen and the line.
LEMMA StandsStill ==
    ASSUME LineInv, ~apart, UNCHANGED <<screen, line, at>>, apart' = FALSE
    PROVE  LineInv' /\ PromptKept
<1>1. Echoes(screen, line, at)
  BY DEF LineInv
<1>2. Start(screen, at) \in Nat
  BY <1>1, EchoesIs
<1>3. Kept(screen, Start(screen, at), screen, Start(screen, at))
  <2> DEFINE a == Start(screen, at)
  <2>1. a \in Nat
    BY <1>2
  <2> HIDE DEF a
  <2>2. a - a = 0 /\ \A i \in 0 .. a - 1 : i + (a - a) = i
    BY <2>1
  <2>3. Kept(screen, a, screen, a)
    BY <2>2 DEF Kept
  <2>4. QED BY <2>3 DEF a
<1>4. QED BY <1>1, <1>3 DEF LineInv, PromptKept

\* ckTerminalOnInput for a character
LEMMA TypeKeeps ==
    ASSUME LineInv, ~apart, NEW c \in Chars, Type(c)
    PROVE  LineInv' /\ PromptKept
<1>1. Echoes(screen, line, at) /\ apart' = FALSE
  BY DEF LineInv, Type
<1>2. CASE Refuses(screen)
  BY <1>1, <1>2, StandsStill DEF Type
<1>3. CASE ~Refuses(screen)
  <2>1. /\ screen' = AddChar(screen, c) /\ line' = InsertAt(line, at + 1, c) /\ at' = at + 1
        /\ Len(line) < LineSize
    BY <1>3 DEF Type
  <2>2. /\ Echoes(AddChar(screen, c), InsertAt(line, at + 1, c), at + 1)
        /\ Kept(screen, Start(screen, at), AddChar(screen, c), Start(AddChar(screen, c), at + 1))
    BY <1>1, <1>3, <2>1, TypeEchoes
  <2>3. QED BY <1>1, <2>1, <2>2 DEF LineInv, PromptKept
<1>4. QED BY <1>2, <1>3

\* ckTerminalOnInput for Enter
LEMMA EnterKeeps ==
    ASSUME LineInv, ~apart, Enter
    PROVE  LineInv'
<1>1. Echoes(screen, line, at) /\ apart' = FALSE
  BY DEF LineInv, Enter
<1>2. Tidy(screen)
  BY <1>1, EchoesIs
<1>3. /\ screen' = [NewLine(screen) EXCEPT !.end = NewLine(screen).cursor]
      /\ line' = <<>> /\ at' = 0
  BY DEF Enter, ClearLine
<1>4. Echoes(NewLine(screen), <<>>, 0) /\ screen' = NewLine(screen)
  BY <1>2, <1>3, NewLineEchoes
<1>5. QED BY <1>1, <1>3, <1>4 DEF LineInv

\* csCancelInputing
LEMMA EscapeKeeps ==
    ASSUME LineInv, ~apart, Escape
    PROVE  LineInv' /\ (~apart' => PromptKept)
<1>1. Echoes(screen, line, at)
  BY DEF LineInv
<1>2. apart' = (at < Len(line))
  BY DEF Escape
<1>3. CASE apart'
  BY <1>2, <1>3 DEF LineInv
<1>4. CASE ~apart'
  <2>1. at = Len(line)
    <3>1. at \in Nat /\ Len(line) \in Nat /\ at <= Len(line)
      BY <1>1, EchoesIs
    <3>2. ~(at < Len(line))
      BY <1>2, <1>4, Zenon
    <3>3. QED BY <3>1, <3>2
  <2> DEFINE b == [screen EXCEPT !.cursor = Before(@, Len(line))]
             e == [b EXCEPT !.cells = Cleared(@, CursorOf(b), EndOf(b) - CursorOf(b))]
             t == [e EXCEPT !.end = e.cursor]
  <2>2. screen' = t /\ line' = <<>> /\ at' = 0
    BY <1>4 DEF Escape, ClearLine
  <2>3. Echoes(t, <<>>, 0) /\ Kept(screen, Start(screen, Len(line)), t, Start(t, 0))
    BY <1>1, <2>1, EscapeEchoes
  <2> HIDE DEF t
  <2>4. QED BY <1>2, <1>4, <2>1, <2>2, <2>3 DEF LineInv, PromptKept
<1>5. QED BY <1>3, <1>4

\* ckTerminalOnInput for Backspace
LEMMA BackspaceKeeps ==
    ASSUME LineInv, ~apart, BackspaceKey
    PROVE  LineInv' /\ (~apart' => PromptKept)
<1>1. Echoes(screen, line, at) /\ apart' = (screen.cursor.col = 0)
  BY DEF LineInv, BackspaceKey
<1>2. CASE apart'
  BY <1>1, <1>2 DEF LineInv
<1>3. CASE ~apart'
  <2>1. screen' = Backspace(screen) /\ line' = RemoveAt(line, at) /\ at' = at - 1 /\ at > 0
    BY DEF BackspaceKey
  <2>2. /\ Echoes(Backspace(screen), RemoveAt(line, at), at - 1)
        /\ Kept(screen, Start(screen, at), Backspace(screen), Start(Backspace(screen), at - 1))
    BY <1>1, <1>3, <2>1, BackspaceEchoes
  <2>3. QED BY <1>1, <1>3, <2>1, <2>2 DEF LineInv, PromptKept
<1>4. QED BY <1>2, <1>3

\* ckTerminalOnInput for Delete
LEMMA DeleteKeeps ==
    ASSUME LineInv, ~apart, DeleteKey
    PROVE  LineInv' /\ PromptKept
<1>1. Echoes(screen, line, at) /\ apart' = FALSE
  BY DEF LineInv, DeleteKey
<1>2. screen' = Delete(screen) /\ line' = RemoveAt(line, at + 1) /\ at' = at /\ at < Len(line)
  BY DEF DeleteKey
<1>3. /\ Echoes(Delete(screen), RemoveAt(line, at + 1), at)
      /\ Kept(screen, Start(screen, at), Delete(screen), Start(Delete(screen), at))
  BY <1>1, <1>2, DeleteEchoes
<1>4. QED BY <1>1, <1>2, <1>3 DEF LineInv, PromptKept

\* ckTerminalOnInput for the arrows
LEMMA ArrowsKeep ==
    ASSUME LineInv, ~apart, Left \/ Right
    PROVE  LineInv' /\ PromptKept
<1>1. Echoes(screen, line, at) /\ apart' = FALSE /\ line' = line
  BY DEF LineInv, Left, Right
<1>2. /\ at \in Nat /\ Len(line) \in Nat /\ at <= Len(line) /\ screen \in Screens
      /\ Start(screen, at) \in Nat /\ CursorOf(screen) = Start(screen, at) + at
      /\ EndOf(screen) = Start(screen, at) + Len(line) /\ EndOf(screen) < Size
  BY <1>1, EchoesIs
<1>3. screen.cursor \in Places /\ CursorOf(screen) = Address(screen.cursor)
  BY <1>2, ScreenIs DEF CursorOf
<1>4. \E p \in Places : screen' = [screen EXCEPT !.cursor = p] /\ at' \in 0 .. Len(line)
                        /\ Address(p) = CursorOf(screen) - at + at'
  <2>1. CASE Left
    <3>1. at > 0 /\ at' = at - 1 /\ screen' = [screen EXCEPT !.cursor = Back(screen.cursor)]
      BY <2>1 DEF Left
    <3>2. Address(screen.cursor) > 0
      BY <1>2, <1>3, <3>1
    <3>3. Back(screen.cursor) \in Places /\ Address(Back(screen.cursor)) = Address(screen.cursor) - 1
      BY <1>3, <3>2, BackIs
    <3>4. at' \in 0 .. Len(line) /\ Address(Back(screen.cursor)) = CursorOf(screen) - at + at'
      BY <1>2, <1>3, <3>1, <3>3
    <3>5. QED BY <3>1, <3>3, <3>4
  <2>2. CASE Right
    <3>1. at < Len(line) /\ at' = at + 1 /\ screen' = [screen EXCEPT !.cursor = Onwards(screen.cursor)]
      BY <2>2 DEF Right
    <3>2. Address(screen.cursor) < Size - 1
      BY <1>2, <1>3, <3>1, SizeIs
    <3>3. Onwards(screen.cursor) \in Places /\ Address(Onwards(screen.cursor)) = Address(screen.cursor) + 1
      BY <1>3, <3>2, OnwardsIs
    <3>4. at' \in 0 .. Len(line) /\ Address(Onwards(screen.cursor)) = CursorOf(screen) - at + at'
      BY <1>2, <1>3, <3>1, <3>3
    <3>5. QED BY <3>1, <3>3, <3>4
  <2>3. QED BY <2>1, <2>2
<1>5. PICK p \in Places : screen' = [screen EXCEPT !.cursor = p] /\ at' \in 0 .. Len(line)
                          /\ Address(p) = CursorOf(screen) - at + at'
  BY <1>4
<1>6. Echoes(screen', line, at') /\ Kept(screen, Start(screen, at), screen', Start(screen', at'))
  BY <1>1, <1>5, CursorEchoes
<1>7. QED BY <1>1, <1>6 DEF LineInv, PromptKept

\* In an empty line the insertion point is at its beginning, and the screen is tidy.
LEMMA EmptyLine ==
    ASSUME NEW s, NEW n, Echoes(s, <<>>, n)
    PROVE  n = 0 /\ Tidy(s) /\ s \in Screens
<1>1. Len(<<>>) = 0
  OBVIOUS
<1>2. n \in Nat /\ n <= Len(<<>>) /\ Tidy(s) /\ s \in Screens
  BY EchoesIs
<1>3. QED BY <1>1, <1>2

\* ckTerminalPutChar_unsafe for a program
LEMMA PutCharKeeps ==
    ASSUME LineInv, ~apart, NEW c \in Chars \cup {"new line", "backspace"}, PutChar(c)
    PROVE  LineInv'
<1>1. Echoes(screen, line, at) /\ apart' \in BOOLEAN /\ line' = line /\ at' = at
  BY DEF LineInv, PutChar
<1>2. SUFFICES ASSUME apart' = FALSE PROVE Echoes(screen', line, at)
  BY <1>1 DEF LineInv
<1>3. line = <<>> /\ at = 0 /\ Tidy(screen) /\ screen \in Screens
  <2>1. line = <<>>
    BY <1>2 DEF PutChar
  <2>2. Echoes(screen, <<>>, at)
    BY <1>1, <2>1
  <2>3. at = 0 /\ Tidy(screen) /\ screen \in Screens
    BY <2>2, EmptyLine, Zenon
  <2>4. QED BY <2>1, <2>3, Zenon
<1>4. CASE c = "new line"
  <2>1. screen' = NewLine(screen)
    BY <1>4 DEF PutChar
  <2>2. QED BY <1>3, <2>1, NewLineEchoes
<1>5. CASE c = "backspace"
  <2>1. screen' = Backspace(screen) /\ (screen.cursor.col = 0 => screen.cursor.row = 0)
    BY <1>2, <1>5 DEF PutChar
  <2>2. CASE screen.cursor.col # 0
    BY <1>1, <1>3, <2>1, <2>2, PrintedBackspaceEchoes
  <2>3. CASE screen.cursor.col = 0
    <3>1. Backspace(screen) = screen
      BY <2>1, <2>3 DEF Backspace
    <3>2. QED BY <1>1, <2>1, <3>1
  <2>4. QED BY <2>2, <2>3
<1>6. CASE c # "new line" /\ c # "backspace"
  <2>1. screen' = IF Refuses(screen) THEN screen ELSE AddChar(screen, c)
    BY <1>6 DEF PutChar
  <2>2. c \in Chars
    BY <1>6
  <2>3. QED BY <1>1, <1>3, <2>1, <2>2, PrintEchoes
<1>7. QED BY <1>4, <1>5, <1>6

\* An empty screen
LEMMA EmptyScreen ==
    Echoes([cells |-> [i \in Cells |-> Blank], cursor |-> [row |-> 0, col |-> 0], end |-> [row |-> 0, col |-> 0]], <<>>, 0)
<1> DEFINE home == [row |-> 0, col |-> 0]
           cells == [i \in Cells |-> Blank]
           t == [cells |-> cells, cursor |-> home, end |-> home]
<1>1. home \in Places
  BY SizeIs DEF Places
<1>2. Address(home) = 0 * Width + 0 /\ 0 * Width = 0
  BY SizeIs DEF Address
<1>3. cells \in [Cells -> Contents] /\ \A i \in Cells : cells[i] = Blank
  BY DEF Contents
<1> HIDE DEF home, cells
<1>4. t \in Screens /\ t.cells = cells /\ t.cursor = home /\ t.end = home
  BY <1>1, <1>3 DEF Screens
<1> HIDE DEF t
<1>5. CursorOf(t) = 0 /\ EndOf(t) = 0
  BY <1>2, <1>4 DEF CursorOf, EndOf
<1>6. Tidy(t)
  BY <1>3, <1>4, <1>5 DEF Tidy
<1>7. Solid(t, EndOf(t))
  <2>1. 0 * Width <= 0 /\ \A i \in Cells : ~(i < 0)
    BY <1>2, SizeIs
  <2>2. 0 \in 0 .. Height - 1
    BY SizeIs
  <2>3. QED BY <1>5, <2>1, <2>2 DEF Solid
<1>8. Echoes(t, <<>>, 0)
  BY <1>5, <1>6, <1>7, EmptyEchoes
<1>9. QED BY <1>8 DEF t, cells, home

\* ckTerminalCls
LEMMA ClsKeeps ==
    ASSUME LineInv, ~apart, Cls
    PROVE  LineInv'
BY EmptyScreen DEF Cls, LineInv

\* The keys that edit, each with what stands before the line.
LEMMA EditKeeps ==
    ASSUME LineInv, ~apart, Edit
    PROVE  LineInv' /\ (~apart' => PromptKept)
BY TypeKeeps, EscapeKeeps, BackspaceKeeps, DeleteKeeps, ArrowsKeep DEF Edit

-----------------------------------------------------------------------------
(* The theorems. *)

\* The screen shows the line in every reachable state, solid from the beginning of the
\* row in which it starts, for any screen and any line that fits on it.
THEOREM LineInvariant == Spec => []LineInv
<1>1. Init => LineInv
  BY EmptyScreen DEF Init, LineInv
<1>2. LineInv /\ [Next]_vars => LineInv'
  <2>1. SUFFICES ASSUME LineInv, [Next]_vars PROVE LineInv'
    OBVIOUS
  <2>2. CASE UNCHANGED vars
    BY <2>1, <2>2 DEF vars, LineInv
  <2>3. CASE ~apart /\ Edit
    BY <2>1, <2>3, EditKeeps
  <2>4. CASE ~apart /\ Enter
    BY <2>1, <2>4, EnterKeeps
  <2>5. ASSUME ~apart, NEW c \in Chars \cup {"new line", "backspace"}, PutChar(c) PROVE LineInv'
    BY <2>1, <2>5, PutCharKeeps
  <2>6. CASE ~apart /\ Cls
    BY <2>1, <2>6, ClsKeeps
  <2>7. QED BY <2>1, <2>2, <2>3, <2>4, <2>5, <2>6 DEF Next
<1>3. QED BY <1>1, <1>2, PTL DEF Spec

\* Until they come apart the echo on the screen is the line that is typed, wherever it
\* wraps and scrolls, and nothing stands behind it (terminal.c:182, 262, 364).
THEOREM EchoesLine == Spec => []Echo
<1>1. LineInv => Echo
  <2>1. SUFFICES ASSUME Echoes(screen, line, at) PROVE Echo
    BY DEF LineInv, Echo
  <2>2. screen.cursor \in Places /\ screen.end \in Places
    BY <2>1, ScreenIs DEF Echoes
  <2>3. QED BY <2>1, <2>2 DEF Echo, Echoes
<1>2. QED BY LineInvariant, <1>1, PTL

\* No key that edits the line changes what stands before it, but for a row that scrolls
\* away (terminal.c:189, 405).
THEOREM PromptsStay == Spec => PromptStays
<1>1. LineInv /\ [Next]_vars =>
        [Edit /\ ~apart' =>
           LET gone == Start(screen, at) - Start(screen', at')
           IN  /\ gone \in {0, Width}
               /\ \A i \in 0 .. Start(screen', at') - 1 : screen'.cells[i] = screen.cells[i + gone]]_vars
  <2>1. SUFFICES ASSUME LineInv, Next, Edit, ~apart' PROVE PromptKept
    BY DEF PromptKept, Kept
  <2>2. ~apart
    BY <2>1 DEF Next
  <2>3. QED BY <2>1, <2>2, EditKeeps
<1>2. QED BY LineInvariant, <1>1, PTL DEF Spec, PromptStays
=============================================================================
