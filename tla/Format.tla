------------------------------- MODULE Format ------------------------------
(***************************************************************************)
(* Formatted printing, vsnprintf in src/src/snprintf.c: one conversion     *)
(* after the other is written to a buffer whose remaining room, an         *)
(* unsigned word, is counted down.  A conversion is a record of what its   *)
(* letters say, text is a sequence of characters.  %n, which nothing uses, *)
(* is left out; the length modifiers change nothing in 32 bits.            *)
(***************************************************************************)
EXTENDS Integers, SequencesExt, FiniteSetsExt

CONSTANTS
    Word,      \* bound: two to the number of bits of a word
    Items,     \* bound: the conversions and characters formats are made of
    Sizes,     \* bound: the sizes of the buffer
    MaxItems   \* bound: the length of a format

ASSUME WordAssumption == Word \in Nat \ {0, 1} /\ MaxItems \in Nat /\ Sizes \subseteq 0 .. Word - 1

VARIABLES
    size,      \* of the buffer
    text,      \* what was written, from buf up to str
    room,      \* the room left, as the code counts it
    items,     \* how many items were taken, or -1 when vsnprintf has returned
    skip,      \* the next character of the format is passed over
    right,     \* what the format means in C
    departed,  \* by a conversion that means something else here
    dropped,   \* a "string" or "number" that did not fit was left out, "no" if none was
    past       \* why the text can be past the buffer's end: "no", or the way it got there

formatVars == <<size, text, room, items, skip, right, departed, dropped, past>>

None == -1
Null == <<"NULL">> \* the string NULL points to
Negative == -2 \* a negative precision, which only an argument can give

\* A conversion without flags, width and precision
Plain(c, a) ==
    [conv |-> c, arg |-> a, left |-> FALSE, plus |-> FALSE, space |-> FALSE,
     special |-> FALSE, zero |-> FALSE, width |-> None, precision |-> None]

\* The conversion as the code goes on with it: a negative width, which only an
\* argument can give, means left; a negative precision means 0.
Parsed(it) ==
    LET w == IF it.width < None THEN [it EXCEPT !.width = -it.width, !.left = TRUE] ELSE it
        p == IF it.precision = Negative THEN [w EXCEPT !.precision = 0] ELSE w
    IN  IF p.conv = "p" /\ p.width = None
        THEN [p EXCEPT !.width = 10, !.zero = TRUE, !.special = TRUE] ELSE p

\* What a caller may pass: a signed or an unsigned word to a number, a string to %s, a
\* character to the rest.  Nothing but a percent sign stands between % and another one.
ASSUME ItemsAssumption ==
    \A it \in Items :
        /\ it \in [conv : {"d", "i", "u", "o", "x", "X", "p", "s", "c", "%", "text", "unknown"}, arg : {it.arg},
                   left : BOOLEAN, plus : BOOLEAN, space : BOOLEAN, special : BOOLEAN, zero : BOOLEAN,
                   width : Int, precision : Int]
        /\ it.precision >= Negative
        /\ it.conv \in {"d", "i"} => it.arg \in -(Word \div 2) .. Word \div 2 - 1
        /\ it.conv \in {"u", "o", "x", "X", "p"} => it.arg \in 0 .. Word - 1
        /\ it.conv = "s" => it.arg \in Seq(STRING)
        /\ it.conv \in {"c", "%", "text"} => it.arg \in STRING
        /\ it.conv \in {"%", "text"} => it = Plain(it.conv, it.arg)

Fill(c, n) == [i \in 1 .. n |-> c]
Pad(n) == Fill(" ", n)
First(n, seq) == SubSeq(seq, 1, Min({Len(seq), n}))
If(cond, seq) == IF cond THEN seq ELSE <<>>

Signed(it) == it.conv \in {"d", "i"}
Number(it) == it.conv \in {"d", "i", "u", "o", "x", "X", "p"}
Base(it) == CASE it.conv = "o" -> 8 [] it.conv \in {"x", "X", "p"} -> 16 [] OTHER -> 10

Digit(it, n) ==
    IF it.conv = "X" THEN <<"A", "B", "C", "D", "E", "F">>[n - 9]
    ELSE <<"a", "b", "c", "d", "e", "f">>[n - 9]

\* The digits of a natural number, the one of the highest power first
Digits(it, n) ==
    LET digit(m) == IF m < 10 THEN ToString(m) ELSE Digit(it, m)
        f[m \in 0 .. Word - 1] ==
            IF m < Base(it) THEN <<digit(m)>> ELSE Append(f[m \div Base(it)], digit(m % Base(it)))
    IN  f[n]

-----------------------------------------------------------------------------
(* Writing.  An outcome is the text written, the room left, and whether    *)
(* vsnprintf goes on to its end.                                           *)

Outcome(t, r, stop) == [text |-> t, room |-> r % Word, stop |-> stop]

\* Writing t with a test before every character for the last place of the
\* buffer.  No room at all is not that place: it wraps.
Put(r, t) ==
    IF 1 <= r /\ r <= Len(t) THEN Outcome(SubSeq(t, 1, r - 1), 0, TRUE)
    ELSE Outcome(t, r - Len(t), FALSE)

\* The text of number: pad, sign, prefix, zeros, digits, pad.  The one negative
\* number without a positive one reads its digits from before the table.
SignText(it) ==
    IF ~Signed(it) THEN <<>>
    ELSE IF it.arg < 0 THEN <<"-">> ELSE IF it.plus THEN <<"+">> ELSE If(it.space, <<" ">>)

DigitText(it) ==
    IF Signed(it) /\ it.arg = -(Word \div 2) THEN Fill("?", Len(Digits(it, Word \div 2)))
    ELSE Digits(it, IF it.arg < 0 THEN -it.arg ELSE it.arg)

PrefixText(it) ==
    If(it.special /\ Base(it) = 16, <<"0", "x">>) \o If(it.special /\ Base(it) = 8, <<"0">>)

\* Mutant: zeros fill a number also on its right.
Halves_ZerosLeft(it) ==
    LET digits == DigitText(it)
        length == Max({Len(digits), it.precision})
        pad == Max({0, it.width - Len(SignText(it)) - Len(PrefixText(it)) - length})
        zero == it.zero
    IN  << If(~zero /\ ~it.left, Pad(pad)) \o SignText(it),
           If(zero, Fill("0", pad)) \o Fill("0", length - Len(digits)) \o digits \o If(it.left, Pad(pad)) >>

\* The text before the prefix, and after it
Halves(it) ==
    LET digits == DigitText(it)
        length == Max({Len(digits), it.precision})
        pad == Max({0, it.width - Len(SignText(it)) - Len(PrefixText(it)) - length})
        zero == it.zero /\ ~it.left
    IN  << If(~zero /\ ~it.left, Pad(pad)) \o SignText(it),
           If(zero, Fill("0", pad)) \o Fill("0", length - Len(digits)) \o digits \o If(it.left, Pad(pad)) >>

\* number: the prefix of a hexadecimal number is written whole, or the number
\* ends before it.
PutNumber(r, it) ==
    LET first == Put(r, Halves(it)[1]) IN
    IF it.special /\ Base(it) = 16 /\ first.room <= 2 THEN first
    ELSE Put(r, Halves(it)[1] \o PrefixText(it) \o Halves(it)[2])

\* %c
CharText(it) ==
    LET pad == Pad(Max({0, it.width - 1})) IN If(~it.left, pad) \o <<it.arg>> \o If(it.left, pad)

\* The string of %s, as far as the precision goes; a precision of -1 is the
\* greatest word.
StringText(it) ==
    LET s == IF it.arg = Null THEN <<"<", "N", "U", "L", "L", ">">> ELSE it.arg
    IN  IF it.precision = None THEN s ELSE First(it.precision, s)

\* Mutant: the string is written as far as there is room, and one further.
PutString_OneMore(r, it) ==
    LET s == StringText(it) IN Outcome(First(r, s), r - Len(s), r <= Len(s))

\* %s: blanks on the left take up room but are all written to one place, where
\* the string goes then; a string that does not fit is left out whole; blanks
\* on the right are written before the room is tested.
PutString(r, it) ==
    LET s == StringText(it)
        pad == Max({0, it.width - Len(s)})
        begin == IF it.left THEN Outcome(<<>>, r, FALSE) ELSE Outcome(<<>>, r - pad, 1 <= r /\ r <= pad)
        rest == begin.room - Len(s)
    IN  IF begin.stop \/ rest <= 0 THEN Outcome(<<>>, begin.room, TRUE)
        ELSE IF it.left /\ pad >= rest THEN Outcome(s \o Pad(rest), 0, TRUE)
        ELSE Outcome(s \o If(it.left, Pad(pad)), IF it.left THEN rest - pad ELSE rest, FALSE)

\* One turn of the loop of vsnprintf, for the item it
Turned(r, it) ==
    CASE Number(it) -> LET o == PutNumber(r, it) IN [o EXCEPT !.stop = o.room = 1]
      [] it.conv = "s" -> PutString(r, it)
      [] it.conv = "c" -> Put(r, CharText(it))
      [] it.conv \in {"%", "text"} -> Put(r, <<it.arg>>)
      [] OTHER -> Outcome(<<>>, r, FALSE)

-----------------------------------------------------------------------------
(* What a conversion means in C. *)

SignOf(it) == IF Number(it) THEN SignText(it) \o PrefixText(it) ELSE <<>>

\* Without what fills the width
BodyOf(it) ==
    CASE Number(it) -> SignOf(it) \o Fill("0", Max({0, it.precision - Len(DigitText(it))})) \o DigitText(it)
      [] it.conv = "s" -> StringText(it)
      [] it.conv \in {"c", "%", "text"} -> <<it.arg>>
      [] OTHER -> <<>>

GapOf(it) == Max({0, it.width - Len(BodyOf(it))})

Meaning(it) ==
    IF it.left THEN BodyOf(it) \o Pad(GapOf(it))
    ELSE IF it.zero /\ Number(it)
    THEN SignOf(it) \o Fill("0", GapOf(it)) \o SubSeq(BodyOf(it), Len(SignOf(it)) + 1, Len(BodyOf(it)))
    ELSE Pad(GapOf(it)) \o BodyOf(it)

\* What is not as in C: a string is not padded on the left; zeros fill a number
\* also when it has a precision; zero has a digit also with the precision 0 and
\* a prefix, which is a small letter also for %X; an octal number has one zero
\* more also behind other zeros; a negative precision counts as 0; the least
\* number; and a letter that is no conversion.
Departs(it) ==
    LET p == Parsed(it) IN
    \/ it.conv = "s" /\ ~p.left /\ p.width > Len(StringText(p))
    \/ it.precision = Negative
    \/ Number(it) /\ p.conv # "p" /\ \/ p.zero /\ p.precision # None
                                     \/ p.arg = 0 /\ (p.precision = 0 \/ p.special)
                                     \/ p.special /\ (p.conv = "X" \/ (p.conv = "o" /\ p.precision # None))
                                     \/ Signed(p) /\ p.arg = -(Word \div 2)
    \/ it.conv = "unknown"

-----------------------------------------------------------------------------

FormatInit ==
    /\ size \in Sizes /\ room = size
    /\ text = <<>> /\ right = <<>> /\ items = IF size <= 1 THEN -1 ELSE 0
    /\ skip = FALSE /\ departed = FALSE /\ dropped = "no" /\ past = "no"

\* The format goes on with the item it.  After a letter that is no conversion a
\* character is passed over; in these formats it is text.  (A percent sign would be
\* passed over as well, and the rest of its conversion be text, snprintf.c:271-273.)
Take(it) ==
    LET p == Parsed(it)
        o == IF skip THEN Outcome(<<>>, room, FALSE) ELSE Turned(room, p)
    IN  /\ items \in 0 .. MaxItems - 1
        /\ skip => it.conv = "text"
        /\ text' = text \o o.text /\ room' = o.room
        /\ items' = IF o.stop THEN -1 ELSE items + 1
        /\ skip' = (it.conv = "unknown")
        /\ right' = right \o Meaning(p)
        /\ departed' = (departed \/ Departs(it))
        /\ dropped' = IF dropped # "no" \/ Len(o.text) >= Min({Len(Meaning(p)), room - 1}) THEN dropped
                      ELSE IF it.conv = "s" THEN "string" ELSE "number"
        /\ past' = IF room = 0 /\ ~skip THEN "number"
                   ELSE IF it.conv = "s" /\ p.left /\ Len(o.text) = room THEN "string" ELSE past
        /\ UNCHANGED size

\* The format ends.  Behind a letter that is no conversion this is not noticed.
Return ==
    /\ items >= 0 /\ ~skip
    /\ items' = -1
    /\ UNCHANGED <<size, text, room, skip, right, departed, dropped, past>>

FormatNext == (\E it \in Items : Take(it)) \/ Return

FormatSpec == FormatInit /\ [][FormatNext]_formatVars

-----------------------------------------------------------------------------
(* Properties. *)

\* The text and its final zero stay in the buffer, except in two cases: a number
\* was cut off at the end of the buffer and the format goes on; the blanks on
\* the right of a string fill the buffer.
InBuffer == size > 0 => Len(text) < size \/ past # "no"

\* What has been written is what the format means in C, cut off at the end of
\* the buffer or at a string that does not fit, but for the conversions that mean
\* something else here, and for what follows a number whose prefix does not fit.
MeansAsInC ==
    size > 1 /\ ~departed /\ past = "no" =>
        /\ dropped = "no" => text = First(size - 1, right)
        /\ dropped = "string" => IsPrefix(text, right)
=============================================================================
