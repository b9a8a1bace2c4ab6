------------------------------- MODULE MCShell ------------------------------
(***************************************************************************)
(* The instance that TLC checks of the shell and what it starts, and of    *)
(* the parts of the kernel below it that share no state with one another.  *)
(* A behaviour is about one subject: the state space is the sum of those   *)
(* of the subjects, and each has bounds of its own.                        *)
(***************************************************************************)
EXTENDS Coshell, Format, Fpu, Exceptions

-----------------------------------------------------------------------------
(* Bounds. *)

\* The last moments of February, of a year, of noon, of midnight and of the hour
\* after noon, the ones after them, and years of both kinds.
Times ==
    { <<2023, 2, 28, 23, 59, 59>>, <<2023, 3, 1, 0, 0, 0>>, <<2023, 12, 31, 11, 59, 59>>,
      <<2023, 12, 31, 12, 0, 0>>, <<2023, 12, 31, 23, 59, 59>>, <<2024, 1, 1, 0, 0, 0>>,
      <<2024, 2, 29, 12, 59, 59>>, <<2024, 2, 29, 13, 0, 0>>, <<2025, 1, 31, 23, 59, 59>>,
      <<2025, 2, 1, 0, 0, 0>>, <<2025, 2, 1, 1, 0, 0>> }

\* The source's two maps, the first with the way to its targets shortened, and
\* both without the walls that no move gets to.
Map(floors, boxes, targets, man) ==
    [c \in Cells |-> IF c \in boxes THEN Box ELSE IF c \in targets THEN Target
                     ELSE IF c = man THEN Man ELSE IF c \in floors THEN Floor ELSE Wall]
Maps ==
    [n \in 0 .. 1 |->
        IF n = 0 THEN Map((2 .. 4) \X {1, 2, 4}, (2 .. 4) \X {3}, (2 .. 4) \X {5}, <<3, 2>>)
        ELSE Map({<<2, 4>>, <<4, 2>>, <<4, 3>>, <<4, 6>>, <<5, 5>>}, {<<3, 4>>, <<3, 6>>, <<4, 4>>, <<4, 5>>},
                 {<<1, 4>>, <<3, 7>>, <<4, 1>>, <<6, 5>>}, <<3, 5>>)]

\* Numbers with and without each flag, the least one, and each other conversion.
Conversions ==
    {[Plain("d", a) EXCEPT !.width = w, !.precision = p, !.zero = z] :
        a \in {0, 15}, w \in {None, 4, -3}, p \in {None, 3}, z \in BOOLEAN}
    \cup {[Plain("x", a) EXCEPT !.width = w, !.zero = z, !.special = TRUE] :
            a \in {0, 15}, w \in {None, 5}, z \in BOOLEAN}
    \cup {Plain("d", -16), [Plain("d", 7) EXCEPT !.plus = TRUE], [Plain("o", 9) EXCEPT !.special = TRUE],
          [Plain("d", 7) EXCEPT !.precision = Negative],
          Plain("unknown", 0), Plain("text", "a"), Plain("%", "%"), Plain("p", 10), Plain("s", Null),
          [Plain("c", "e") EXCEPT !.width = 3], [Plain("c", "e") EXCEPT !.width = -3]}
    \cup {[Plain("s", <<"b", "c">>) EXCEPT !.width = w, !.precision = p] : w \in {None, 4, -4}, p \in {None, 1}}

\* NULL is no parameter; nothing, the numbers on both sides of 2 and of 3000, the
\* shell's own id, the ids of two tasks, and a negative number.
Typed ==
    {[sign |-> s, digits |-> d] :
        s \in {"", "-"}, d \in {<<>>, <<2>>, <<3>>, <<1, 1>>, <<2, 2>>, <<3, 1>>, <<4, 0, 0, 0>>}}

-----------------------------------------------------------------------------

allVars == <<CoshellVars, formatVars, fpuVars, exceptionVars>>

Init ==
    /\ CoshellInit /\ FormatInit /\ FpuInit /\ ExceptionInit
    /\ subject # "format" => size = 0
    /\ pNow = CHOOSE s \in Slots : TRUE

Next ==
    \/ CoshellNext /\ UNCHANGED <<formatVars, fpuVars, exceptionVars>>
    \/ subject = "format" /\ FormatNext /\ UNCHANGED <<CoshellVars, fpuVars, exceptionVars>>
    \/ subject = "fpu" /\ FpuNext /\ UNCHANGED <<CoshellVars, formatVars, exceptionVars>>
    \/ subject = "interrupts" /\ ExceptionNext /\ UNCHANGED <<CoshellVars, formatVars, fpuVars>>

Spec == Init /\ [][Next]_allVars /\ MutexFairness
=============================================================================
