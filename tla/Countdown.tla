----------------------------- MODULE Countdown ------------------------------
(***************************************************************************)
(* What src/src/timer.h promises of time-outs: one that is set for a tick  *)
(* count is put on its notice queue by the interrupt of exactly that tick, *)
(* neither before nor after, and is taken from the queue in that order.    *)
(***************************************************************************)
EXTENDS Integers, Sequences

CONSTANTS
    TimeOuts,  \* the TimeOut structures of the callers
    Ticks      \* how many ticks ahead a time-out can be

VARIABLES
    left,      \* the ticks until each time-out that is set
    notices    \* the notice queue

vars == <<left, notices>>

Init == left = [t \in {} |-> 0] /\ notices = <<>>

\* The time-outs set are the domain of left.
Set(t, n) ==
    /\ t \notin DOMAIN left
    /\ \A i \in 1 .. Len(notices) : notices[i] # t
    /\ left' = [u \in DOMAIN left \cup {t} |-> IF u = t THEN n ELSE left[u]]
    /\ UNCHANGED notices

\* Every time-out comes a tick closer, and those that are due are noticed.
Tick ==
    LET due == {t \in DOMAIN left : left[t] = 1}
    IN  /\ left' = [t \in DOMAIN left \ due |-> left[t] - 1]
        /\ \E new \in [1 .. Len(notices') - Len(notices) -> due] :
              /\ notices' = notices \o new
              /\ \A t \in due : \E i \in DOMAIN new : new[i] = t
              /\ \A i, j \in DOMAIN new : new[i] = new[j] => i = j

Take ==
    /\ notices # <<>>
    /\ notices' = Tail(notices)
    /\ UNCHANGED left

Next == (\E t \in TimeOuts, n \in Ticks : Set(t, n)) \/ Tick \/ Take

Spec == Init /\ [][Next]_vars
=============================================================================
