----------------------------- MODULE ExitQueue ------------------------------
(***************************************************************************)
(* What the lock-free list of src/src/linkedlist.c promises to its one     *)
(* producer and one consumer: nodes come out in the order they went in,    *)
(* until a push lands while the only node is being taken.                  *)
(* Then "cut" is set: the head no longer leads to the nodes behind it, and *)
(* nothing is ever taken again.                                            *)
(***************************************************************************)
EXTENDS NodeList

CONSTANTS Nodes, NULL

VARIABLES
    queue,  \* the nodes pushed and not taken
    item,   \* the node being taken, or NULL
    phase,  \* "idle", "link" while a push can cut the list, or "taken"
    cut

vars == <<queue, item, phase, cut>>

Init == queue = <<>> /\ item = NULL /\ phase = "idle" /\ cut = FALSE

Push(x) ==
    /\ ~In(x, queue) /\ x # item
    /\ queue' = Append(queue, x)
    /\ UNCHANGED <<item, phase, cut>>

Take ==
    /\ phase = "idle" /\ queue # <<>> /\ ~cut
    /\ item' = Head(queue)
    /\ queue' = Tail(queue)
    /\ phase' = IF Tail(queue) = <<>> THEN "link" ELSE "taken"
    /\ UNCHANGED cut

Link ==
    /\ phase = "link"
    /\ cut' = (queue # <<>>)
    /\ phase' = "taken"
    /\ UNCHANGED <<queue, item>>

Done ==
    /\ phase = "taken"
    /\ item' = NULL
    /\ phase' = "idle"
    /\ UNCHANGED <<queue, cut>>

Next == (\E x \in Nodes : Push(x)) \/ Take \/ Link \/ Done

Spec == Init /\ [][Next]_vars
=============================================================================
