-------------------------------- MODULE Fifo --------------------------------
(***************************************************************************)
(* What a LinkedList promises the kernel: an ordered list of nodes, added  *)
(* at the back, taken at the front, or erased where they stand.            *)
(***************************************************************************)
EXTENDS NodeList

CONSTANT Nodes

VARIABLE list

Init == list = <<>>

PushBack(x) == ~In(x, list) /\ list' = Append(list, x)

PopFront == list # <<>> /\ list' = Tail(list)

EraseNode(x) == In(x, list) /\ list' = Erase(list, x)

Next == \/ \E x \in Nodes : PushBack(x) \/ EraseNode(x)
        \/ PopFront

Spec == Init /\ [][Next]_list
=============================================================================
