------------------------------ MODULE NodeList ------------------------------
(***************************************************************************)
(* A LinkedList of src/src/linkedlist.h as the sequence of its nodes from  *)
(* head to tail.  LinkedList.tla shows that the pointers implement it.     *)
(***************************************************************************)
EXTENDS Integers, Sequences

\* Node x is linked in s.
In(x, s) == \E i \in 1 .. Len(s) : s[i] = x

\* No node is linked twice.
Distinct(s) == \A i, j \in 1 .. Len(s) : s[i] = s[j] => i = j

\* ckLinkedListErase(pList, pNode): the neighbours of x are joined.
Erase(s, x) ==
    LET k == CHOOSE i \in 1 .. Len(s) : s[i] = x
    IN  IF In(x, s)
          THEN [i \in 1 .. Len(s) - 1 |-> IF i < k THEN s[i] ELSE s[i + 1]]
          ELSE s
=============================================================================
