------------------------------ MODULE NodeLists ------------------------------
(***************************************************************************)
(* What the APIs of singly and doubly linked lists promise: a list is a    *)
(* sequence of nodes, a node is in at most one list, and an operation      *)
(* changes no other list.                                                  *)
(***************************************************************************)
EXTENDS Naturals, Sequences

CONSTANTS Node, NULL, List

VARIABLES
  seqs,  \* the nodes of each list
  last   \* the last call: operation, list, arguments, result

vars == <<seqs, last>>

Elems(s) == {s[i] : i \in 1 .. Len(s)}
Free(n) == \A l \in List : n \notin Elems(seqs[l])

Init == seqs = [l \in List |-> << >>] /\ last = << >>

\* Each action begins with the call it stands for.
Append1(l, n) ==
  /\ last' = <<"append", l, n>>
  /\ Free(n)
  /\ seqs' = [seqs EXCEPT ![l] = Append(@, n)]

Prepend(l, n) ==
  /\ last' = <<"prepend", l, n>>
  /\ Free(n)
  /\ seqs' = [seqs EXCEPT ![l] = <<n>> \o @]

\* n becomes the node behind the first i of the list.
Insert(l, i, n) ==
  /\ Free(n)
  /\ seqs' = [seqs EXCEPT ![l] = SubSeq(@, 1, i) \o <<n>>
                                   \o SubSeq(@, i + 1, Len(@))]

InsertAfter(l, prev, n) ==
  /\ last' = <<"insert", l, prev, n>>
  /\ \E i \in 1 .. Len(seqs[l]) : seqs[l][i] = prev /\ Insert(l, i, n)

InsertBefore(l, successor, n) ==
  /\ last' = <<"insert_before", l, successor, n>>
  /\ \E i \in 1 .. Len(seqs[l]) : seqs[l][i] = successor /\ Insert(l, i - 1, n)

\* Behind the longest prefix whose nodes do not meet the condition.
InsertAt(l, n, cond) ==
  /\ last' = <<"insert_at", l, n, cond>>
  /\ \E i \in 0 .. Len(seqs[l]) :
       /\ \A j \in 1 .. i : seqs[l][j] \notin cond
       /\ i < Len(seqs[l]) => seqs[l][i + 1] \in cond
       /\ Insert(l, i, n)

Get(l, result) ==
  /\ last' = <<"get", l, result>>
  /\ IF seqs[l] = << >>
     THEN result = NULL /\ UNCHANGED seqs
     ELSE result = Head(seqs[l]) /\ seqs' = [seqs EXCEPT ![l] = Tail(@)]

\* The list loses the node that was at some position.
Delete(l, n) ==
  \E i \in 1 .. Len(seqs[l]) :
    /\ seqs[l][i] = n
    /\ seqs' = [seqs EXCEPT ![l] = SubSeq(@, 1, i - 1)
                                     \o SubSeq(@, i + 1, Len(@))]

Remove(l, n) ==
  /\ last' = <<"remove", n>>
  /\ Delete(l, n)

FindAndRemove(l, n, found) ==
  /\ last' = <<"find_and_remove", l, n, found>>
  /\ IF found THEN Delete(l, n) ELSE Free(n) /\ UNCHANGED seqs

Merge(l, k) ==
  /\ last' = <<"merge", l, k>>
  /\ l # k
  /\ seqs' = [seqs EXCEPT ![l] = seqs[l] \o seqs[k], ![k] = << >>]

\* What both kinds of list have, and what only one of them has.
Common(l) ==
  \/ \E n \in Node : Append1(l, n) \/ Prepend(l, n)
  \/ \E result \in Node \union {NULL} : Get(l, result)

Singly(l) ==
  \/ \E n \in Node, found \in BOOLEAN : FindAndRemove(l, n, found)
  \/ \E n, prev \in Node : InsertAfter(l, prev, n)
  \/ \E k \in List : Merge(l, k)

Doubly(l) ==
  \/ \E n \in Node : Remove(l, n)
  \/ \E n, successor \in Node : InsertBefore(l, successor, n)
  \/ \E n \in Node, cond \in SUBSET Node : InsertAt(l, n, cond)

SinglySpec == Init /\ [][\E l \in List : Common(l) \/ Singly(l)]_vars
DoublySpec == Init /\ [][\E l \in List : Common(l) \/ Doubly(l)]_vars
=============================================================================
