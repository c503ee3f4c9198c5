----------------------------- MODULE DlistSystem -----------------------------
(***************************************************************************)
(* include/sys/dlist.h: the doubly linked list.  The list object is itself *)
(* a node of the ring, whose next is the list's head and whose prev is its *)
(* tail.  A program keeps its nodes in several lists, one operation at a   *)
(* time, and keeps the API's contract: a node is added when it is in no    *)
(* list, removed when it is in one.                                        *)
(***************************************************************************)
EXTENDS Naturals, Sequences, FiniteSets

CONSTANTS
  DNode,  \* the sys_dnode_t objects
  DList,  \* the sys_dlist_t objects
  DNULL  \* NULL

ASSUME DlistAssumption ==
  /\ DNode \intersect DList = {} /\ DNULL \notin DNode \union DList
  /\ IsFiniteSet(DNode)

VARIABLES
  dnode,  \* the next and prev of every node and list
  dlast   \* the last call: operation, list, arguments, result

dlistVars == <<dnode, dlast>>

Ring == DNode \union DList

-----------------------------------------------------------------------------
(* Queries.                                                                *)

sys_dnode_is_linked(n) == dnode[n].next # DNULL
sys_dlist_is_empty(l) == dnode[l].next = l
sys_dlist_peek_head(l) == IF sys_dlist_is_empty(l) THEN DNULL ELSE dnode[l].next
sys_dlist_peek_tail(l) == IF sys_dlist_is_empty(l) THEN DNULL ELSE dnode[l].prev
sys_dlist_peek_next(l, n) == IF n = dnode[l].prev THEN DNULL ELSE dnode[n].next
sys_dlist_peek_prev(l, n) == IF n = dnode[l].next THEN DNULL ELSE dnode[n].prev

\* The nodes that a loop meets which starts at first and goes on with step,
\* cut off where a ring without a shorter cycle would have ended.
Visit(first, step) ==
  LET from[k \in 0 .. Cardinality(DNode) + 1] ==
        [n \in Ring \union {DNULL} |->
           IF n = DNULL \/ k = 0 THEN << >> ELSE <<n>> \o from[k - 1][step[n]]]
  IN  from[Cardinality(DNode) + 1][first]

\* SYS_DLIST_FOR_EACH_NODE, and the same from the tail.
Forward(l) ==
  Visit(sys_dlist_peek_head(l), [n \in Ring |-> sys_dlist_peek_next(l, n)])
Backward(l) ==
  Visit(sys_dlist_peek_tail(l), [n \in Ring |-> sys_dlist_peek_prev(l, n)])

Listed(l) == {Forward(l)[i] : i \in 1 .. Len(Forward(l))}
Unlisted(n) == \A l \in DList : n \notin Listed(l)

-----------------------------------------------------------------------------
(* Operations: dnode after them.                                           *)

\* node is put between prev and next, which are neighbours.
Between(prev, node, next) ==
  [[dnode EXCEPT ![node] = [next |-> next, prev |-> prev]]
     EXCEPT ![prev].next = node, ![next].prev = node]

sys_dlist_append(l, n) == Between(dnode[l].prev, n, l)
sys_dlist_prepend(l, n) == Between(l, n, dnode[l].next)
sys_dlist_insert(successor, n) == Between(dnode[successor].prev, n, successor)

\* Mutant: the node goes behind the node that meets the condition.
dlist_insert_at_Behind(l, n, cond) ==
  LET w == Forward(l)
      met == {i \in 1 .. Len(w) : w[i] \in cond}
  IN  IF met = {} THEN sys_dlist_append(l, n)
      ELSE Between(w[CHOOSE i \in met : \A j \in met : i <= j], n,
                   dnode[w[CHOOSE i \in met : \A j \in met : i <= j]].next)

\* cond: the nodes for which the condition returns non-zero.
sys_dlist_insert_at(l, n, cond) ==
  LET w == Forward(l)
      met == {i \in 1 .. Len(w) : w[i] \in cond}
  IN  IF met = {} THEN sys_dlist_append(l, n)
      ELSE sys_dlist_insert(w[CHOOSE i \in met : \A j \in met : i <= j], n)

\* Mutant: the successor keeps its prev.
dlist_remove_OneWay(n) ==
  [dnode EXCEPT ![dnode[n].prev].next = dnode[n].next,
                ![n] = [next |-> DNULL, prev |-> DNULL]]

\* The neighbours first, which may be one object, then sys_dnode_init.
sys_dlist_remove(n) ==
  [[dnode EXCEPT ![dnode[n].prev].next = dnode[n].next]
     EXCEPT ![dnode[n].next].prev = dnode[n].prev,
            ![n] = [next |-> DNULL, prev |-> DNULL]]

-----------------------------------------------------------------------------
\* sys_dlist_init and sys_dnode_init.
DlistInit ==
  /\ dnode = [o \in Ring |-> IF o \in DList THEN [next |-> o, prev |-> o]
                             ELSE [next |-> DNULL, prev |-> DNULL]]
  /\ dlast = << >>

Add(call, n, after) ==
  /\ Unlisted(n)
  /\ dnode' = after
  /\ dlast' = call

DoRemove(n) ==
  /\ ~Unlisted(n)
  /\ dnode' = sys_dlist_remove(n)
  /\ dlast' = <<"remove", n>>

sys_dlist_get(l) ==
  /\ dlast' = <<"get", l, sys_dlist_peek_head(l)>>
  /\ dnode' = IF sys_dlist_is_empty(l) THEN dnode
              ELSE sys_dlist_remove(dnode[l].next)

DlistNext ==
  \/ \E n \in DNode :
       \/ DoRemove(n)
       \/ \E l \in DList :
            \/ Add(<<"append", l, n>>, n, sys_dlist_append(l, n))
            \/ Add(<<"prepend", l, n>>, n, sys_dlist_prepend(l, n))
            \/ \E successor \in Listed(l) :
                 Add(<<"insert_before", l, successor, n>>, n,
                     sys_dlist_insert(successor, n))
            \/ \E cond \in SUBSET DNode :
                 Add(<<"insert_at", l, n, cond>>, n,
                     sys_dlist_insert_at(l, n, cond))
  \/ \E l \in DList : sys_dlist_get(l)

DlistSpec == DlistInit /\ [][DlistNext]_dlistVars

-----------------------------------------------------------------------------
\* The nodes of every list in the order of a traversal.
Forwards == [l \in DList |-> Forward(l)]

AbstractDlist ==
  INSTANCE NodeLists WITH Node <- DNode, List <- DList, NULL <- DNULL,
                          seqs <- Forwards, last <- dlast

(***************************************************************************)
(* The ring implements sequences: every operation, from every list that    *)
(* operations can build, has the effect on the traversed order that its    *)
(* abstract counterpart has, and the same result (dlist.h:404-526).        *)
(***************************************************************************)
ImplementsDlists == AbstractDlist!DoublySpec

(***************************************************************************)
(* A traversal from the tail along prev meets the nodes of a traversal     *)
(* from the head along next, in the opposite order, and                    *)
(* sys_dnode_is_linked holds for the nodes that some list contains and for *)
(* no other, however a node has come into its list and left it             *)
(* (dlist.h:225-228, 404-504).                                             *)
(***************************************************************************)
BothWays ==
  /\ \A l \in DList :
       LET f == Forward(l)
           b == Backward(l)
       IN  /\ Len(f) = Len(b)
           /\ \A i \in 1 .. Len(f) : f[i] = b[Len(b) + 1 - i]
  /\ \A n \in DNode : sys_dnode_is_linked(n) <=> ~Unlisted(n)
=============================================================================
