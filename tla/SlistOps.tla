------------------------------ MODULE SlistOps ------------------------------
(***************************************************************************)
(* include/sys/list_gen.h as instantiated by include/sys/slist.h: the      *)
(* singly linked list.  A list is the record of its head and tail, with    *)
(* the next pointers of all nodes; an operation maps it to the list after  *)
(* the operation.                                                          *)
(***************************************************************************)
EXTENDS Naturals, Sequences, FiniteSets

CONSTANTS
  Node,  \* the sys_snode_t objects of the program
  NULL

ASSUME NodeAssumption == NULL \notin Node /\ IsFiniteSet(Node)

Ptr == Node \union {NULL}

\* SYS_SLIST_FOR_EACH_NODE: the nodes in the order the loop meets them, cut
\* off where a list without cycle would have ended.
Walk(l) ==
  LET from[k \in 0 .. Cardinality(Node) + 1] ==
        [n \in Ptr |-> IF n = NULL \/ k = 0 THEN << >>
                       ELSE <<n>> \o from[k - 1][l.next[n]]]
  IN  from[Cardinality(Node) + 1][l.head]

Nodes(l) == {Walk(l)[i] : i \in 1 .. Len(Walk(l))}

NextSet(l, node, child) == [l EXCEPT !.next[node] = child]

sys_slist_is_empty(l) == l.head = NULL

sys_slist_prepend(l, node) ==
  [NextSet(l, node, l.head) EXCEPT !.head = node,
                                   !.tail = IF @ = NULL THEN node ELSE @]

sys_slist_append(l, node) ==
  LET m == NextSet(l, node, NULL)
  IN  IF l.tail = NULL THEN [m EXCEPT !.head = node, !.tail = node]
      ELSE [NextSet(m, l.tail, node) EXCEPT !.tail = node]

sys_slist_append_list(l, head, tail) ==
  IF head = NULL \/ tail = NULL THEN l
  ELSE IF l.tail = NULL THEN [l EXCEPT !.head = head, !.tail = tail]
  ELSE [NextSet(l, l.tail, head) EXCEPT !.tail = tail]

\* Mutant: the node goes behind the node after prev.
slist_insert_OneTooFar(l, prev, node) ==
  IF prev = NULL THEN sys_slist_prepend(l, node)
  ELSE IF l.next[prev] = NULL \/ l.next[prev] = l.tail
       THEN sys_slist_append(l, node)
  ELSE NextSet(NextSet(l, node, l.next[l.next[prev]]), l.next[prev], node)

sys_slist_insert(l, prev, node) ==
  IF prev = NULL THEN sys_slist_prepend(l, node)
  ELSE IF l.next[prev] = NULL THEN sys_slist_append(l, node)
  ELSE NextSet(NextSet(l, node, l.next[prev]), prev, node)

\* The node that is taken keeps its next pointer.
sys_slist_get_not_empty(l) ==
  [l EXCEPT !.head = l.next[l.head],
            !.tail = IF @ = l.head THEN l.next[l.head] ELSE @]

\* Mutant: the tail is not moved back.
slist_remove_KeepsTail(l, prev_node, node) ==
  LET unlinked ==
        IF prev_node = NULL THEN [l EXCEPT !.head = l.next[node]]
        ELSE NextSet(l, prev_node, l.next[node])
  IN  NextSet(unlinked, node, NULL)

sys_slist_remove(l, prev_node, node) ==
  LET unlinked ==
        IF prev_node = NULL
        THEN [l EXCEPT !.head = l.next[node],
                       !.tail = IF @ = node THEN l.next[node] ELSE @]
        ELSE [NextSet(l, prev_node, l.next[node]) EXCEPT
                       !.tail = IF @ = node THEN prev_node ELSE @]
  IN  NextSet(unlinked, node, NULL)

\* The node that the loop of find_and_remove met before node.
PrevOf(l, node) ==
  LET w == Walk(l)
      i == CHOOSE i \in 1 .. Len(w) :
             w[i] = node /\ \A j \in 1 .. i - 1 : w[j] # node
  IN  IF i = 1 THEN NULL ELSE w[i - 1]

sys_slist_find_and_remove(l, node) ==
  IF node \in Nodes(l) THEN sys_slist_remove(l, PrevOf(l, node), node) ELSE l
=============================================================================
