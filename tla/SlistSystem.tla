----------------------------- MODULE SlistSystem -----------------------------
(***************************************************************************)
(* A program that keeps its nodes in several lists with the operations of  *)
(* SlistOps, one operation at a time.  It keeps the API's contract: a node *)
(* is added when it is in no list, and prev is a node of the list.         *)
(***************************************************************************)
EXTENDS SlistOps

CONSTANT List  \* the sys_slist_t objects

VARIABLES
  heads, tails,  \* the head and tail of every list
  next,          \* the next of every node
  last           \* the last call: operation, list, arguments, result

slistVars == <<heads, tails, next, last>>

L(l) == [head |-> heads[l], tail |-> tails[l], next |-> next]

\* SYS_SLIST_STATIC_INIT; static nodes are zero.
SlistInit ==
  /\ heads = [l \in List |-> NULL] /\ tails = [l \in List |-> NULL]
  /\ next = [n \in Node |-> NULL] /\ last = << >>

Becomes(l, m) ==
  /\ heads' = [heads EXCEPT ![l] = m.head]
  /\ tails' = [tails EXCEPT ![l] = m.tail]
  /\ next' = m.next

Free(n) == \A l \in List : n \notin Nodes(L(l))

DoAppend(l, n) ==
  /\ Free(n)
  /\ Becomes(l, sys_slist_append(L(l), n))
  /\ last' = <<"append", l, n>>

DoPrepend(l, n) ==
  /\ Free(n)
  /\ Becomes(l, sys_slist_prepend(L(l), n))
  /\ last' = <<"prepend", l, n>>

DoInsert(l, prev, n) ==
  /\ Free(n)
  /\ Becomes(l, sys_slist_insert(L(l), prev, n))
  /\ last' = <<"insert", l, prev, n>>

sys_slist_get(l) ==
  IF sys_slist_is_empty(L(l))
  THEN last' = <<"get", l, NULL>> /\ UNCHANGED <<heads, tails, next>>
  ELSE /\ last' = <<"get", l, heads[l]>>
       /\ Becomes(l, sys_slist_get_not_empty(L(l)))

\* Searching a list for a node of another list would be refused too.
DoFindAndRemove(l, n) ==
  /\ Free(n) \/ n \in Nodes(L(l))
  /\ Becomes(l, sys_slist_find_and_remove(L(l), n))
  /\ last' = <<"find_and_remove", l, n, n \in Nodes(L(l))>>

\* append_list of the other list's nodes, then its sys_slist_init.
sys_slist_merge_slist(l, k) ==
  LET m == sys_slist_append_list(L(l), heads[k], tails[k])
  IN  /\ l # k
      /\ heads' = [heads EXCEPT ![l] = m.head, ![k] = NULL]
      /\ tails' = [tails EXCEPT ![l] = m.tail, ![k] = NULL]
      /\ next' = m.next
      /\ last' = <<"merge", l, k>>

SlistNext ==
  \E l \in List :
    \/ \E n \in Node :
         \/ DoAppend(l, n) \/ DoPrepend(l, n) \/ DoFindAndRemove(l, n)
         \/ \E prev \in Nodes(L(l)) : DoInsert(l, prev, n)
    \/ sys_slist_get(l)
    \/ \E k \in List : sys_slist_merge_slist(l, k)

SlistSpec == SlistInit /\ [][SlistNext]_slistVars

-----------------------------------------------------------------------------
\* The nodes of every list in the order of a traversal.
Walks == [l \in List |-> Walk(L(l))]

AbstractSlist == INSTANCE NodeLists WITH seqs <- Walks

(***************************************************************************)
(* The pointers implement sequences: every operation, from every list that *)
(* operations can build and whatever stale next pointers nodes outside the *)
(* lists keep, has the effect on the traversed order that its abstract     *)
(* counterpart has, and the same result (list_gen.h:80-235).               *)
(***************************************************************************)
ImplementsLists == AbstractSlist!SinglySpec

(***************************************************************************)
(* The tail pointer is the last node that a traversal meets, and NULL with *)
(* the head: an append in constant time loses nothing (list_gen.h:95-111). *)
(***************************************************************************)
TailIsLast ==
  \A l \in List : LET w == Walk(L(l))
                  IN  tails[l] = IF w = << >> THEN NULL ELSE w[Len(w)]
=============================================================================
