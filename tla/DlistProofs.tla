---------------------------- MODULE DlistProofs ----------------------------
(***************************************************************************)
(* Proofs about DlistSystem, for every finite set of nodes and every set   *)
(* of lists: the ring implements sequences, and both directions and        *)
(* sys_dnode_is_linked agree with them.  What a traversal meets and what   *)
(* sequences with a node more or less are is taken from SequenceLemmas.    *)
(***************************************************************************)
EXTENDS DlistSystem, SequenceLemmas

DPtr == Ring \cup {DNULL}
Link == [next : DPtr, prev : DPtr]
Steps == Cardinality(DNode) + 1

-----------------------------------------------------------------------------
(* Traversals of one ring.                                                 *)

\* Visit is a value of the function that a traversal defines.
LEMMA VisitIs ==
  ASSUME NEW st, \A n \in DPtr : n # DNULL => st[n] \in DPtr, NEW first
  PROVE  \E f : Fn(f, st, Steps, DPtr, DNULL) /\ Visit(first, st) = f[Steps][first]
<1> DEFINE fr == CHOOSE f : Fn(f, st, Steps, DPtr, DNULL)
<1>1. Steps \in Nat
  BY FS_CardinalityType, DlistAssumption DEF Steps
<1>2. Fn(fr, st, Steps, DPtr, DNULL)
  BY <1>1, FromExists
<1>3. Visit(first, st) = fr[Steps][first]
  BY Zenon DEF Visit, Fn, Steps, DPtr
<1>4. QED BY <1>2, <1>3

\* A visit that starts at the first of distinct nodes and is led from each to
\* the next meets them.
LEMMA VisitOf ==
  ASSUME NEW st, \A n \in DPtr : n # DNULL => st[n] \in DPtr,
         NEW s \in Seq(DNode), Distinct(s),
         \A i \in 1 .. Len(s) : st[s[i]] = OrEnd(s, i + 1, DNULL)
  PROVE  Visit(OrEnd(s, 1, DNULL), st) = s
<1> DEFINE first == OrEnd(s, 1, DNULL)
<1>1. PICK f : /\ Fn(f, st, Steps, DPtr, DNULL)
               /\ Visit(first, st) = f[Steps][first]
  BY VisitIs
<1>2. Steps \in Nat /\ Len(s) =< Steps
  BY DistinctShort, DlistAssumption DEF Steps
<1>3. DNULL \in DPtr /\ DPtr \ {DNULL} = Ring /\ DNode \subseteq Ring
  BY DlistAssumption DEF DPtr, Ring
<1>4. s \in Seq(Ring)
  <2>1. s \in [1 .. Len(s) -> Ring] /\ Len(s) \in Nat
    BY <1>3
  <2>2. QED BY <2>1
<1>5. Chain(s, st, Steps, DPtr, DNULL)
  BY <1>2, <1>3, <1>4 DEF Chain
<1>6. QED BY <1>1, <1>5, TraversalIs

\* The nodes of s form a ring with the list object l, in both directions.
Chained(s, l, dn) ==
  \A i \in 0 .. Len(s) :
    /\ dn[OrEnd(s, i, l)].next = OrEnd(s, i + 1, l)
    /\ dn[OrEnd(s, i + 1, l)].prev = OrEnd(s, i, l)

InRing(s, l, dn) == s \in Seq(DNode) /\ Distinct(s) /\ Chained(s, l, dn)

\* The positions of a ring.
LEMMA Positions ==
  ASSUME NEW s \in Seq(DNode), NEW l \in DList, Distinct(s)
  PROVE  /\ Len(s) \in Nat
         /\ \A i \in 1 .. Len(s) : /\ OrEnd(s, i, l) = s[i] /\ s[i] \in DNode
                                   /\ s[i] \in Ring /\ s[i] # l /\ s[i] # DNULL
         /\ l \in Ring /\ l # DNULL
         /\ OrEnd(s, 0, l) = l /\ OrEnd(s, Len(s) + 1, l) = l
         /\ \A i \in Int : OrEnd(s, i, l) \in Ring /\ OrEnd(s, i, l) # DNULL
         /\ \A i, j \in 0 .. Len(s) : OrEnd(s, i, l) = OrEnd(s, j, l) => i = j
         /\ \A i, j \in 1 .. Len(s) + 1 : OrEnd(s, i, l) = OrEnd(s, j, l) => i = j
<1> DEFINE m == Len(s)
<1>1. m \in Nat
  OBVIOUS
<1>2. \A i \in 1 .. m : /\ s[i] \in DNode /\ s[i] \in Ring
                        /\ s[i] # l /\ s[i] # DNULL
  BY DlistAssumption DEF Ring
<1>3. l \in Ring /\ l # DNULL
  BY DlistAssumption DEF Ring
<1>4. \A i \in Int : OrEnd(s, i, l) = IF i \in 1 .. m THEN s[i] ELSE l
  BY DEF OrEnd
<1>5. \A i, j \in 1 .. m : s[i] = s[j] => i = j
  BY DEF Distinct
<1> HIDE DEF m
<1>6. \A i, j \in 0 .. m : OrEnd(s, i, l) = OrEnd(s, j, l) => i = j
  BY <1>1, <1>2, <1>4, <1>5
<1>7. \A i, j \in 1 .. m + 1 : OrEnd(s, i, l) = OrEnd(s, j, l) => i = j
  BY <1>1, <1>2, <1>4, <1>5
<1>8. OrEnd(s, 0, l) = l /\ OrEnd(s, m + 1, l) = l
  BY <1>1, <1>4
<1>9. \A i \in 1 .. m : OrEnd(s, i, l) = s[i]
  BY <1>1, <1>4
<1>10. \A i \in Int : OrEnd(s, i, l) \in Ring /\ OrEnd(s, i, l) # DNULL
  BY <1>2, <1>3, <1>4
<1>11. QED BY <1>1, <1>2, <1>3, <1>6, <1>7, <1>8, <1>9, <1>10 DEF m

\* Both traversals of the list l over the links dn.
HeadOf(dn, l) == IF dn[l].next = l THEN DNULL ELSE dn[l].next
TailOf(dn, l) == IF dn[l].next = l THEN DNULL ELSE dn[l].prev
NextIn(dn, l) == [n \in Ring |-> IF n = dn[l].prev THEN DNULL ELSE dn[n].next]
PrevIn(dn, l) == [n \in Ring |-> IF n = dn[l].next THEN DNULL ELSE dn[n].prev]
Reversed(s) == [i \in 1 .. Len(s) |-> s[Len(s) + 1 - i]]

\* From the head along next.
LEMMA ForwardOf ==
  ASSUME NEW dn \in [Ring -> Link], NEW l \in DList, NEW s, InRing(s, l, dn)
  PROVE  Visit(HeadOf(dn, l), NextIn(dn, l)) = s
<1> DEFINE m == Len(s)
           R(i) == OrEnd(s, i, l)
           st == NextIn(dn, l)
<1>1. s \in Seq(DNode) /\ Distinct(s)
  BY DEF InRing
<1>2. \A i \in 0 .. m : dn[R(i)].next = R(i + 1) /\ dn[R(i + 1)].prev = R(i)
  BY DEF InRing, Chained
<1>3. /\ m \in Nat
      /\ \A i \in 1 .. m : /\ R(i) = s[i] /\ s[i] \in Ring /\ s[i] # l
      /\ l \in Ring
      /\ R(0) = l /\ R(m + 1) = l
      /\ \A i, j \in 0 .. m : R(i) = R(j) => i = j
  BY <1>1, Positions
<1>4. \A i \in Int : OrEnd(s, i, DNULL) = IF i \in 1 .. m THEN s[i] ELSE DNULL
  BY DEF OrEnd
<1>5. \A n \in DPtr : n # DNULL => st[n] \in DPtr
  BY DEF NextIn, DPtr, Link
<1> HIDE DEF m, R
<1>6. dn[l].next = R(1) /\ dn[l].prev = R(m)
  BY <1>2, <1>3
<1>7. HeadOf(dn, l) = OrEnd(s, 1, DNULL)
  BY <1>3, <1>4, <1>6 DEF HeadOf
<1>8. ASSUME NEW i \in 1 .. m PROVE st[s[i]] = OrEnd(s, i + 1, DNULL)
  <2>1. st[s[i]] = IF s[i] = R(m) THEN DNULL ELSE dn[s[i]].next
    BY <1>3, <1>6 DEF NextIn
  <2>2. s[i] = R(m) <=> i = m
    BY <1>3
  <2>3. dn[s[i]].next = R(i + 1)
    BY <1>2, <1>3
  <2>4. QED BY <1>3, <1>4, <2>1, <2>2, <2>3
<1> HIDE DEF st
<1>9. \A i \in 1 .. Len(s) : st[s[i]] = OrEnd(s, i + 1, DNULL)
  BY <1>8 DEF m
<1>10. Visit(OrEnd(s, 1, DNULL), st) = s
  BY <1>1, <1>5, <1>9, VisitOf
<1>11. QED BY <1>7, <1>10 DEF st

\* From the tail along prev.
LEMMA BackwardOf ==
  ASSUME NEW dn \in [Ring -> Link], NEW l \in DList, NEW s, InRing(s, l, dn)
  PROVE  Visit(TailOf(dn, l), PrevIn(dn, l)) = Reversed(s)
<1> DEFINE m == Len(s)
           R(i) == OrEnd(s, i, l)
           st == PrevIn(dn, l)
           v == Reversed(s)
<1>1. s \in Seq(DNode) /\ Distinct(s)
  BY DEF InRing
<1>2. \A i \in 0 .. m : dn[R(i)].next = R(i + 1) /\ dn[R(i + 1)].prev = R(i)
  BY DEF InRing, Chained
<1>3. /\ m \in Nat
      /\ \A i \in 1 .. m : /\ R(i) = s[i] /\ s[i] \in Ring /\ s[i] # l
                           /\ s[i] \in DNode
      /\ l \in Ring
      /\ R(0) = l /\ R(m + 1) = l
      /\ \A i, j \in 0 .. m : R(i) = R(j) => i = j
  BY <1>1, Positions
<1>4. v \in Seq(DNode) /\ Len(v) = m /\ \A i \in 1 .. m : v[i] = s[m + 1 - i]
  <2>1. \A i \in 1 .. m : m + 1 - i \in 1 .. m
    BY <1>3
  <2>2. v \in [1 .. m -> DNode]
    BY <1>3, <2>1 DEF Reversed
  <2>3. QED BY <1>3, <2>2 DEF Reversed
<1> HIDE DEF v
<1>5. Distinct(v)
  <2> SUFFICES ASSUME NEW i \in 1 .. m, NEW j \in 1 .. m, v[i] = v[j]
               PROVE  i = j
    BY <1>4 DEF Distinct
  <2>1. m + 1 - i \in 1 .. m /\ m + 1 - j \in 1 .. m /\ s[m + 1 - i] = s[m + 1 - j]
    BY <1>3, <1>4
  <2>2. m + 1 - i = m + 1 - j
    BY <1>1, <2>1 DEF Distinct
  <2>3. QED BY <1>3, <2>2
<1>6. \A i \in Int : OrEnd(v, i, DNULL) = IF i \in 1 .. m THEN v[i] ELSE DNULL
  BY <1>4 DEF OrEnd
<1>7. \A n \in DPtr : n # DNULL => st[n] \in DPtr
  BY DEF PrevIn, DPtr, Link
<1> HIDE DEF m, R
<1>8. dn[l].next = R(1) /\ dn[l].prev = R(m)
  BY <1>2, <1>3
<1>9. TailOf(dn, l) = OrEnd(v, 1, DNULL)
  <2>1. CASE m = 0
    BY <1>3, <1>6, <1>8, <2>1 DEF TailOf
  <2>2. CASE m # 0
    <3>1. 1 \in 1 .. m /\ m \in 1 .. m /\ m + 1 - 1 = m
      BY <1>3, <2>2
    <3>2. R(1) # l /\ R(m) = s[m] /\ v[1] = s[m]
      BY <1>3, <1>4, <3>1
    <3>3. QED BY <1>6, <1>8, <3>1, <3>2 DEF TailOf
  <2>3. QED BY <2>1, <2>2
<1>10. ASSUME NEW i \in 1 .. m PROVE st[v[i]] = OrEnd(v, i + 1, DNULL)
  <2> DEFINE k == m + 1 - i
  <2>1. k \in 1 .. m /\ v[i] = s[k] /\ k - 1 \in 0 .. m /\ (k - 1) + 1 = k
    BY <1>3, <1>4
  <2>2. st[s[k]] = IF s[k] = R(1) THEN DNULL ELSE dn[s[k]].prev
    BY <1>3, <1>8, <2>1 DEF PrevIn
  <2>3. s[k] = R(1) <=> k = 1
    BY <1>3, <2>1
  <2>4. dn[s[k]].prev = R(k - 1)
    BY <1>2, <1>3, <2>1
  <2>5. CASE k = 1
    BY <1>3, <1>6, <2>1, <2>2, <2>3, <2>5
  <2>6. CASE k # 1
    <3>1. k - 1 \in 1 .. m /\ i + 1 \in 1 .. m /\ m + 1 - (i + 1) = k - 1
      BY <1>3, <2>1, <2>6
    <3>2. R(k - 1) = s[k - 1] /\ v[i + 1] = s[k - 1]
      BY <1>3, <1>4, <3>1
    <3>3. QED BY <1>6, <2>1, <2>2, <2>3, <2>4, <2>6, <3>1, <3>2
  <2>7. QED BY <2>5, <2>6
<1> HIDE DEF st
<1>11. \A i \in 1 .. Len(v) : st[v[i]] = OrEnd(v, i + 1, DNULL)
  BY <1>4, <1>10
<1>12. Visit(OrEnd(v, 1, DNULL), st) = v
  BY <1>4, <1>5, <1>7, <1>11, VisitOf
<1>13. QED BY <1>9, <1>12 DEF st, v

-----------------------------------------------------------------------------
(* What the operations do to one ring.                                     *)

\* The list l with the nodes s becomes the list with the nodes s2, the nodes
\* that are no longer in it are not linked, and nothing but the nodes of s, l
\* and n is touched.
Turns(s, s2, l, dn2, n) ==
  /\ InRing(s2, l, dn2) /\ dn2 \in [Ring -> Link]
  /\ \A o \in Ring : o \notin Elements(s) \cup {l, n} => dn2[o] = dnode[o]
  /\ Elements(s2) \subseteq Elements(s) \cup {n}
  /\ \A o \in Elements(s) \cup {n} : o \notin Elements(s2) => dn2[o].next = DNULL

\* Between puts the node behind the i-th position.
LEMMA BetweenTurns ==
  ASSUME dnode \in [Ring -> Link], NEW l \in DList, NEW s, InRing(s, l, dnode),
         NEW i \in 0 .. Len(s), NEW n \in DNode, n \notin Elements(s)
  PROVE  Turns(s, Inserted(s, i, n), l,
               Between(OrEnd(s, i, l), n, OrEnd(s, i + 1, l)), n)
<1> DEFINE m == Len(s)
           R(j) == OrEnd(s, j, l)
           p == R(i)
           x == R(i + 1)
           v == Inserted(s, i, n)
           V(j) == OrEnd(v, j, l)
           dn2 == Between(p, n, x)
<1>1. s \in Seq(DNode) /\ Distinct(s) /\ i \in 0 .. m
  BY DEF InRing
<1>2. \A j \in 0 .. m : dnode[R(j)].next = R(j + 1) /\ dnode[R(j + 1)].prev = R(j)
  BY DEF InRing, Chained
<1>3. /\ m \in Nat
      /\ \A j \in 1 .. m : R(j) = s[j]
      /\ R(0) = l /\ R(m + 1) = l
      /\ \A j \in Int : R(j) \in Ring
      /\ \A j, k \in 0 .. m : R(j) = R(k) => j = k
      /\ \A j, k \in 1 .. m + 1 : R(j) = R(k) => j = k
  BY <1>1, Positions
<1>4. n \in Ring /\ n # l /\ n # DNULL
  BY DlistAssumption DEF Ring
<1>5. \A j \in 0 .. m + 1 : R(j) # n
  <2>1. \A j \in 1 .. m : s[j] # n
    BY DEF Elements
  <2> HIDE DEF m, R
  <2>2. \A j \in 0 .. m + 1 : j = 0 \/ j = m + 1 \/ j \in 1 .. m
    BY <1>3
  <2>3. QED BY <1>3, <1>4, <2>1, <2>2
<1>6. \A j \in Int : V(j) = IF j =< i THEN R(j) ELSE IF j = i + 1 THEN n ELSE R(j - 1)
  BY <1>1, InsertedOr
<1>7. v \in Seq(DNode)
  BY <1>1, InsertedIs, Zenon
<1>8. Len(v) = m + 1
  BY <1>1, InsertedIs
<1>9. Distinct(v)
  <2>1. \A j \in 1 .. Len(s) : s[j] # n
    BY DEF Elements
  <2>2. QED BY <1>1, <2>1, InsertedDistinct
<1>10. Elements(v) = Elements(s) \cup {n}
  BY <1>1, InsertedElements
<1>11. p \in Ring /\ x \in Ring /\ p # n /\ x # n
  <2> HIDE DEF R, m
  <2>1. i \in 0 .. m + 1 /\ i + 1 \in 0 .. m + 1 /\ i \in Int /\ i + 1 \in Int
    BY <1>1, <1>3
  <2>2. QED BY <1>3, <1>5, <2>1
<1> HIDE DEF R, p, x, v, m
<1>12. /\ dn2 \in [Ring -> Link]
       /\ \A o \in Ring :
            /\ dn2[o].next = IF o = p THEN n ELSE IF o = n THEN x ELSE dnode[o].next
            /\ dn2[o].prev = IF o = x THEN n ELSE IF o = n THEN p ELSE dnode[o].prev
       /\ \A o \in Ring : o # p /\ o # x /\ o # n => dn2[o] = dnode[o]
  <2> DEFINE d1 == [dnode EXCEPT ![n] = [next |-> x, prev |-> p]]
             d2 == [d1 EXCEPT ![p].next = n]
  <2>1. n \in DPtr /\ x \in DPtr /\ p \in DPtr
    BY <1>4, <1>11 DEF DPtr
  <2>2. [next |-> x, prev |-> p] \in Link
    BY <2>1 DEF Link
  <2>3. /\ d1 \in [Ring -> Link] /\ d1[n] = [next |-> x, prev |-> p]
        /\ \A o \in Ring : o # n => d1[o] = dnode[o]
    BY <1>4, <2>2
  <2> HIDE DEF d1
  <2>4. /\ d2 \in [Ring -> Link] /\ d2[p] = [d1[p] EXCEPT !.next = n]
        /\ \A o \in Ring : o # p => d2[o] = d1[o]
    BY <1>11, <2>1, <2>3 DEF Link
  <2> HIDE DEF d2
  <2>5. dn2 = [d2 EXCEPT ![x].prev = n]
    BY DEF Between, d1, d2
  <2>6. /\ dn2 \in [Ring -> Link] /\ dn2[x] = [d2[x] EXCEPT !.prev = n]
        /\ \A o \in Ring : o # x => dn2[o] = d2[o]
    BY <1>11, <2>1, <2>4, <2>5 DEF Link
  <2> HIDE DEF dn2
  <2>7. \A o \in Ring : o # p /\ o # x /\ o # n => dn2[o] = dnode[o]
    BY <2>3, <2>4, <2>6
  <2>8. \A o \in Ring : d2[o].next = IF o = p THEN n ELSE d1[o].next
    BY <2>3, <2>4 DEF Link
  <2>9. \A o \in Ring : d2[o].prev = d1[o].prev
    BY <2>3, <2>4 DEF Link
  <2>10. \A o \in Ring : dn2[o].next = d2[o].next
    BY <2>4, <2>6 DEF Link
  <2>11. \A o \in Ring : dn2[o].prev = IF o = x THEN n ELSE d2[o].prev
    BY <2>4, <2>6 DEF Link
  <2>12. d1[n].next = x /\ d1[n].prev = p
    BY <2>3
  <2>13. \A o \in Ring : dn2[o].next = IF o = p THEN n ELSE IF o = n THEN x
                                       ELSE dnode[o].next
    BY <1>4, <2>3, <2>8, <2>10, <2>12
  <2>14. \A o \in Ring : dn2[o].prev = IF o = x THEN n ELSE IF o = n THEN p
                                       ELSE dnode[o].prev
    BY <1>4, <2>3, <2>9, <2>11, <2>12
  <2>15. QED BY <2>6, <2>7, <2>13, <2>14
<1> HIDE DEF dn2
<1>13. Chained(v, l, dn2)
  <2> SUFFICES ASSUME NEW j \in 0 .. m + 1
               PROVE  dn2[V(j)].next = V(j + 1) /\ dn2[V(j + 1)].prev = V(j)
    BY <1>8 DEF Chained
  <2> HIDE DEF V
  <2>0. j \in Int /\ j + 1 \in Int /\ i \in Int /\ m \in Nat /\ i \in 0 .. m
    BY <1>1, <1>3
  <2>1. CASE j < i
    <3>1. V(j) = R(j) /\ V(j + 1) = R(j + 1)
      BY <1>6, <2>0, <2>1
    <3>2. j \in 0 .. m /\ j + 1 \in 1 .. m + 1 /\ i + 1 \in 1 .. m + 1
          /\ j \in 0 .. m + 1 /\ j + 1 \in 0 .. m + 1
      BY <2>0, <2>1
    <3>3. R(j) # p /\ R(j) # n /\ R(j + 1) # x /\ R(j + 1) # n
      BY <1>3, <1>5, <2>0, <2>1, <3>2 DEF p, x
    <3>4. R(j) \in Ring /\ R(j + 1) \in Ring
      BY <1>3, <2>0
    <3>5. QED BY <1>2, <1>12, <3>1, <3>2, <3>3, <3>4
  <2>2. CASE j = i
    <3>1. V(j) = p /\ V(j + 1) = n
      BY <1>6, <2>0, <2>2 DEF p
    <3>2. QED BY <1>4, <1>11, <1>12, <3>1
  <2>3. CASE j = i + 1
    <3>1. V(j) = n /\ V(j + 1) = x
      BY <1>6, <2>0, <2>3 DEF x
    <3>2. QED BY <1>4, <1>11, <1>12, <3>1
  <2>4. CASE j > i + 1
    <3>1. V(j) = R(j - 1) /\ V(j + 1) = R(j)
      BY <1>6, <2>0, <2>4
    <3>2. j - 1 \in 0 .. m /\ j \in 1 .. m + 1 /\ i + 1 \in 1 .. m + 1
          /\ j - 1 \in 0 .. m + 1 /\ j \in 0 .. m + 1 /\ (j - 1) + 1 = j
      BY <2>0, <2>4
    <3>3. R(j - 1) # p /\ R(j - 1) # n /\ R(j) # x /\ R(j) # n
      BY <1>3, <1>5, <2>0, <2>4, <3>2 DEF p, x
    <3>4. R(j - 1) \in Ring /\ R(j) \in Ring
      BY <1>3, <2>0, <3>2
    <3>5. dnode[R(j - 1)].next = R(j) /\ dnode[R(j)].prev = R(j - 1)
      BY <1>2, <3>2
    <3>6. QED BY <1>12, <3>1, <3>3, <3>4, <3>5
  <2>5. QED BY <2>0, <2>1, <2>2, <2>3, <2>4
<1>14. InRing(v, l, dn2)
  BY <1>7, <1>9, <1>13 DEF InRing
<1>15. \A o \in Ring : o \notin Elements(s) \cup {l, n} => dn2[o] = dnode[o]
  <2>1. \A j \in 0 .. m + 1 : R(j) \in Elements(s) \cup {l}
    <3>1. \A j \in 1 .. m : s[j] \in Elements(s)
      BY DEF Elements, m
    <3>2. \A j \in 0 .. m + 1 : j = 0 \/ j = m + 1 \/ j \in 1 .. m
      BY <1>3
    <3>3. QED BY <1>3, <3>1, <3>2
  <2>2. p \in Elements(s) \cup {l} /\ x \in Elements(s) \cup {l}
    <3>1. i \in 0 .. m + 1 /\ i + 1 \in 0 .. m + 1
      BY <1>1, <1>3
    <3>2. QED BY <2>1, <3>1 DEF p, x
  <2>3. QED BY <1>12, <2>2
<1>16. Turns(s, v, l, dn2, n)
  BY <1>10, <1>12, <1>14, <1>15 DEF Turns
<1>17. QED BY <1>16 DEF v, dn2, p, x, R

\* sys_dlist_remove takes the i-th node out of its ring.
LEMMA RemoveTurns ==
  ASSUME dnode \in [Ring -> Link], NEW l \in DList, NEW s, InRing(s, l, dnode),
         NEW i \in 1 .. Len(s)
  PROVE  Turns(s, Removed(s, i), l, sys_dlist_remove(s[i]), s[i])
<1> DEFINE m == Len(s)
           R(j) == OrEnd(s, j, l)
           n == s[i]
           p == R(i - 1)
           x == R(i + 1)
           v == Removed(s, i)
           V(j) == OrEnd(v, j, l)
           dn2 == sys_dlist_remove(n)
<1>1. s \in Seq(DNode) /\ Distinct(s) /\ i \in 1 .. m
  BY DEF InRing
<1>2. \A j \in 0 .. m : dnode[R(j)].next = R(j + 1) /\ dnode[R(j + 1)].prev = R(j)
  BY DEF InRing, Chained
<1>3. /\ m \in Nat
      /\ \A j \in 1 .. m : R(j) = s[j]
      /\ R(0) = l /\ R(m + 1) = l
      /\ \A j \in Int : R(j) \in Ring
      /\ \A j, k \in 0 .. m : R(j) = R(k) => j = k
      /\ \A j, k \in 1 .. m + 1 : R(j) = R(k) => j = k
  BY <1>1, Positions
<1>6. \A j \in Int : V(j) = IF j < i THEN R(j) ELSE R(j + 1)
  BY <1>1, RemovedOr
<1>7. v \in Seq(DNode)
  BY <1>1, RemovedIs, Zenon
<1>8. Len(v) = m - 1
  BY <1>1, RemovedIs
<1>9. Distinct(v)
  BY <1>1, RemovedDistinct
<1>10. Elements(v) = Elements(s) \ {n}
  BY <1>1, RemovedElements
<1> HIDE DEF R, v, m
<1>4. n = R(i) /\ n \in Ring /\ p \in Ring /\ x \in Ring /\ p # n /\ x # n
  <2>1. i - 1 \in Int /\ i \in Int /\ i + 1 \in Int /\ i - 1 \in 0 .. m /\ i \in 0 .. m
        /\ i \in 1 .. m + 1 /\ i + 1 \in 1 .. m + 1 /\ i - 1 # i /\ i + 1 # i
    BY <1>1, <1>3
  <2>2. n = R(i)
    BY <1>1, <1>3
  <2>3. QED BY <1>3, <2>1, <2>2
<1>5. dnode[n].next = x /\ dnode[n].prev = p
  <2>1. i \in 0 .. m /\ i - 1 \in 0 .. m /\ (i - 1) + 1 = i
    BY <1>1, <1>3
  <2>2. dnode[R(i)].next = R(i + 1) /\ dnode[R((i - 1) + 1)].prev = R(i - 1)
    BY <1>2, <2>1
  <2>3. QED BY <1>4, <2>1, <2>2
<1> HIDE DEF n, p, x
<1>12. /\ dn2 \in [Ring -> Link]
       /\ \A o \in Ring : o # n =>
            /\ dn2[o].next = IF o = p THEN x ELSE dnode[o].next
            /\ dn2[o].prev = IF o = x THEN p ELSE dnode[o].prev
       /\ dn2[n].next = DNULL
       /\ \A o \in Ring : o # p /\ o # x /\ o # n => dn2[o] = dnode[o]
  <2> DEFINE null == [next |-> DNULL, prev |-> DNULL]
             d1 == [dnode EXCEPT ![p].next = x]
             d2 == [d1 EXCEPT ![x].prev = p]
  <2>1. DNULL \in DPtr /\ x \in DPtr /\ p \in DPtr
    BY <1>4 DEF DPtr
  <2>2. null \in Link /\ null.next = DNULL
    BY <2>1 DEF Link
  <2>3. /\ d1 \in [Ring -> Link] /\ d1[p] = [dnode[p] EXCEPT !.next = x]
        /\ \A o \in Ring : o # p => d1[o] = dnode[o]
    BY <1>4, <2>1 DEF Link
  <2> HIDE DEF d1
  <2>4. /\ d2 \in [Ring -> Link] /\ d2[x] = [d1[x] EXCEPT !.prev = p]
        /\ \A o \in Ring : o # x => d2[o] = d1[o]
    BY <1>4, <2>1, <2>3 DEF Link
  <2> HIDE DEF d2
  <2>5. dn2 = [d2 EXCEPT ![n] = null]
    BY <1>5 DEF sys_dlist_remove, d1, d2
  <2> HIDE DEF null
  <2>6. /\ dn2 \in [Ring -> Link] /\ dn2[n] = null
        /\ \A o \in Ring : o # n => dn2[o] = d2[o]
    BY <1>4, <2>2, <2>4, <2>5
  <2> HIDE DEF dn2
  <2>7. \A o \in Ring : o # p /\ o # x /\ o # n => dn2[o] = dnode[o]
    BY <2>3, <2>4, <2>6
  <2>8. \A o \in Ring : d1[o].next = IF o = p THEN x ELSE dnode[o].next
    BY <2>3 DEF Link
  <2>9. \A o \in Ring : d1[o].prev = dnode[o].prev
    BY <2>3 DEF Link
  <2>10. \A o \in Ring : d2[o].next = d1[o].next
    BY <2>3, <2>4 DEF Link
  <2>11. \A o \in Ring : d2[o].prev = IF o = x THEN p ELSE d1[o].prev
    BY <2>3, <2>4 DEF Link
  <2>12. \A o \in Ring : o # n => dn2[o].next = IF o = p THEN x ELSE dnode[o].next
    BY <2>6, <2>8, <2>10
  <2>13. \A o \in Ring : o # n => dn2[o].prev = IF o = x THEN p ELSE dnode[o].prev
    BY <2>6, <2>9, <2>11
  <2>14. QED BY <2>2, <2>6, <2>7, <2>12, <2>13
<1> HIDE DEF dn2
<1>13. Chained(v, l, dn2)
  <2> SUFFICES ASSUME NEW j \in 0 .. m - 1
               PROVE  dn2[V(j)].next = V(j + 1) /\ dn2[V(j + 1)].prev = V(j)
    BY <1>8 DEF Chained
  <2> HIDE DEF V
  <2>0. j \in Int /\ j + 1 \in Int /\ i \in Int /\ m \in Nat /\ i \in 1 .. m
    BY <1>1, <1>3
  <2>1. CASE j < i - 1
    <3>1. V(j) = R(j) /\ V(j + 1) = R(j + 1)
      BY <1>6, <2>0, <2>1
    <3>2. j \in 0 .. m /\ j + 1 \in 1 .. m + 1 /\ i + 1 \in 1 .. m + 1
          /\ i - 1 \in 0 .. m /\ i \in 0 .. m /\ i \in 1 .. m + 1
      BY <2>0, <2>1
    <3>3. R(j) # p /\ R(j) # n /\ R(j + 1) # x /\ R(j + 1) # n
      BY <1>3, <1>4, <2>0, <2>1, <3>2 DEF p, x
    <3>4. R(j) \in Ring /\ R(j + 1) \in Ring
      BY <1>3, <2>0
    <3>5. QED BY <1>2, <1>12, <3>1, <3>2, <3>3, <3>4
  <2>2. CASE j = i - 1
    <3>1. V(j) = p /\ V(j + 1) = x
      <4>1. j < i /\ ~(j + 1 < i) /\ (j + 1) + 1 = i + 1
        BY <2>0, <2>2
      <4>2. V(j) = R(j) /\ V(j + 1) = R((j + 1) + 1)
        BY <1>6, <2>0, <4>1
      <4>3. QED BY <2>2, <4>1, <4>2 DEF p, x
    <3>2. QED BY <1>4, <1>12, <3>1
  <2>3. CASE j > i - 1
    <3>1. V(j) = R(j + 1) /\ V(j + 1) = R(j + 2)
      BY <1>6, <2>0, <2>3
    <3>2. j + 1 \in 0 .. m /\ j + 2 \in 1 .. m + 1 /\ i + 1 \in 1 .. m + 1
          /\ i - 1 \in 0 .. m /\ i \in 0 .. m /\ i \in 1 .. m + 1 /\ j + 2 \in Int
          /\ (j + 1) + 1 = j + 2
      BY <2>0, <2>3
    <3>3. R(j + 1) # p /\ R(j + 1) # n /\ R(j + 2) # x /\ R(j + 2) # n
      BY <1>3, <1>4, <2>0, <2>3, <3>2 DEF p, x
    <3>4. R(j + 1) \in Ring /\ R(j + 2) \in Ring
      BY <1>3, <2>0, <3>2
    <3>5. dnode[R(j + 1)].next = R(j + 2) /\ dnode[R(j + 2)].prev = R(j + 1)
      BY <1>2, <3>2
    <3>6. QED BY <1>12, <3>1, <3>3, <3>4, <3>5
  <2>4. QED BY <2>0, <2>1, <2>2, <2>3
<1>14. InRing(v, l, dn2)
  BY <1>7, <1>9, <1>13 DEF InRing
<1>15. \A o \in Ring : o \notin Elements(s) \cup {l, n} => dn2[o] = dnode[o]
  <2>1. \A j \in 0 .. m + 1 : R(j) \in Elements(s) \cup {l}
    <3>1. \A j \in 1 .. m : s[j] \in Elements(s)
      BY DEF Elements, m
    <3>2. \A j \in 0 .. m + 1 : j = 0 \/ j = m + 1 \/ j \in 1 .. m
      BY <1>3
    <3>3. QED BY <1>3, <3>1, <3>2
  <2>2. p \in Elements(s) \cup {l} /\ x \in Elements(s) \cup {l}
    <3>1. i - 1 \in 0 .. m + 1 /\ i + 1 \in 0 .. m + 1
      BY <1>1, <1>3
    <3>2. QED BY <2>1, <3>1 DEF p, x
  <2>3. QED BY <1>12, <2>2
<1>16. Turns(s, v, l, dn2, n)
  <2>1. n \in Elements(s)
    BY <1>1 DEF Elements, n, m
  <2>2. QED BY <1>10, <1>12, <1>14, <1>15, <2>1 DEF Turns
<1>17. QED BY <1>16 DEF v, dn2, n

-----------------------------------------------------------------------------
(* All rings together.                                                     *)

\* The links are rings with the sequences sg, no node is in two, and a node
\* in none is not linked.
Rings(sg, dn) ==
  /\ sg \in [DList -> Seq(DNode)] /\ dn \in [Ring -> Link]
  /\ \A l \in DList : InRing(sg[l], l, dn)
  /\ \A l, k \in DList : l # k => Elements(sg[l]) \cap Elements(sg[k]) = {}
  /\ \A n \in DNode : (\A l \in DList : n \notin Elements(sg[l]))
                        => dn[n].next = DNULL

\* A ring whose links do not change stays.
LEMMA RingElsewhere ==
  ASSUME NEW l \in DList, NEW s, NEW dn, NEW dn2, InRing(s, l, dn),
         \A o \in Elements(s) \cup {l} : dn2[o] = dn[o]
  PROVE  InRing(s, l, dn2)
<1>1. \A i \in Int : OrEnd(s, i, l) \in Elements(s) \cup {l}
  BY DEF OrEnd, Elements
<1>2. \A i \in 0 .. Len(s) : i \in Int /\ i + 1 \in Int
  BY DEF InRing
<1>3. \A i \in 0 .. Len(s) : dn2[OrEnd(s, i, l)] = dn[OrEnd(s, i, l)]
                             /\ dn2[OrEnd(s, i + 1, l)] = dn[OrEnd(s, i + 1, l)]
  BY <1>1, <1>2
<1>4. Chained(s, l, dn2)
  BY <1>3 DEF InRing, Chained
<1>5. QED BY <1>4 DEF InRing

\* An operation on one ring leaves the others as they are.
LEMMA OneRingTurns ==
  ASSUME NEW sg, Rings(sg, dnode), NEW l \in DList, NEW n \in DNode,
         NEW s2, NEW dn2, Turns(sg[l], s2, l, dn2, n),
         \A k \in DList : k # l => n \notin Elements(sg[k])
  PROVE  Rings([sg EXCEPT ![l] = s2], dn2)
<1> DEFINE sg2 == [sg EXCEPT ![l] = s2]
<1>1. /\ sg \in [DList -> Seq(DNode)]
      /\ \A k \in DList : InRing(sg[k], k, dnode)
      /\ \A k, j \in DList : k # j => Elements(sg[k]) \cap Elements(sg[j]) = {}
      /\ \A o \in DNode : (\A k \in DList : o \notin Elements(sg[k]))
                            => dnode[o].next = DNULL
  BY DEF Rings
<1>2. /\ InRing(s2, l, dn2) /\ dn2 \in [Ring -> Link]
      /\ \A o \in Ring : o \notin Elements(sg[l]) \cup {l, n} => dn2[o] = dnode[o]
      /\ Elements(s2) \subseteq Elements(sg[l]) \cup {n}
      /\ \A o \in Elements(sg[l]) \cup {n} :
           o \notin Elements(s2) => dn2[o].next = DNULL
  BY DEF Turns
<1>3. s2 \in Seq(DNode)
  BY <1>2 DEF InRing
<1>4. /\ sg2 \in [DList -> Seq(DNode)] /\ sg2[l] = s2
      /\ \A k \in DList : k # l => sg2[k] = sg[k]
  BY <1>1, <1>3
<1> HIDE DEF sg2
<1>5. \A k \in DList : Elements(sg[k]) \subseteq DNode
  BY <1>1 DEF Elements
<1>6. DNode \subseteq Ring /\ DList \subseteq Ring /\ DNode \cap DList = {}
  BY DlistAssumption DEF Ring
<1>7. \A k \in DList : InRing(sg2[k], k, dn2)
  <2> SUFFICES ASSUME NEW k \in DList, k # l PROVE InRing(sg[k], k, dn2)
    BY <1>2, <1>4
  <2>1. Elements(sg[k]) \cap Elements(sg[l]) = {} /\ n \notin Elements(sg[k])
    BY <1>1
  <2>2. \A o \in Elements(sg[k]) \cup {k} : dn2[o] = dnode[o]
    BY <1>2, <1>5, <1>6, <2>1
  <2>3. InRing(sg[k], k, dnode)
    BY <1>1
  <2>4. QED BY <2>2, <2>3, RingElsewhere
<1>8. \A k, j \in DList : k # j => Elements(sg2[k]) \cap Elements(sg2[j]) = {}
  <2>1. \A k \in DList : k # l => Elements(s2) \cap Elements(sg[k]) = {}
    BY <1>1, <1>2
  <2>2. QED BY <1>1, <1>4, <2>1
<1>9. ASSUME NEW o \in DNode, \A k \in DList : o \notin Elements(sg2[k])
      PROVE  dn2[o].next = DNULL
  <2>1. o \notin Elements(s2) /\ \A k \in DList : k # l => o \notin Elements(sg[k])
    BY <1>4, <1>9
  <2>2. CASE o \in Elements(sg[l]) \cup {n}
    BY <1>2, <2>1, <2>2
  <2>3. CASE o \notin Elements(sg[l]) \cup {n}
    <3>1. dn2[o] = dnode[o]
      BY <1>2, <1>6, <2>3
    <3>2. dnode[o].next = DNULL
      BY <1>1, <2>1, <2>3
    <3>3. QED BY <3>1, <3>2
  <2>4. QED BY <2>2, <2>3
<1>10. Rings(sg2, dn2)
  BY <1>2, <1>4, <1>7, <1>8, <1>9 DEF Rings
<1>11. QED BY <1>10 DEF sg2

-----------------------------------------------------------------------------
(* The program with its lists.                                             *)

\* The rings hold the sequences that a traversal meets.
RingsInv == Rings(Forwards, dnode)

\* The sequences of the rings are the traversals.
LEMMA RingsAre ==
  ASSUME NEW sg, Rings(sg, dnode)
  PROVE  Forwards = sg
<1>1. ASSUME NEW l \in DList PROVE Forward(l) = sg[l]
  <2>1. Visit(HeadOf(dnode, l), NextIn(dnode, l)) = sg[l]
    BY ForwardOf DEF Rings
  <2>2. QED BY <2>1 DEF Forward, HeadOf, NextIn, sys_dlist_peek_head,
               sys_dlist_is_empty, sys_dlist_peek_next
<1>2. sg = [l \in DList |-> sg[l]]
  BY DEF Rings
<1>3. QED BY <1>1, <1>2 DEF Forwards

\* The same after a step.
LEMMA RingsAreThen ==
  ASSUME NEW sg, Rings(sg, dnode')
  PROVE  Forwards' = sg /\ RingsInv'
<1>1. ASSUME NEW l \in DList PROVE Forward(l)' = sg[l]
  <2>1. Visit(HeadOf(dnode', l), NextIn(dnode', l)) = sg[l]
    BY ForwardOf DEF Rings
  <2>2. QED BY <2>1 DEF Forward, HeadOf, NextIn, sys_dlist_peek_head,
               sys_dlist_is_empty, sys_dlist_peek_next, Visit
<1>2. sg = [l \in DList |-> sg[l]]
  BY DEF Rings
<1>3. Forwards' = [l \in DList |-> Forward(l)']
  BY DEF Forwards
<1>4. Forwards' = sg
  BY <1>1, <1>2, <1>3
<1>5. QED BY <1>4 DEF RingsInv

\* One list of the program, in the terms of the lemmas above.
LEMMA RingIs ==
  ASSUME RingsInv, NEW l \in DList
  PROVE  /\ Forward(l) = Forwards[l] /\ Listed(l) = Elements(Forwards[l])
         /\ InRing(Forwards[l], l, dnode) /\ dnode \in [Ring -> Link]
         /\ Forwards[l] \in Seq(DNode) /\ Distinct(Forwards[l])
<1>1. Forward(l) = Forwards[l]
  BY DEF Forwards
<1>2. Listed(l) = Elements(Forwards[l])
  BY <1>1 DEF Listed, Elements
<1>3. QED BY <1>1, <1>2 DEF RingsInv, Rings, InRing

\* A node that no traversal meets is in no list.
LEMMA UnlistedIs ==
  ASSUME RingsInv, NEW n \in DNode
  PROVE  /\ Unlisted(n) <=> \A k \in DList : n \notin Elements(Forwards[k])
         /\ Unlisted(n) => AbstractDlist!Free(n)
<1>1. Unlisted(n) <=> \A k \in DList : n \notin Elements(Forwards[k])
  BY RingIs DEF Unlisted
<1>2. QED BY <1>1 DEF AbstractDlist!Free, AbstractDlist!Elems, Elements

\* The two neighbours of the place behind the i-th position.
LEMMA Neighbours ==
  ASSUME RingsInv, NEW l \in DList, NEW i \in 0 .. Len(Forwards[l])
  PROVE  /\ dnode[OrEnd(Forwards[l], i, l)].next = OrEnd(Forwards[l], i + 1, l)
         /\ dnode[OrEnd(Forwards[l], i + 1, l)].prev = OrEnd(Forwards[l], i, l)
BY RingIs DEF InRing, Chained

\* A node is added behind the first i.
LEMMA Adds ==
  ASSUME RingsInv, NEW l \in DList, NEW i \in 0 .. Len(Forwards[l]),
         NEW n \in DNode, NEW call,
         Add(call, n, Between(OrEnd(Forwards[l], i, l), n,
                              OrEnd(Forwards[l], i + 1, l)))
  PROVE  /\ RingsInv' /\ AbstractDlist!Insert(l, i, n) /\ dlast' = call
         /\ AbstractDlist!Free(n)
         /\ Forwards' = [Forwards EXCEPT ![l] = Inserted(Forwards[l], i, n)]
<1> DEFINE s == Forwards[l]
           dn2 == Between(OrEnd(s, i, l), n, OrEnd(s, i + 1, l))
<1>1. Unlisted(n) /\ dnode' = dn2 /\ dlast' = call
  BY DEF Add
<1>2. (\A k \in DList : n \notin Elements(Forwards[k])) /\ AbstractDlist!Free(n)
  BY <1>1, UnlistedIs
<1>3. Turns(s, Inserted(s, i, n), l, dn2, n)
  BY <1>2, RingIs, BetweenTurns
<1> HIDE DEF dn2
<1>4. Rings([Forwards EXCEPT ![l] = Inserted(s, i, n)], dn2)
  BY <1>2, <1>3, OneRingTurns DEF RingsInv
<1>5. Rings([Forwards EXCEPT ![l] = Inserted(s, i, n)], dnode')
  BY <1>1, <1>4
<1>6. Forwards' = [Forwards EXCEPT ![l] = Inserted(s, i, n)] /\ RingsInv'
  BY <1>5, RingsAreThen
<1>7. AbstractDlist!Insert(l, i, n)
  BY <1>2, <1>6 DEF AbstractDlist!Insert, Inserted
<1>8. QED BY <1>1, <1>2, <1>6, <1>7

\* The i-th node of a list is removed.
LEMMA Removes ==
  ASSUME RingsInv, NEW l \in DList, NEW i \in 1 .. Len(Forwards[l]),
         dnode' = sys_dlist_remove(Forwards[l][i])
  PROVE  RingsInv' /\ Forwards' = [Forwards EXCEPT ![l] = Removed(Forwards[l], i)]
<1> DEFINE s == Forwards[l]
           n == s[i]
<1>1. Turns(s, Removed(s, i), l, sys_dlist_remove(n), n)
  BY RingIs, RemoveTurns
<1>2. n \in DNode /\ n \in Elements(s)
  BY RingIs DEF Elements
<1>3. \A k \in DList : k # l => n \notin Elements(Forwards[k])
  BY <1>2 DEF RingsInv, Rings
<1>4. Rings([Forwards EXCEPT ![l] = Removed(s, i)], dnode')
  BY <1>1, <1>2, <1>3, OneRingTurns DEF RingsInv
<1>5. QED BY <1>4, RingsAreThen

\* The invariant and the refinement, for an append.
LEMMA RingAppend ==
  ASSUME RingsInv, NEW l \in DList, NEW n \in DNode,
         Add(<<"append", l, n>>, n, sys_dlist_append(l, n))
  PROVE  RingsInv' /\ AbstractDlist!Append1(l, n)
<1> DEFINE s == Forwards[l]
           m == Len(s)
<1>1. s \in Seq(DNode) /\ Distinct(s)
  BY RingIs
<1>2. m \in 0 .. Len(s) /\ OrEnd(s, m + 1, l) = l
  BY <1>1, Positions
<1>3. dnode[l].prev = OrEnd(s, m, l)
  BY <1>2, Neighbours
<1>4. sys_dlist_append(l, n) = Between(OrEnd(s, m, l), n, OrEnd(s, m + 1, l))
  BY <1>2, <1>3 DEF sys_dlist_append
<1>5. /\ RingsInv' /\ dlast' = <<"append", l, n>> /\ AbstractDlist!Free(n)
      /\ Forwards' = [Forwards EXCEPT ![l] = Inserted(s, m, n)]
  <2>1. Add(<<"append", l, n>>, n, Between(OrEnd(s, m, l), n, OrEnd(s, m + 1, l)))
    BY <1>4
  <2>2. QED BY <1>2, <2>1, Adds
<1>6. Append(s, n) = Inserted(s, Len(s), n)
  BY <1>1, AppendIsInserted
<1>7. QED BY <1>5, <1>6 DEF AbstractDlist!Append1

\* The invariant and the refinement, for a prepend.
LEMMA RingPrepend ==
  ASSUME RingsInv, NEW l \in DList, NEW n \in DNode,
         Add(<<"prepend", l, n>>, n, sys_dlist_prepend(l, n))
  PROVE  RingsInv' /\ AbstractDlist!Prepend(l, n)
<1> DEFINE s == Forwards[l]
<1>1. s \in Seq(DNode) /\ Distinct(s)
  BY RingIs
<1>2. 0 \in 0 .. Len(s) /\ OrEnd(s, 0, l) = l
  BY <1>1, Positions
<1>3. dnode[l].next = OrEnd(s, 0 + 1, l)
  BY <1>2, Neighbours
<1>4. sys_dlist_prepend(l, n) = Between(OrEnd(s, 0, l), n, OrEnd(s, 0 + 1, l))
  BY <1>2, <1>3 DEF sys_dlist_prepend
<1>5. /\ RingsInv' /\ dlast' = <<"prepend", l, n>> /\ AbstractDlist!Free(n)
      /\ Forwards' = [Forwards EXCEPT ![l] = Inserted(s, 0, n)]
  <2>1. Add(<<"prepend", l, n>>, n, Between(OrEnd(s, 0, l), n, OrEnd(s, 0 + 1, l)))
    BY <1>4
  <2>2. QED BY <1>2, <2>1, Adds
<1>6. <<n>> \o s = Inserted(s, 0, n)
  BY <1>1, AppendIsInserted
<1>7. QED BY <1>5, <1>6 DEF AbstractDlist!Prepend

\* A node put before the i-th one is behind the first i - 1.
LEMMA BeforeIs ==
  ASSUME RingsInv, NEW l \in DList, NEW n, NEW i \in 1 .. Len(Forwards[l])
  PROVE  /\ i - 1 \in 0 .. Len(Forwards[l])
         /\ sys_dlist_insert(Forwards[l][i], n) =
              Between(OrEnd(Forwards[l], i - 1, l), n,
                      OrEnd(Forwards[l], (i - 1) + 1, l))
<1> DEFINE s == Forwards[l]
<1>1. s \in Seq(DNode) /\ Distinct(s)
  BY RingIs
<1>2. i - 1 \in 0 .. Len(s) /\ (i - 1) + 1 = i /\ OrEnd(s, i, l) = s[i]
  BY <1>1, Positions
<1>3. dnode[OrEnd(s, (i - 1) + 1, l)].prev = OrEnd(s, i - 1, l)
  BY <1>2, Neighbours
<1>4. QED BY <1>2, <1>3 DEF sys_dlist_insert

\* The invariant and the refinement, for an insert.
LEMMA RingInsert ==
  ASSUME RingsInv, NEW l \in DList, NEW n \in DNode, NEW successor \in Listed(l),
         Add(<<"insert_before", l, successor, n>>, n,
             sys_dlist_insert(successor, n))
  PROVE  /\ RingsInv' /\ successor \in DNode
         /\ AbstractDlist!InsertBefore(l, successor, n)
<1> DEFINE s == Forwards[l]
<1>1. PICK i \in 1 .. Len(s) : s[i] = successor
  BY RingIs DEF Elements
<1>2. /\ RingsInv' /\ dlast' = <<"insert_before", l, successor, n>>
      /\ AbstractDlist!Insert(l, i - 1, n)
  <2>1. /\ i - 1 \in 0 .. Len(s)
        /\ sys_dlist_insert(successor, n) =
             Between(OrEnd(s, i - 1, l), n, OrEnd(s, (i - 1) + 1, l))
    BY <1>1, BeforeIs
  <2>2. Add(<<"insert_before", l, successor, n>>, n,
            Between(OrEnd(s, i - 1, l), n, OrEnd(s, (i - 1) + 1, l)))
    BY <2>1
  <2>3. QED BY <2>1, <2>2, Adds
<1>3. successor \in DNode
  BY <1>1, RingIs
<1>4. QED BY <1>1, <1>2, <1>3 DEF AbstractDlist!InsertBefore

\* The invariant and the refinement, for an insert by a condition.
LEMMA RingInsertAt ==
  ASSUME RingsInv, NEW l \in DList, NEW n \in DNode, NEW cond \in SUBSET DNode,
         Add(<<"insert_at", l, n, cond>>, n, sys_dlist_insert_at(l, n, cond))
  PROVE  RingsInv' /\ AbstractDlist!InsertAt(l, n, cond)
<1> DEFINE s == Forwards[l]
           m == Len(s)
           w == Forward(l)
           met == {i \in 1 .. Len(w) : w[i] \in cond}
           c == CHOOSE i \in met : \A j \in met : i <= j
<1>1. s \in Seq(DNode) /\ Distinct(s) /\ w = s /\ m \in Nat
  BY RingIs
<1>2. sys_dlist_insert_at(l, n, cond) =
        IF met = {} THEN sys_dlist_append(l, n) ELSE sys_dlist_insert(w[c], n)
  BY DEF sys_dlist_insert_at
<1>3. CASE met = {}
  <2>1. m \in 0 .. Len(s) /\ OrEnd(s, m + 1, l) = l
    BY <1>1, Positions
  <2>2. dnode[l].prev = OrEnd(s, m, l)
    BY <2>1, Neighbours
  <2>3. sys_dlist_insert_at(l, n, cond) =
          Between(OrEnd(s, m, l), n, OrEnd(s, m + 1, l))
    BY <1>2, <1>3, <2>1, <2>2 DEF sys_dlist_append
  <2>4. /\ RingsInv' /\ dlast' = <<"insert_at", l, n, cond>>
        /\ AbstractDlist!Insert(l, m, n)
    BY <2>1, <2>3, Adds
  <2>5. (\A j \in 1 .. m : s[j] \notin cond) /\ (m < Len(s) => s[m + 1] \in cond)
    BY <1>1, <1>3
  <2>6. QED BY <2>1, <2>4, <2>5 DEF AbstractDlist!InsertAt
<1>4. CASE met # {}
  <2>1. c \in met /\ \A j \in met : c <= j
    <3>1. met \in SUBSET Nat
      BY <1>1
    <3>2. \E x \in met : \A y \in met : x <= y
      BY <1>4, <3>1, LeastOf
    <3>3. QED BY <3>2, Zenon
  <2> HIDE DEF c
  <2>2. c \in 1 .. m /\ s[c] \in cond
    BY <1>1, <2>1
  <2>3. /\ RingsInv' /\ dlast' = <<"insert_at", l, n, cond>>
        /\ AbstractDlist!Insert(l, c - 1, n)
    <3>1. /\ c - 1 \in 0 .. Len(s)
          /\ sys_dlist_insert(s[c], n) =
               Between(OrEnd(s, c - 1, l), n, OrEnd(s, (c - 1) + 1, l))
      BY <2>2, BeforeIs
    <3>2. sys_dlist_insert_at(l, n, cond) = sys_dlist_insert(s[c], n)
      BY <1>1, <1>2, <1>4
    <3>3. Add(<<"insert_at", l, n, cond>>, n,
              Between(OrEnd(s, c - 1, l), n, OrEnd(s, (c - 1) + 1, l)))
      BY <3>1, <3>2
    <3>4. QED BY <3>1, <3>3, Adds
  <2>4. c - 1 \in 0 .. m /\ (c - 1) + 1 = c
    BY <1>1, <2>2
  <2>5. \A j \in 1 .. c - 1 : s[j] \notin cond
    BY <1>1, <2>1, <2>2
  <2>6. QED BY <2>2, <2>3, <2>4, <2>5 DEF AbstractDlist!InsertAt
<1>5. QED BY <1>3, <1>4

\* The invariant and the refinement, for a remove.
LEMMA RingRemove ==
  ASSUME RingsInv, NEW n \in DNode, DoRemove(n)
  PROVE  RingsInv' /\ \E l \in DList : AbstractDlist!Remove(l, n)
<1>1. PICK l \in DList : n \in Elements(Forwards[l])
  BY UnlistedIs DEF DoRemove
<1>2. PICK i \in 1 .. Len(Forwards[l]) : Forwards[l][i] = n
  BY <1>1 DEF Elements
<1>3. RingsInv' /\ Forwards' = [Forwards EXCEPT ![l] = Removed(Forwards[l], i)]
  BY <1>2, Removes DEF DoRemove
<1>4. AbstractDlist!Delete(l, n)
  BY <1>2, <1>3 DEF AbstractDlist!Delete, Removed
<1>5. QED BY <1>3, <1>4 DEF AbstractDlist!Remove, DoRemove

\* The invariant and the refinement, for a get.
LEMMA RingGet ==
  ASSUME RingsInv, NEW l \in DList, sys_dlist_get(l)
  PROVE  /\ RingsInv'
         /\ \E result \in DNode \union {DNULL} : AbstractDlist!Get(l, result)
<1> DEFINE s == Forwards[l]
           m == Len(s)
<1>1. s \in Seq(DNode) /\ Distinct(s)
  BY RingIs
<1>2. /\ m \in Nat /\ OrEnd(s, m + 1, l) = l /\ OrEnd(s, 0, l) = l
      /\ \A i \in 1 .. m : OrEnd(s, i, l) = s[i] /\ s[i] \in DNode /\ s[i] # l
  BY <1>1, Positions
<1>3. dnode[l].next = OrEnd(s, 0 + 1, l)
  BY <1>2, Neighbours
<1>4. sys_dlist_is_empty(l) <=> m = 0
  BY <1>2, <1>3 DEF sys_dlist_is_empty
<1>5. CASE m = 0
  <2>1. dlast' = <<"get", l, DNULL>> /\ dnode' = dnode
    BY <1>4, <1>5 DEF sys_dlist_get, sys_dlist_peek_head
  <2>2. Forwards' = Forwards /\ RingsInv'
    BY <2>1, RingsAreThen DEF RingsInv
  <2>3. s = << >>
    BY <1>1, <1>5
  <2>4. AbstractDlist!Get(l, DNULL)
    BY <2>1, <2>2, <2>3 DEF AbstractDlist!Get
  <2>5. QED BY <2>2, <2>4
<1>6. CASE m # 0
  <2>1. 1 \in 1 .. m /\ dnode[l].next = s[1] /\ s[1] \in DNode
    BY <1>2, <1>3, <1>6
  <2>2. dlast' = <<"get", l, s[1]>> /\ dnode' = sys_dlist_remove(s[1])
    BY <1>4, <1>6, <2>1 DEF sys_dlist_get, sys_dlist_peek_head
  <2>3. RingsInv' /\ Forwards' = [Forwards EXCEPT ![l] = Removed(s, 1)]
    BY <2>1, <2>2, Removes
  <2>4. s # << >> /\ Head(s) = s[1] /\ Tail(s) = Removed(s, 1)
    <3>1. s \in Seq(DNode) /\ Len(s) # 0
      BY <1>1, <1>6
    <3> HIDE DEF s
    <3>2. Tail(s) = Removed(s, 1)
      BY <3>1, TailIsRemoved
    <3>3. s # << >>
      BY <3>1
    <3>4. QED BY <3>1, <3>2, <3>3
  <2>5. AbstractDlist!Get(l, s[1])
    BY <2>2, <2>3, <2>4 DEF AbstractDlist!Get
  <2>6. QED BY <2>1, <2>3, <2>5
<1>7. QED BY <1>5, <1>6

\* After sys_dlist_init and sys_dnode_init every ring is a list object alone.
LEMMA RingInit ==
  ASSUME DlistInit
  PROVE  RingsInv /\ AbstractDlist!Init
<1> DEFINE sg == [l \in DList |-> << >>]
<1>1. \A l \in DList : l \in Ring /\ dnode[l].next = l /\ dnode[l].prev = l
  BY DEF DlistInit, Ring
<1>2. ASSUME NEW l \in DList PROVE InRing(<< >>, l, dnode)
  BY <1>1 DEF InRing, Distinct, Chained, OrEnd
<1>3. Elements(<< >>) = {}
  BY DEF Elements
<1>4. dnode \in [Ring -> Link]
  BY DEF DlistInit, Link, DPtr
<1>5. \A n \in DNode : dnode[n].next = DNULL
  BY DlistAssumption DEF DlistInit, Ring
<1>6. sg \in [DList -> Seq(DNode)] /\ \A l \in DList : sg[l] = << >>
  OBVIOUS
<1> HIDE DEF sg
<1>7. Rings(sg, dnode)
  BY <1>2, <1>3, <1>4, <1>5, <1>6 DEF Rings
<1>8. Forwards = sg
  BY <1>7, RingsAre
<1>9. QED BY <1>7, <1>8 DEF RingsInv, AbstractDlist!Init, DlistInit, sg

\* The step of the sequences.
SequencesNext ==
  \E l \in DList : AbstractDlist!Common(l) \/ AbstractDlist!Doubly(l)

\* A step of the program is a step of the sequences.
LEMMA RingNext ==
  ASSUME RingsInv, [DlistNext]_dlistVars
  PROVE  RingsInv' /\ [SequencesNext]_(AbstractDlist!vars)
<1>1. ASSUME NEW n \in DNode, DoRemove(n)
      PROVE  RingsInv' /\ SequencesNext
  BY <1>1, RingRemove DEF SequencesNext, AbstractDlist!Doubly
<1>2. ASSUME NEW l \in DList, NEW n \in DNode,
             Add(<<"append", l, n>>, n, sys_dlist_append(l, n))
      PROVE  RingsInv' /\ SequencesNext
  BY <1>2, RingAppend DEF SequencesNext, AbstractDlist!Common
<1>3. ASSUME NEW l \in DList, NEW n \in DNode,
             Add(<<"prepend", l, n>>, n, sys_dlist_prepend(l, n))
      PROVE  RingsInv' /\ SequencesNext
  BY <1>3, RingPrepend DEF SequencesNext, AbstractDlist!Common
<1>4. ASSUME NEW l \in DList, NEW n \in DNode, NEW successor \in Listed(l),
             Add(<<"insert_before", l, successor, n>>, n,
                 sys_dlist_insert(successor, n))
      PROVE  RingsInv' /\ SequencesNext
  BY <1>4, RingInsert DEF SequencesNext, AbstractDlist!Doubly
<1>5. ASSUME NEW l \in DList, NEW n \in DNode, NEW cond \in SUBSET DNode,
             Add(<<"insert_at", l, n, cond>>, n, sys_dlist_insert_at(l, n, cond))
      PROVE  RingsInv' /\ SequencesNext
  BY <1>5, RingInsertAt DEF SequencesNext, AbstractDlist!Doubly
<1>6. ASSUME NEW l \in DList, sys_dlist_get(l)
      PROVE  RingsInv' /\ SequencesNext
  BY <1>6, RingGet DEF SequencesNext, AbstractDlist!Common
<1>7. CASE UNCHANGED dlistVars
  <2>1. dnode' = dnode /\ dlast' = dlast
    BY <1>7 DEF dlistVars
  <2>2. Forwards' = Forwards /\ RingsInv'
    BY <2>1, RingsAreThen DEF RingsInv
  <2>3. QED BY <2>1, <2>2 DEF AbstractDlist!vars
<1>8. CASE DlistNext
  BY <1>1, <1>2, <1>3, <1>4, <1>5, <1>6, <1>8, Zenon DEF DlistNext
<1>9. QED BY <1>7, <1>8

(***************************************************************************)
(* The ring of include/sys/dlist.h implements sequences (lines 404-526):   *)
(* for every finite set of nodes and every set of lists, each operation    *)
(* has on the traversed order the effect and the result of its abstract    *)
(* counterpart, the list object being a node of the ring like any other.   *)
(***************************************************************************)
THEOREM RingsAreSequences == DlistSpec => ImplementsDlists
<1>1. DlistInit => RingsInv /\ AbstractDlist!Init
  BY RingInit
<1>2. RingsInv /\ [DlistNext]_dlistVars =>
        RingsInv' /\ [SequencesNext]_(AbstractDlist!vars)
  BY RingNext
<1>3. QED
  BY <1>1, <1>2, PTL
     DEF DlistSpec, ImplementsDlists, AbstractDlist!DoublySpec, SequencesNext

(***************************************************************************)
(* After any calls a traversal along prev meets the nodes of a traversal   *)
(* along next in the opposite order, and sys_dnode_is_linked holds for the *)
(* nodes that some list contains and for no other (dlist.h:225-228,        *)
(* 404-504).                                                               *)
(***************************************************************************)
THEOREM RingsBothWays == DlistSpec => []BothWays
<1>1. DlistInit => RingsInv
  BY RingInit
<1>2. RingsInv /\ [DlistNext]_dlistVars => RingsInv'
  BY RingNext
<1>3. RingsInv => BothWays
  <2> SUFFICES ASSUME RingsInv PROVE BothWays
    OBVIOUS
  <2>1. ASSUME NEW l \in DList
        PROVE  LET f == Forward(l)
                   b == Backward(l)
               IN  /\ Len(f) = Len(b)
                   /\ \A i \in 1 .. Len(f) : f[i] = b[Len(b) + 1 - i]
    <3> DEFINE s == Forwards[l]
    <3>1. s \in Seq(DNode) /\ Forward(l) = s
      BY RingIs
    <3>2. Visit(TailOf(dnode, l), PrevIn(dnode, l)) = Reversed(s)
      BY RingIs, BackwardOf
    <3>3. Backward(l) = Reversed(s)
      BY <3>2 DEF Backward, TailOf, PrevIn, sys_dlist_peek_tail,
         sys_dlist_is_empty, sys_dlist_peek_prev
    <3> HIDE DEF s
    <3>4. Len(s) \in Nat /\ Len(Reversed(s)) = Len(s)
      BY <3>1 DEF Reversed
    <3>5. \A i \in 1 .. Len(s) : s[i] = Reversed(s)[Len(s) + 1 - i]
      BY <3>1, <3>4 DEF Reversed
    <3>6. QED BY <3>1, <3>3, <3>4, <3>5
  <2>2. ASSUME NEW n \in DNode PROVE sys_dnode_is_linked(n) <=> ~Unlisted(n)
    <3>1. CASE Unlisted(n)
      BY <3>1, UnlistedIs DEF sys_dnode_is_linked, RingsInv, Rings
    <3>2. CASE ~Unlisted(n)
      <4>1. PICK l \in DList : n \in Elements(Forwards[l])
        BY <3>2, UnlistedIs
      <4> DEFINE s == Forwards[l]
      <4>2. PICK i \in 1 .. Len(s) : s[i] = n
        BY <4>1 DEF Elements
      <4>3. s \in Seq(DNode) /\ Distinct(s)
        BY RingIs
      <4>4. i \in 0 .. Len(s) /\ i + 1 \in Int
        BY <4>3
      <4>5. OrEnd(s, i, l) = n /\ OrEnd(s, i + 1, l) # DNULL
        BY <4>2, <4>3, <4>4, Positions
      <4>6. dnode[n].next # DNULL
        BY <4>4, <4>5, Neighbours
      <4>7. QED BY <3>2, <4>6 DEF sys_dnode_is_linked
    <3>3. QED BY <3>1, <3>2
  <2>3. QED BY <2>1, <2>2 DEF BothWays
<1>4. QED BY <1>1, <1>2, <1>3, PTL DEF DlistSpec
=============================================================================
