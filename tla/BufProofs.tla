------------------------------ MODULE BufProofs ------------------------------
(***************************************************************************)
(* Proofs about Buf, for every size of the store, every set of bytes and   *)
(* any number of calls.                                                    *)
(***************************************************************************)
EXTENDS Buf, SequenceTheorems, TLAPS

(***************************************************************************)
(* The put functions of every width and order store as many bytes as the   *)
(* value has, each of them a byte of the value.                            *)
(***************************************************************************)
LEMMA PutType ==
  ASSUME NEW w \in Width, NEW e \in Order, NEW v \in [0 .. w - 1 -> Byte]
  PROVE  Put(e, w, v) \in Seq(Byte) /\ Len(Put(e, w, v)) = w
<1>1. CASE w = 1
  BY <1>1 DEF Put
<1>2. CASE w = 2
  BY <1>2 DEF Put, sys_put_le16, sys_put_be16
<1>3. CASE w = 3
  BY <1>3 DEF Put, sys_put_le16, sys_put_be16, sys_put_le24, sys_put_be24
<1>4. CASE w = 4
  BY <1>4 DEF Put, sys_put_le16, sys_put_be16, sys_put_le32, sys_put_be32
<1>6. CASE w = 6
  BY <1>6 DEF Put, sys_put_le16, sys_put_be16, sys_put_le32, sys_put_be32,
              sys_put_le48, sys_put_be48
<1>8. CASE w = 8
  BY <1>8 DEF Put, sys_put_le16, sys_put_be16, sys_put_le32, sys_put_be32,
              sys_put_le64, sys_put_be64
<1>9. QED
  BY <1>1, <1>2, <1>3, <1>4, <1>6, <1>8 DEF Width

(***************************************************************************)
(* A write of bytes leaves a store of bytes (Written).                     *)
(***************************************************************************)
LEMMA WrittenType ==
  ASSUME NEW p \in Nat, NEW s \in Seq(Byte), mem \in [0 .. Size - 1 -> Byte]
  PROVE  Written(p, s) \in [0 .. Size - 1 -> Byte]
BY SizeAssumption DEF Written

\* The inductive invariant: WithinStore needs no more than the types.
Inv == TypeOK /\ WithinStore

\* The first call finds a store that is empty or full.
LEMMA InitInv == Init => Inv
<1> SUFFICES ASSUME Init PROVE Inv
  OBVIOUS
<1>1. intact \in BOOLEAN
  BY Zenon DEF Init
<1>2. /\ mem \in [0 .. Size - 1 -> Byte] /\ data \in 0 .. Size
      /\ len \in 0 .. Size /\ data + len =< Size /\ calls \in 0 .. MaxCalls
  BY SizeAssumption, StoresAssumption, MaxCallsAssumption
     DEF Init, Empty, buf_simple_init_with_data
<1>3. saved = None
  BY DEF Init
<1>4. QED BY <1>1, <1>2, <1>3 DEF Inv, TypeOK, WithinStore

(***************************************************************************)
(* Adding and pushing keep the data in the store, by the assertions on     *)
(* tailroom and headroom.                                                  *)
(***************************************************************************)
LEMMA WriteInv ==
  ASSUME Inv, NEW s \in Seq(Byte), buf_simple_add(s) \/ buf_simple_push(s),
         calls' \in 0 .. MaxCalls
  PROVE  Inv'
<1> USE SizeAssumption DEF Inv, TypeOK, WithinStore, headroom, tailroom, tail
<1>1. CASE buf_simple_add(s)
  <2>1. mem' \in [0 .. Size - 1 -> Byte]
    <3>1. tail \in Nat /\ mem' = Written(tail, s)
      BY <1>1 DEF buf_simple_add
    <3>2. QED BY <3>1, WrittenType
  <2>2. len' \in 0 .. Size /\ data' + len' =< Size
    BY <1>1 DEF buf_simple_add
  <2>3. QED BY <1>1, <2>1, <2>2 DEF buf_simple_add
<1>2. CASE buf_simple_push(s)
  <2>1. mem' \in [0 .. Size - 1 -> Byte]
    <3>1. data - Len(s) \in Nat /\ mem' = Written(data - Len(s), s)
      BY <1>2 DEF buf_simple_push
    <3>2. QED BY <3>1, WrittenType
  <2>2. data' \in 0 .. Size /\ len' \in 0 .. Size /\ data' + len' =< Size
    BY <1>2 DEF buf_simple_push
  <2>3. QED BY <1>2, <2>1, <2>2 DEF buf_simple_push
<1>3. QED BY <1>1, <1>2

(***************************************************************************)
(* Every call keeps the invariant.                                         *)
(***************************************************************************)
LEMMA NextInv == Inv /\ [Next]_vars => Inv'
<1> SUFFICES ASSUME Inv, [Next]_vars PROVE Inv'
  OBVIOUS
<1>1. CASE UNCHANGED vars
  BY <1>1 DEF vars, Inv, TypeOK, WithinStore
<1>2. CASE Next
  <2>0. calls' \in 0 .. MaxCalls
    BY <1>2, MaxCallsAssumption DEF Next, Inv, TypeOK
  <2>1. ASSUME NEW w \in Width, NEW v \in Val(w), NEW e \in Order,
               AddValue(e, w, v) \/ PushValue(e, w, v)
        PROVE  Inv'
    <3>1. Put(e, w, v) \in Seq(Byte)
      BY PutType, ValAssumption
    <3>2. QED BY <2>0, <2>1, <3>1, WriteInv DEF AddValue, PushValue
  <2>2. ASSUME NEW w \in Width, NEW v \in Val(w),
               AddMem(w, v) \/ PushMem(w, v)
        PROVE  Inv'
    <3>1. [i \in 1 .. w |-> v[i - 1]] \in Seq(Byte)
      BY ValAssumption DEF Width
    <3>2. QED BY <2>0, <2>2, <3>1, WriteInv DEF AddMem, PushMem
  <2>3. ASSUME NEW w \in Width, RemoveValue(w) \/ PullValue(w)
        PROVE  Inv'
    BY <2>0, <2>3, SizeAssumption
       DEF RemoveValue, PullValue, buf_simple_remove_mem, buf_simple_pull,
           Width, Inv, TypeOK, WithinStore
  <2>4. ASSUME NEW r \in 0 .. Size, buf_simple_init(r)
        PROVE  Inv'
    BY <2>0, <2>4, SizeAssumption
       DEF buf_simple_init, Inv, TypeOK, WithinStore
  <2>5. CASE buf_simple_reset
    BY <2>0, <2>5, SizeAssumption
       DEF buf_simple_reset, Inv, TypeOK, WithinStore
  <2>6. CASE buf_simple_save \/ buf_simple_clone
    <3>1. intact' \in BOOLEAN
      BY <2>6, Zenon DEF buf_simple_save, buf_simple_clone
    <3>2. /\ saved' = [offset |-> data, len |-> len]
          /\ UNCHANGED <<mem, data, len>>
      BY <2>6 DEF buf_simple_save, buf_simple_clone, headroom
    <3>3. QED BY <2>0, <3>1, <3>2, SizeAssumption DEF Inv, TypeOK, WithinStore
  <2>7. CASE buf_simple_restore
    BY <2>0, <2>7, SizeAssumption
       DEF buf_simple_restore, Inv, TypeOK, WithinStore
  <2>8. QED
    BY <1>2, <2>1, <2>2, <2>3, <2>4, <2>5, <2>6, <2>7 DEF Next
<1>3. QED BY <1>1, <1>2

(***************************************************************************)
(* However a buffer is filled, parsed, saved and restored, its data and    *)
(* the data of a saved state lie within the store: the size_t differences  *)
(* of buf_simple_headroom and buf_simple_tailroom do not wrap.             *)
(***************************************************************************)
THEOREM StaysWithinStore == Spec => []WithinStore
<1>1. Inv => WithinStore
  BY DEF Inv
<1>2. QED BY <1>1, InitInv, NextInv, PTL DEF Spec
-----------------------------------------------------------------------------
(* The order of the bytes.                                                 *)

LEMMA PutIs ==
  ASSUME NEW w \in Width, NEW e \in Order, NEW v \in [0 .. w - 1 -> Byte]
  PROVE  \A i \in 1 .. w : Put(e, w, v)[i] = Encoded(e, w, v)[i]
<1>1. CASE w = 1
  BY <1>1 DEF Put, Encoded
<1>2. CASE w = 2
  BY <1>2 DEF Put, Encoded, sys_put_le16, sys_put_be16
<1>3. CASE w = 3
  BY <1>3 DEF Put, Encoded, sys_put_le16, sys_put_be16, sys_put_le24, sys_put_be24
<1>4. CASE w = 4
  BY <1>4 DEF Put, Encoded, sys_put_le16, sys_put_be16, sys_put_le32, sys_put_be32
<1>6. CASE w = 6
  BY <1>6 DEF Put, Encoded, sys_put_le16, sys_put_be16, sys_put_le32, sys_put_be32,
              sys_put_le48, sys_put_be48
<1>8. CASE w = 8
  BY <1>8 DEF Put, Encoded, sys_put_le16, sys_put_be16, sys_put_le32, sys_put_be32,
              sys_put_le64, sys_put_be64
<1>9. QED
  BY <1>1, <1>2, <1>3, <1>4, <1>6, <1>8 DEF Width

\* Adding as copying: the put functions store what their names promise.
LEMMA PutEncodes ==
  ASSUME NEW w \in Width, NEW e \in Order, NEW v \in [0 .. w - 1 -> Byte]
  PROVE  Put(e, w, v) = Encoded(e, w, v)
<1>1. Put(e, w, v) \in Seq(Byte) /\ Len(Put(e, w, v)) = w
  BY PutType
<1>2. Encoded(e, w, v) \in Seq(Byte) /\ Len(Encoded(e, w, v)) = w
  <2>1. w \in Nat
    BY DEF Width
  <2>2. Encoded(e, w, v) \in [1 .. w -> Byte]
    BY <2>1 DEF Encoded
  <2>3. QED BY <2>1, <2>2
<1>3. \A i \in 1 .. Len(Put(e, w, v)) : Put(e, w, v)[i] = Encoded(e, w, v)[i]
  BY <1>1, PutIs
<1>4. QED BY <1>1, <1>2, <1>3, SeqEqual

\* Decoding undoes encoding.
LEMMA DecodesEncoded ==
  ASSUME NEW w \in Width, NEW e \in Order, NEW v \in [0 .. w - 1 -> Byte]
  PROVE  Decoded(e, w, Encoded(e, w, v)) = v
<1>1. w \in Nat
  BY DEF Width
<1>2. \A i \in 0 .. w - 1 : Decoded(e, w, Encoded(e, w, v))[i] = v[i]
  BY <1>1 DEF Decoded, Encoded
<1>3. QED BY <1>1, <1>2 DEF Decoded

\* A load and its swap, as decoding.
LEMMA LoadDecodes ==
  ASSUME NEW w \in Width, NEW e \in Order, NEW p \in Int
  PROVE  ToCpu(e, w, Load(p, w)) = Decoded(e, w, View(p, w))
<1>1. w \in Nat
  BY DEF Width
<1>2. ASSUME NEW i \in 0 .. w - 1
      PROVE  View(p, w)[i + 1] = mem[p + i] /\ View(p, w)[w - i] = mem[p + (w - 1 - i)]
  <2>1. i + 1 \in 1 .. w /\ w - i \in 1 .. w
    BY <1>1
  <2>2. p + (i + 1) - 1 = p + i /\ p + (w - i) - 1 = p + (w - 1 - i)
    BY <1>1
  <2>3. QED BY <2>1, <2>2 DEF View
<1>3. CASE e = "le"
  BY <1>2, <1>3 DEF ToCpu, Load, Decoded
<1>4. CASE e # "le"
  <2>1. \A i \in 0 .. w - 1 : bswap(Load(p, w), w)[i] = mem[p + (w - 1 - i)]
    BY <1>1 DEF bswap, Load
  <2>2. \A i \in 0 .. w - 1 : Decoded(e, w, View(p, w))[i] = mem[p + (w - 1 - i)]
    BY <1>2, <1>4 DEF Decoded
  <2>3. QED BY <1>4, <2>1, <2>2 DEF ToCpu, bswap, Decoded
<1>5. QED BY <1>3, <1>4

(***************************************************************************)
(* Every value that remove_* and pull_* return is the one that the bytes   *)
(* at that end stand for, for every store, offset and width: the swap of   *)
(* the loaded value undoes the put functions (buf.c:162-289, 411-527).     *)
(***************************************************************************)
THEOREM ReadsDecoded == Spec => []ReadsDecode
<1>1. Inv => ReadsDecode
  <2> SUFFICES ASSUME Inv, NEW w \in Width, NEW e \in Order
               PROVE  /\ Pulled(e, w) = Decoded(e, w, View(data, w))
                      /\ Removed(e, w) = Decoded(e, w, View(tail - w, w))
                      /\ \A v \in Val(w) :
                           Put(e, w, v) = View(data, w) => Pulled(e, w) = v
    BY DEF ReadsDecode
  <2>1. data \in Int /\ tail - w \in Int
    BY SizeAssumption DEF Inv, TypeOK, tail, Width
  <2>2. /\ Pulled(e, w) = Decoded(e, w, View(data, w))
        /\ Removed(e, w) = Decoded(e, w, View(tail - w, w))
    BY <2>1, LoadDecodes DEF Pulled, Removed
  <2>3. ASSUME NEW v \in Val(w), Put(e, w, v) = View(data, w)
        PROVE  Pulled(e, w) = v
    <3>1. v \in [0 .. w - 1 -> Byte]
      BY ValAssumption
    <3>2. View(data, w) = Encoded(e, w, v)
      BY <2>3, <3>1, PutEncodes
    <3>3. QED BY <2>2, <3>1, <3>2, DecodesEncoded
  <2>4. QED BY <2>2, <2>3
<1>2. QED BY <1>1, InitInv, NextInv, PTL DEF Spec

-----------------------------------------------------------------------------
(* The refinement of ByteDeque.                                            *)

\* View, of a store that is given.
Bytes(m, p, n) == [i \in 1 .. n |-> m[p + i - 1]]
Store == [0 .. Size - 1 -> Byte]

LEMMA BytesType ==
  ASSUME NEW m \in Store, NEW p \in Nat, NEW n \in Nat, p + n =< Size
  PROVE  /\ Bytes(m, p, n) \in Seq(Byte) /\ Len(Bytes(m, p, n)) = n
         /\ \A i \in 1 .. n : Bytes(m, p, n)[i] = m[p + i - 1]
<1>1. ASSUME NEW i \in 1 .. n PROVE m[p + i - 1] \in Byte
  <2>1. p + i - 1 \in 0 .. Size - 1
    BY SizeAssumption
  <2>2. QED BY <2>1 DEF Store
<1>2. Bytes(m, p, n) \in [1 .. n -> Byte]
  BY <1>1 DEF Bytes
<1>3. Bytes(m, p, n) \in Seq(Byte) /\ Len(Bytes(m, p, n)) = n
  BY <1>2
<1>4. QED BY <1>3 DEF Bytes

\* The store m after the bytes s were written from offset p on.
Stored(m, p, s) ==
  [i \in 0 .. Size - 1 |-> IF i \in p .. p + Len(s) - 1 THEN s[i - p + 1] ELSE m[i]]

LEMMA StoredType ==
  ASSUME NEW m \in Store, NEW p \in Nat, NEW s \in Seq(Byte), p + Len(s) =< Size
  PROVE  /\ Stored(m, p, s) \in Store
         /\ \A i \in 1 .. Len(s) : Stored(m, p, s)[p + i - 1] = s[i]
         /\ \A j \in 0 .. Size - 1 :
              j < p \/ j >= p + Len(s) => Stored(m, p, s)[j] = m[j]
<1>1. Len(s) \in Nat
  OBVIOUS
<1>2. Stored(m, p, s) \in Store
  BY <1>1, SizeAssumption DEF Stored, Store
<1>3. ASSUME NEW i \in 1 .. Len(s) PROVE Stored(m, p, s)[p + i - 1] = s[i]
  <2>1. /\ p + i - 1 \in 0 .. Size - 1 /\ p + i - 1 \in p .. p + Len(s) - 1
        /\ (p + i - 1) - p + 1 = i
    BY <1>1, SizeAssumption
  <2>2. QED BY <2>1 DEF Stored
<1>4. ASSUME NEW j \in 0 .. Size - 1, j < p \/ j >= p + Len(s)
      PROVE  Stored(m, p, s)[j] = m[j]
  <2>1. j \notin p .. p + Len(s) - 1
    BY <1>1, <1>4
  <2>2. QED BY <2>1 DEF Stored
<1>5. QED BY <1>2, <1>3, <1>4

\* Adding at the tail puts the bytes behind the content ...
LEMMA BytesAdd ==
  ASSUME NEW m \in Store, NEW p \in Nat, NEW n \in Nat, NEW s \in Seq(Byte),
         p + n + Len(s) =< Size
  PROVE  Bytes(Stored(m, p + n, s), p, n + Len(s)) = Bytes(m, p, n) \o s
<1> DEFINE q == Stored(m, p + n, s)
           x == Bytes(m, p, n)
           y == Bytes(q, p, n + Len(s))
           z == x \o s
<1>1. Len(s) \in Nat /\ p + n \in Nat /\ p + n =< Size /\ n + Len(s) \in Nat
  BY SizeAssumption
<1>2. /\ q \in Store
      /\ \A i \in 1 .. Len(s) : q[(p + n) + i - 1] = s[i]
      /\ \A j \in 0 .. Size - 1 : j < p + n => q[j] = m[j]
  BY <1>1, StoredType
<1>3. /\ x \in Seq(Byte) /\ Len(x) = n
      /\ \A i \in 1 .. n : x[i] = m[p + i - 1]
  BY <1>1, BytesType
<1> HIDE DEF q
<1>4. /\ y \in Seq(Byte) /\ Len(y) = n + Len(s)
      /\ \A i \in 1 .. n + Len(s) : y[i] = q[p + i - 1]
  <2>1. p + (n + Len(s)) =< Size
    BY <1>1
  <2>2. QED BY <1>1, <1>2, <2>1, BytesType
<1> HIDE DEF x, y
<1>5. /\ z \in Seq(Byte) /\ Len(z) = n + Len(s)
      /\ \A i \in 1 .. n + Len(s) : z[i] = IF i =< n THEN x[i] ELSE s[i - n]
  BY <1>3, ConcatProperties
<1> HIDE DEF z
<1>6. ASSUME NEW i \in 1 .. n + Len(s) PROVE y[i] = z[i]
  <2>1. CASE i =< n
    <3>1. p + i - 1 \in 0 .. Size - 1 /\ p + i - 1 < p + n /\ i \in 1 .. n
      BY <1>1, <2>1, SizeAssumption
    <3>2. QED BY <1>2, <1>3, <1>4, <1>5, <2>1, <3>1
  <2>2. CASE i > n
    <3>1. i - n \in 1 .. Len(s) /\ (p + n) + (i - n) - 1 = p + i - 1 /\ ~(i =< n)
      BY <1>1, <2>2
    <3>2. QED BY <1>2, <1>4, <1>5, <3>1
  <2>3. QED BY <1>1, <2>1, <2>2
<1>7. y = z
  BY <1>4, <1>5, <1>6, SeqEqual
<1>8. QED BY <1>7 DEF q, x, y, z

\* ... and pushing at the head before it.
LEMMA BytesPush ==
  ASSUME NEW m \in Store, NEW p \in Nat, NEW n \in Nat, NEW s \in Seq(Byte),
         p + n =< Size, Len(s) =< p
  PROVE  Bytes(Stored(m, p - Len(s), s), p - Len(s), n + Len(s))
           = s \o Bytes(m, p, n)
<1> DEFINE k == p - Len(s)
           q == Stored(m, k, s)
           x == Bytes(m, p, n)
           y == Bytes(q, k, n + Len(s))
           z == s \o x
<1>1. /\ Len(s) \in Nat /\ k \in Nat /\ k + Len(s) = p /\ k + Len(s) =< Size
      /\ n + Len(s) \in Nat
  BY SizeAssumption
<1> HIDE DEF k
<1>2. /\ q \in Store
      /\ \A i \in 1 .. Len(s) : q[k + i - 1] = s[i]
      /\ \A j \in 0 .. Size - 1 : j >= k + Len(s) => q[j] = m[j]
  BY <1>1, StoredType
<1>3. /\ x \in Seq(Byte) /\ Len(x) = n
      /\ \A i \in 1 .. n : x[i] = m[p + i - 1]
  BY <1>1, BytesType
<1> HIDE DEF q
<1>4. /\ y \in Seq(Byte) /\ Len(y) = n + Len(s)
      /\ \A i \in 1 .. n + Len(s) : y[i] = q[k + i - 1]
  <2>1. k + (n + Len(s)) =< Size
    BY <1>1
  <2>2. QED BY <1>1, <1>2, <2>1, BytesType
<1> HIDE DEF x, y
<1>5. /\ z \in Seq(Byte) /\ Len(z) = Len(s) + n
      /\ \A i \in 1 .. Len(s) + n : z[i] = IF i =< Len(s) THEN s[i] ELSE x[i - Len(s)]
  BY <1>3, ConcatProperties
<1> HIDE DEF z
<1>6. ASSUME NEW i \in 1 .. n + Len(s) PROVE y[i] = z[i]
  <2>0. i \in 1 .. Len(s) + n
    BY <1>1
  <2>1. CASE i =< Len(s)
    BY <1>2, <1>4, <1>5, <2>0, <2>1
  <2>2. CASE i > Len(s)
    <3>1. /\ i - Len(s) \in 1 .. n /\ p + (i - Len(s)) - 1 = k + i - 1
          /\ ~(i =< Len(s)) /\ k + i - 1 \in 0 .. Size - 1 /\ k + i - 1 >= k + Len(s)
      BY <1>1, <2>2, SizeAssumption
    <3>2. y[i] = m[k + i - 1]
      BY <1>2, <1>4, <3>1
    <3>3. z[i] = m[k + i - 1]
      BY <1>3, <1>5, <2>0, <3>1
    <3>4. QED BY <3>2, <3>3
  <2>3. QED BY <1>1, <2>1, <2>2
<1>7. y = z
  <2>1. Len(y) = Len(z)
    BY <1>1, <1>4, <1>5
  <2>2. QED BY <1>4, <1>5, <1>6, <2>1, SeqEqual
<1>8. QED BY <1>7 DEF k, q, x, y, z

\* A part of the content, from its k-th byte on.
LEMMA BytesPart ==
  ASSUME NEW m \in Store, NEW p \in Nat, NEW n \in Nat, NEW k \in Nat,
         NEW l \in Nat, p + n =< Size, k + l =< n
  PROVE  Bytes(m, p + k, l) = SubSeq(Bytes(m, p, n), k + 1, k + l)
<1> DEFINE x == Bytes(m, p, n)
           y == Bytes(m, p + k, l)
           z == SubSeq(x, k + 1, k + l)
<1>1. x \in Seq(Byte) /\ Len(x) = n /\ \A i \in 1 .. n : x[i] = m[p + i - 1]
  BY BytesType
<1>2. p + k \in Nat /\ (p + k) + l =< Size
  BY SizeAssumption
<1>3. y \in Seq(Byte) /\ Len(y) = l /\ \A i \in 1 .. l : y[i] = m[(p + k) + i - 1]
  BY <1>2, BytesType
<1> HIDE DEF x, y
<1>4. z \in Seq(Byte) /\ Len(z) = l /\ \A i \in 1 .. l : z[i] = x[k + i]
  BY <1>1
<1> HIDE DEF z
<1>5. ASSUME NEW i \in 1 .. l PROVE y[i] = z[i]
  <2>1. k + i \in 1 .. n /\ p + (k + i) - 1 = (p + k) + i - 1
    BY <1>2
  <2>2. QED BY <1>1, <1>3, <1>4, <2>1
<1>6. y = z
  BY <1>3, <1>4, <1>5, SeqEqual
<1>7. QED BY <1>6 DEF x, y, z

\* What is left when bytes are taken from the head, and from the tail.
LEMMA BytesLeft ==
  ASSUME NEW m \in Store, NEW p \in Nat, NEW n \in Nat, NEW w \in Nat,
         p + n =< Size, w =< n, NEW l, l = n - w
  PROVE  /\ Bytes(m, p + w, l) = SubSeq(Bytes(m, p, n), w + 1, n)
         /\ Bytes(m, p, l) = SubSeq(Bytes(m, p, n), 1, l)
<1>1. l \in Nat /\ w + l = n /\ 0 + l = l /\ p + 0 = p /\ 0 \in Nat /\ 0 + l =< n
  OBVIOUS
<1>2. ASSUME NEW k \in Nat, k + l =< n
      PROVE  Bytes(m, p + k, l) = SubSeq(Bytes(m, p, n), k + 1, k + l)
  BY <1>1, <1>2, BytesPart
<1>3. Bytes(m, p + w, l) = SubSeq(Bytes(m, p, n), w + 1, w + l)
  BY <1>1, <1>2
<1>4. Bytes(m, p + 0, l) = SubSeq(Bytes(m, p, n), 0 + 1, 0 + l)
  BY <1>1, <1>2
<1>5. QED BY <1>1, <1>3, <1>4

\* The abstract state that the buffer stands for.
Mark == IF saved # None /\ intact
        THEN [content |-> View(saved.offset, saved.len), front |-> saved.offset]
        ELSE None

\* Both modules mean the same by the order of bytes.
LEMMA SameOrder ==
  /\ Deque!Width = Width /\ Deque!Order = Order
  /\ \A e, w, v : Deque!Encoded(e, w, v) = Encoded(e, w, v)
BY DEF Deque!Width, Width, Deque!Order, Order, Deque!Encoded, Encoded

LEMMA RefineInit == Init => Deque!Init
<1> SUFFICES ASSUME Init PROVE Deque!Init
  OBVIOUS
<1>1. data = 0 /\ saved = None
  BY DEF Init
<1>2. \E n \in {0, Size} : View(data, len) \in [1 .. n -> Byte]
  <2>1. len \in {0, Size} /\ mem \in [0 .. Size - 1 -> Byte]
    BY StoresAssumption DEF Init, Empty, buf_simple_init_with_data
  <2>2. View(data, len) \in [1 .. len -> Byte]
    BY <1>1, <2>1, SizeAssumption DEF View
  <2>3. QED BY <2>1, <2>2
<1>3. QED BY <1>1, <1>2 DEF Deque!Init

LEMMA RefineWrite ==
  ASSUME Inv, NEW w \in Width, NEW e \in Order, NEW v \in Val(w),
         NEW s, s = Encoded(e, w, v), buf_simple_add(s) \/ buf_simple_push(s)
  PROVE  Deque!Next
<1>1. s \in Seq(Byte) /\ Len(s) = w /\ w \in Nat
  <2>1. v \in [0 .. w - 1 -> Byte]
    BY ValAssumption
  <2>2. s = Put(e, w, v)
    BY <2>1, PutEncodes
  <2>3. s \in Seq(Byte) /\ Len(s) = w
    BY <2>1, <2>2, PutType
  <2>4. w \in Nat
    BY DEF Width
  <2>5. QED BY <2>3, <2>4
<1>2. /\ mem \in Store /\ data \in Nat /\ len \in Nat /\ data + len =< Size
      /\ Size \in Nat
  BY SizeAssumption DEF Inv, TypeOK, WithinStore, Store
<1>3. View(data, len) = Bytes(mem, data, len) /\ Len(View(data, len)) = len
  <2>1. View(data, len) = Bytes(mem, data, len)
    BY DEF View, Bytes
  <2>2. QED BY <1>2, <2>1, BytesType
<1>4. View(data, len)' = Bytes(mem', data', len')
  BY DEF View, Bytes
<1>5. Mark' = None
  BY DEF buf_simple_add, buf_simple_push, Mark
<1>6. CASE buf_simple_add(s)
  <2>1. /\ data + len + Len(s) =< Size /\ len' = len + Len(s) /\ data' = data
        /\ mem' = Stored(mem, data + len, s)
    BY <1>1, <1>2, <1>6
    DEF buf_simple_add, tailroom, headroom, tail, Written, Stored
  <2>2. View(data, len)' = View(data, len) \o s
    <3>1. View(data, len)' = Bytes(Stored(mem, data + len, s), data, len + Len(s))
      BY <1>4, <2>1, Zenon
    <3>2. Bytes(Stored(mem, data + len, s), data, len + Len(s))
            = Bytes(mem, data, len) \o s
      BY <1>1, <1>2, <2>1, BytesAdd
    <3>3. QED BY <1>3, <3>1, <3>2, Zenon
  <2>3. Deque!AddLast(s)
    BY <1>3, <1>5, <2>1, <2>2 DEF Deque!AddLast, Mark
  <2>4. Deque!AddLast(Deque!Encoded(e, w, v))
    BY <2>3, SameOrder
  <2>5. QED BY <2>4, SameOrder, Zenon DEF Deque!Next
<1>7. CASE buf_simple_push(s)
  <2>1. /\ Len(s) =< data /\ len' = len + Len(s) /\ data' = data - Len(s)
        /\ mem' = Stored(mem, data - Len(s), s)
    BY <1>1, <1>2, <1>7
    DEF buf_simple_push, headroom, Written, Stored
  <2>2. View(data, len)' = s \o View(data, len)
    <3>1. View(data, len)' =
            Bytes(Stored(mem, data - Len(s), s), data - Len(s), len + Len(s))
      BY <1>4, <2>1, Zenon
    <3>2. Bytes(Stored(mem, data - Len(s), s), data - Len(s), len + Len(s))
            = s \o Bytes(mem, data, len)
      BY <1>1, <1>2, <2>1, BytesPush
    <3>3. QED BY <1>3, <3>1, <3>2, Zenon
  <2>3. Deque!AddFirst(s)
    BY <1>5, <2>1, <2>2 DEF Deque!AddFirst, Mark
  <2>4. Deque!AddFirst(Deque!Encoded(e, w, v))
    BY <2>3, SameOrder
  <2>5. QED BY <2>4, SameOrder, Zenon DEF Deque!Next
<1>8. QED BY <1>6, <1>7

\* Taking bytes from either end.
LEMMA RefineTake ==
  ASSUME Inv, NEW w \in Width, RemoveValue(w) \/ PullValue(w)
  PROVE  Deque!Next
<1>1. /\ mem \in Store /\ data \in Nat /\ len \in Nat /\ data + len =< Size
      /\ Size \in Nat /\ w \in Nat
  BY SizeAssumption DEF Inv, TypeOK, WithinStore, Store, Width
<1>2. View(data, len) = Bytes(mem, data, len) /\ Len(View(data, len)) = len
  <2>1. View(data, len) = Bytes(mem, data, len)
    BY DEF View, Bytes
  <2>2. QED BY <1>1, <2>1, BytesType
<1>3. /\ mem' = mem /\ Mark' = Mark /\ w =< len /\ len' = len - w
      /\ len' \in Nat
  <2>1. UNCHANGED <<mem, saved, intact>> /\ w =< len /\ len' = len - w
    BY DEF RemoveValue, PullValue, buf_simple_remove_mem, buf_simple_pull
  <2>2. QED BY <1>1, <2>1 DEF Mark, View
<1>4. View(data, len)' = Bytes(mem, data', len - w)
  BY <1>3 DEF View, Bytes
<1>5. /\ Bytes(mem, data + w, len - w) = SubSeq(Bytes(mem, data, len), w + 1, len)
      /\ Bytes(mem, data, len - w) = SubSeq(Bytes(mem, data, len), 1, len - w)
  BY <1>1, <1>3, BytesLeft
<1>6. CASE RemoveValue(w)
  <2>1. data' = data
    BY <1>6 DEF RemoveValue, buf_simple_remove_mem
  <2>2. View(data, len)' = SubSeq(View(data, len), 1, Len(View(data, len)) - w)
    BY <1>2, <1>4, <1>5, <2>1, Zenon
  <2>3. Deque!TakeLast(w)
    BY <1>2, <1>3, <2>1, <2>2 DEF Deque!TakeLast, Deque!Keep, Mark
  <2>4. QED BY <2>3, SameOrder, Zenon DEF Deque!Next
<1>7. CASE PullValue(w)
  <2>1. data' = data + w
    BY <1>7 DEF PullValue, buf_simple_pull
  <2>2. View(data, len)' = SubSeq(View(data, len), w + 1, Len(View(data, len)))
    BY <1>2, <1>4, <1>5, <2>1, Zenon
  <2>3. Deque!TakeFirst(w)
    BY <1>2, <1>3, <2>1, <2>2 DEF Deque!TakeFirst, Deque!Drop, Mark
  <2>4. QED BY <2>3, SameOrder, Zenon DEF Deque!Next
<1>8. QED BY <1>6, <1>7

\* Forgetting the content.
LEMMA RefineClear ==
  ASSUME Inv, NEW r \in 0 .. Size, data' = r, len' = 0,
         UNCHANGED <<mem, saved, intact>>
  PROVE  Deque!Next
<1>1. View(data, len)' = << >>
  BY DEF View
<1>2. Mark' = Mark
  BY DEF Mark, View
<1>3. Deque!Clear(r)
  BY <1>1, <1>2 DEF Deque!Clear, Mark
<1>4. QED BY <1>3, Zenon DEF Deque!Next

\* A saved state, and a clone's original.
LEMMA RefineSave ==
  ASSUME Inv, buf_simple_save \/ buf_simple_clone
  PROVE  Deque!Next
<1>1. /\ saved' = [offset |-> data, len |-> len] /\ intact' = TRUE
      /\ UNCHANGED <<mem, data, len>>
  BY DEF buf_simple_save, buf_simple_clone, headroom
<1>2. saved' # None
  BY <1>1, NoneAssumption DEF Inv, TypeOK
<1>3. /\ View(data, len)' = View(data, len)
      /\ View(saved.offset, saved.len)' = View(data, len)
  BY <1>1 DEF View
<1>4. Mark' = [content |-> View(data, len), front |-> data]
  BY <1>1, <1>2, <1>3 DEF Mark
<1>5. Deque!Save
  BY <1>1, <1>3, <1>4 DEF Deque!Save, Mark
<1>6. QED BY <1>5, Zenon DEF Deque!Next

LEMMA RefineRestore ==
  ASSUME Inv, buf_simple_restore
  PROVE  Deque!Next
<1>1. /\ saved # None /\ data' = saved.offset /\ len' = saved.len
      /\ UNCHANGED <<mem, saved, intact>>
  BY DEF buf_simple_restore
<1>2. Mark' = Mark
  BY <1>1 DEF Mark, View
<1>3. View(data, len)' = View(saved.offset, saved.len)
  BY <1>1 DEF View
<1>4. CASE Mark # None
  <2>1. Mark = [content |-> View(saved.offset, saved.len), front |-> saved.offset]
    BY <1>4 DEF Mark
  <2>2. View(data, len)' = Mark.content /\ data' = Mark.front
    BY <1>1, <1>3, <2>1
  <2>3. Deque!Restore
    BY <1>2, <1>4, <2>2 DEF Deque!Restore, Mark
  <2>4. QED BY <2>3, Zenon DEF Deque!Next
<1>5. CASE Mark = None
  <2>1. /\ saved.offset \in 0 .. Size /\ saved.len \in 0 .. Size
        /\ saved.offset + saved.len =< Size
    BY <1>1 DEF Inv, TypeOK, WithinStore
  <2>2. Len(View(data, len)') = saved.len
    <3>1. mem \in Store /\ saved.offset \in Nat /\ saved.len \in Nat
      BY <2>1, SizeAssumption DEF Inv, TypeOK, Store
    <3>2. View(data, len)' = Bytes(mem, saved.offset, saved.len)
      BY <1>3 DEF View, Bytes
    <3>3. QED BY <2>1, <3>1, <3>2, BytesType
  <2>3. data' \in 0 .. Size /\ Len(View(data, len)') =< Size - data'
    BY <1>1, <2>1, <2>2, SizeAssumption
  <2>4. Deque!Restore
    BY <1>2, <1>5, <2>3 DEF Deque!Restore, Mark
  <2>5. QED BY <2>4, Zenon DEF Deque!Next
<1>6. QED BY <1>4, <1>5

LEMMA RefineNext == Inv /\ [Next]_vars => [Deque!Next]_(Deque!vars)
<1> SUFFICES ASSUME Inv, [Next]_vars PROVE [Deque!Next]_(Deque!vars)
  OBVIOUS
<1>1. CASE UNCHANGED vars
  BY <1>1 DEF vars, Deque!vars, View
<1>2. CASE Next
  <2>1. ASSUME NEW w \in Width, NEW v \in Val(w), NEW e \in Order,
               AddValue(e, w, v) \/ PushValue(e, w, v)
        PROVE  Deque!Next
    <3>1. Put(e, w, v) = Encoded(e, w, v)
      BY ValAssumption, PutEncodes
    <3>2. QED BY <2>1, <3>1, RefineWrite, Zenon DEF AddValue, PushValue
  <2>2. ASSUME NEW w \in Width, NEW v \in Val(w),
               AddMem(w, v) \/ PushMem(w, v)
        PROVE  Deque!Next
    <3>1. [i \in 1 .. w |-> v[i - 1]] = Encoded("le", w, v) /\ "le" \in Order
      BY DEF Encoded, Order
    <3>2. QED BY <2>2, <3>1, RefineWrite, Zenon DEF AddMem, PushMem
  <2>3. ASSUME NEW w \in Width, RemoveValue(w) \/ PullValue(w)
        PROVE  Deque!Next
    BY <2>3, RefineTake
  <2>4. ASSUME NEW r \in 0 .. Size, buf_simple_init(r)
        PROVE  Deque!Next
    BY <2>4, RefineClear DEF buf_simple_init
  <2>5. CASE buf_simple_reset
    <3>1. 0 \in 0 .. Size
      BY SizeAssumption
    <3>2. QED BY <2>5, <3>1, RefineClear DEF buf_simple_reset
  <2>6. CASE buf_simple_save \/ buf_simple_clone
    BY <2>6, RefineSave
  <2>7. CASE buf_simple_restore
    BY <2>7, RefineRestore
  <2>8. QED
    BY <1>2, <2>1, <2>2, <2>3, <2>4, <2>5, <2>6, <2>7 DEF Next
<1>3. QED BY <1>1, <1>2

(***************************************************************************)
(* A buf_simple of any size implements the queue with two ends: what is    *)
(* put in at one end in an order of bytes is there in that order, the      *)
(* bytes at the other end are left alone, and a saved parsing state brings *)
(* the content back unless bytes were written since (buf.c:50-409).        *)
(***************************************************************************)
THEOREM BufIsDeque == Spec => ImplementsDeque
BY InitInv, NextInv, RefineInit, RefineNext, PTL
   DEF Spec, ImplementsDeque, Deque!Spec
==============================================================================
