--------------------------------- MODULE Buf ---------------------------------
(***************************************************************************)
(* The simple buffers of subsys/buf: a store mem of Size bytes and the     *)
(* part of it that holds data, of len bytes from offset data on.  Adding   *)
(* and removing work at the tail, pushing and pulling at the head.         *)
(*                                                                         *)
(* The guards are the __ASSERTs: without CONFIG_ASSERT nothing tests them  *)
(* and they are what the caller has to ensure.  Pointers are offsets into  *)
(* the store (data - __buf).                                               *)
(***************************************************************************)
EXTENDS ByteOrder

CONSTANTS
  Size,    \* buf->size, in bytes
  Byte,    \* the values of a byte
  Val(_),  \* Val(w): the values that w bytes wide operations are given
  None,    \* no saved state
  Stores,  \* what the store may hold before the first call
  MaxCalls \* bound on the calls of one behaviour

ASSUME SizeAssumption == Size \in Nat
ASSUME StoresAssumption == Stores \subseteq [0 .. Size - 1 -> Byte]
ASSUME MaxCallsAssumption == MaxCalls \in Nat
ASSUME ValAssumption == \A w \in Width : Val(w) \subseteq [0 .. w - 1 -> Byte]
ASSUME NoneAssumption == None \notin [offset : 0 .. Size, len : 0 .. Size]

VARIABLES
  mem, data, len,
  saved,  \* a struct buf_simple_state, or the original of a clone
  intact, \* history: nothing was written since saved was taken
  calls   \* number of calls so far

vars == <<mem, data, len, saved, intact, calls>>

TypeOK ==
  /\ mem \in [0 .. Size - 1 -> Byte]
  /\ data \in 0 .. Size /\ len \in 0 .. Size
  /\ saved \in [offset : 0 .. Size, len : 0 .. Size] \cup {None}
  /\ intact \in BOOLEAN /\ calls \in 0 .. MaxCalls

-----------------------------------------------------------------------------
headroom == data
tailroom == Size - headroom - len
tail == data + len

\* BUF_SIMPLE_DEFINE, and buf_simple_init_with_data on a filled store.
Empty == len = 0
buf_simple_init_with_data == len = Size

Init ==
  /\ mem \in Stores /\ data = 0 /\ calls = 0
  /\ Empty \/ buf_simple_init_with_data
  /\ saved = None /\ intact = FALSE

buf_simple_init(reserve) ==
  /\ reserve =< Size
  /\ data' = reserve /\ len' = 0
  /\ UNCHANGED <<mem, saved, intact>>

buf_simple_reset ==
  /\ len' = 0 /\ data' = 0
  /\ UNCHANGED <<mem, saved, intact>>

\* The store after the bytes s were written from offset p on.
Written(p, s) ==
  [i \in 0 .. Size - 1 |-> IF i \in p .. p + Len(s) - 1 THEN s[i - p + 1]
                           ELSE mem[i]]

\* Claims the bytes behind the tail and fills them.
buf_simple_add(s) ==
  /\ tailroom >= Len(s)
  /\ len' = len + Len(s)
  /\ mem' = Written(tail, s) /\ intact' = FALSE
  /\ UNCHANGED <<data, saved>>

buf_simple_push(s) ==
  /\ headroom >= Len(s)
  /\ data' = data - Len(s) /\ len' = len + Len(s)
  /\ mem' = Written(data - Len(s), s) /\ intact' = FALSE
  /\ UNCHANGED saved

buf_simple_remove_mem(n) ==
  /\ len >= n
  /\ len' = len - n
  /\ UNCHANGED <<mem, data, saved, intact>>

\* Mutant: data moves and the length stays.
pull_KeepsLength(n) ==
  /\ len >= n
  /\ data' = data + n
  /\ UNCHANGED <<mem, len, saved, intact>>

\* buf_simple_pull_mem moves data as well.
buf_simple_pull(n) ==
  /\ len >= n
  /\ len' = len - n /\ data' = data + n
  /\ UNCHANGED <<mem, saved, intact>>

-----------------------------------------------------------------------------
\* add_u8, add_le16 .. add_be64; add_mem copies bytes in the order given.
AddValue(e, w, v) == buf_simple_add(Put(e, w, v))
AddMem(w, v) == buf_simple_add([i \in 1 .. w |-> v[i - 1]])
PushValue(e, w, v) == buf_simple_push(Put(e, w, v))
PushMem(w, v) == buf_simple_push([i \in 1 .. w |-> v[i - 1]])

\* UNALIGNED_GET: a load of w bytes, the lowest address least significant.
Load(p, w) == [i \in 0 .. w - 1 |-> mem[p + i]]

\* What remove_* and pull_* of a width and an order return ...
Removed(e, w) == ToCpu(e, w, Load(tail - w, w))
Pulled(e, w) == ToCpu(e, w, Load(data, w))

\* ... and what they do to the buffer.
RemoveValue(w) == buf_simple_remove_mem(w)
PullValue(w) == buf_simple_pull(w)

\* Mutant: the saved state keeps the length but not the offset.
save_NoOffset ==
  /\ saved' = [offset |-> 0, len |-> len]
  /\ intact' = TRUE
  /\ UNCHANGED <<mem, data, len>>

buf_simple_save ==
  /\ saved' = [offset |-> headroom, len |-> len]
  /\ intact' = TRUE
  /\ UNCHANGED <<mem, data, len>>

\* A clone has the same storage, offset and length.  The model goes on with
\* the clone and keeps the original aside; going back to it is Restore.
buf_simple_clone ==
  /\ saved' = [offset |-> data, len |-> len]
  /\ intact' = TRUE
  /\ UNCHANGED <<mem, data, len>>

buf_simple_restore ==
  /\ saved # None
  /\ data' = saved.offset /\ len' = saved.len
  /\ UNCHANGED <<mem, saved, intact>>

Next ==
  /\ calls < MaxCalls /\ calls' = calls + 1
  /\ \/ \E w \in Width :
          \/ \E v \in Val(w) :
               \/ \E e \in Order : AddValue(e, w, v) \/ PushValue(e, w, v)
               \/ AddMem(w, v) \/ PushMem(w, v)
          \/ RemoveValue(w) \/ PullValue(w)
     \/ \E r \in 0 .. Size : buf_simple_init(r)
     \/ buf_simple_reset
     \/ buf_simple_save \/ buf_simple_clone
     \/ buf_simple_restore

Spec == Init /\ [][Next]_vars

-----------------------------------------------------------------------------
\* The n bytes from offset p on.
View(p, n) == [i \in 1 .. n |-> mem[p + i - 1]]

(***************************************************************************)
(* The data stay within the store, also the data that a saved state brings *)
(* back: no sequence of calls that meets the assertions makes headroom or  *)
(* tailroom wrap below zero (buf.c:529-537).                               *)
(***************************************************************************)
WithinStore ==
  /\ data + len =< Size
  /\ saved # None => saved.offset + saved.len =< Size

Deque == INSTANCE ByteDeque
  WITH content <- View(data, len), front <- data,
       mark <- IF saved # None /\ intact
               THEN [content |-> View(saved.offset, saved.len),
                     front |-> saved.offset]
               ELSE None

(***************************************************************************)
(* The offsets and the store implement a queue with two ends: an operation *)
(* at one end does not disturb the bytes at the other, what is pulled is   *)
(* headroom again, le and be put the bytes in that order for every width   *)
(* that the put functions are composed of, and a saved parsing state comes *)
(* back unless bytes were written since (buf.c:50-409, buf.h:855-876).     *)
(***************************************************************************)
ImplementsDeque == Deque!Spec

(***************************************************************************)
(* Every value that remove_* and pull_* return is the one that the bytes   *)
(* at that end stand for in the order of the function's name: the native   *)
(* load and the swap of each width undo what the put functions do, which   *)
(* are composed differently (buf.c:162-289, 411-527).                      *)
(***************************************************************************)
ReadsDecode ==
  \A w \in {x \in Width : x =< len}, e \in Order :
    /\ Pulled(e, w) = Decoded(e, w, View(data, w))
    /\ Removed(e, w) = Decoded(e, w, View(tail - w, w))
    /\ \A v \in Val(w) :
         Put(e, w, v) = View(data, w) => Pulled(e, w) = v
=============================================================================
