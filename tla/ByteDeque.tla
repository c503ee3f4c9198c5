------------------------------ MODULE ByteDeque ------------------------------
(***************************************************************************)
(* What a buf_simple promises: a queue of bytes with two ends in a store   *)
(* of Size bytes, of which front are free before the content.  Values are  *)
(* encoded in the order of the operation's name, and the state that was    *)
(* saved comes back as long as nothing was written since.                  *)
(***************************************************************************)
EXTENDS ByteOrder

CONSTANTS Size, Byte, Val(_), None

VARIABLES content, front, mark

vars == <<content, front, mark>>

Drop(s, n) == SubSeq(s, n + 1, Len(s))
Keep(s, n) == SubSeq(s, 1, n)

Init == /\ front = 0 /\ mark = None
        /\ \E n \in {0, Size} : content \in [1 .. n -> Byte]

AddLast(s) ==
  /\ front + Len(content) + Len(s) =< Size
  /\ content' = content \o s /\ mark' = None
  /\ UNCHANGED front

AddFirst(s) ==
  /\ Len(s) =< front
  /\ front' = front - Len(s)
  /\ content' = s \o content /\ mark' = None

TakeFirst(n) ==
  /\ n =< Len(content)
  /\ content' = Drop(content, n) /\ front' = front + n
  /\ UNCHANGED mark

TakeLast(n) ==
  /\ n =< Len(content)
  /\ content' = Keep(content, Len(content) - n)
  /\ UNCHANGED <<front, mark>>

Clear(f) == content' = << >> /\ front' = f /\ UNCHANGED mark

Save == mark' = [content |-> content, front |-> front]
        /\ UNCHANGED <<content, front>>

\* After a write the saved bytes may be others.
Restore ==
  \/ /\ mark # None
     /\ content' = mark.content /\ front' = mark.front
     /\ UNCHANGED mark
  \/ /\ mark = None
     /\ front' \in 0 .. Size
     /\ Len(content') =< Size - front'
     /\ UNCHANGED mark

Next ==
  \/ \E w \in Width :
       \/ \E e \in Order, v \in Val(w) :
            AddLast(Encoded(e, w, v)) \/ AddFirst(Encoded(e, w, v))
       \/ TakeFirst(w) \/ TakeLast(w)
  \/ \E f \in 0 .. Size : Clear(f)
  \/ Save
  \/ Restore

Spec == Init /\ [][Next]_vars
=============================================================================
