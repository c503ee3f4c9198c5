---------------------------- MODULE GattServices ----------------------------
(***************************************************************************)
(* The attribute callbacks of the simple profile service (sps.c) and of    *)
(* the device information service (dis.c): what a read or a write of a     *)
(* client returns, for the value that the attribute has.  A value is the   *)
(* tuple of the bytes of its array.                                        *)
(***************************************************************************)
EXTENDS Integers, Sequences

CONSTANTS
  Byte,     \* the values of a byte
  CharLen,  \* CharLen[a]: SIMPLEPROFILE_CHARx_LEN
  DisVal    \* DisVal[a]: the arrays of dis.c, strings with their NUL

Sps == {"char1", "char2", "char3", "char4", "char5"}
\* The characteristics that their permissions let a client read and write
\* (char5 when it is authenticated).
SpsReadable == {"char1", "char2", "char5"}
SpsWritable == {"char1", "char3"}
Dis == {"system_id", "model_number"}  \* one that is no string, one that is

Least(m, n) == IF m < n THEN m ELSE n

\* The n bytes from offset on.
Part(v, offset, n) == SubSeq(v, offset + 1, offset + n)

Error(status) == [status |-> status, data |-> << >>]
Success(data) == [status |-> "SUCCESS", data |-> data]

\* Every characteristic has a case of its own, of the same form.
sps_read(a, v, offset, maxLen) ==
  IF offset > 0 THEN Error("ATTR_NOT_LONG")
  ELSE IF a \in SpsReadable \cup {"char4"}
  THEN Success(Part(v, 0, IF maxLen > CharLen[a] THEN CharLen[a] ELSE maxLen))
  ELSE Error("ATTR_NOT_FOUND")

\* sizeof, without the NUL of a string.
DisLen(a) == Len(DisVal[a]) - IF a = "system_id" THEN 0 ELSE 1

\* Mutant: the length of the whole value at every offset.
dis_read_NoOffset(a, offset, maxLen) ==
  IF offset >= DisLen(a) THEN Error("INVALID_OFFSET")
  ELSE Success(Part(DisVal[a] \o DisVal[a], offset, Least(maxLen, DisLen(a))))

dis_read(a, offset, maxLen) ==
  IF offset >= DisLen(a) THEN Error("INVALID_OFFSET")
  ELSE Success(Part(DisVal[a], offset, Least(maxLen, DisLen(a) - offset)))

\* The status of a write of len bytes.
sps_write_status(a, len, offset) ==
  CASE a \notin SpsWritable -> "ATTR_NOT_FOUND"
    [] a \in SpsWritable /\ offset # 0 -> "ATTR_NOT_LONG"
    [] a \in SpsWritable /\ offset = 0 /\ len > CharLen[a] ->
         "INVALID_VALUE_SIZE"
    [] OTHER -> "SUCCESS"

\* CHARx_LEN bytes are copied whatever len is: those beyond it are whatever
\* lies behind the request in memory.
sps_write_values(a, s) ==
  {v \in [1 .. CharLen[a] -> Byte] :
     \A i \in 1 .. Least(Len(s), CharLen[a]) : v[i] = s[i]}

\* sps_set_param at start.
sps_set_param(a, b) == [i \in 1 .. CharLen[a] |-> b]
=============================================================================
