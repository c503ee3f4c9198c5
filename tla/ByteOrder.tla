------------------------------ MODULE ByteOrder ------------------------------
(***************************************************************************)
(* The stores and loads of include/sys/byteorder.h on a little-endian CPU. *)
(* An integer of w bytes is the function v from 0 .. w-1 to its bytes,     *)
(* v[0] the least significant; v shifted right by 8 k bits is v read from  *)
(* byte k on, so that an operator takes k instead of the shifted value.    *)
(* A store is the tuple of bytes it leaves at increasing addresses.        *)
(***************************************************************************)
EXTENDS Integers, Sequences

Width == {1, 2, 3, 4, 6, 8}  \* the bytes of u8, 16, 24, 32, 48 and 64 bits
Order == {"le", "be"}

sys_put_be16(v, k) == <<v[k + 1], v[k]>>
sys_put_be24(v, k) == <<v[k + 2]>> \o sys_put_be16(v, k)
sys_put_be32(v, k) == sys_put_be16(v, k + 2) \o sys_put_be16(v, k)
sys_put_be48(v, k) == sys_put_be16(v, k + 4) \o sys_put_be32(v, k)
sys_put_be64(v, k) == sys_put_be32(v, k + 4) \o sys_put_be32(v, k)

sys_put_le16(v, k) == <<v[k], v[k + 1]>>
sys_put_le24(v, k) == sys_put_le16(v, k) \o <<v[k + 2]>>
sys_put_le32(v, k) == sys_put_le16(v, k) \o sys_put_le16(v, k + 2)
sys_put_le48(v, k) == sys_put_le32(v, k) \o sys_put_le16(v, k + 4)
sys_put_le64(v, k) == sys_put_le32(v, k) \o sys_put_le32(v, k + 4)

\* The store of buf_simple_add_* and buf_simple_push_* for a width and order.
Put(e, w, v) ==
  CASE w = 1 -> <<v[0]>>
    [] w = 2 -> IF e = "le" THEN sys_put_le16(v, 0) ELSE sys_put_be16(v, 0)
    [] w = 3 -> IF e = "le" THEN sys_put_le24(v, 0) ELSE sys_put_be24(v, 0)
    [] w = 4 -> IF e = "le" THEN sys_put_le32(v, 0) ELSE sys_put_be32(v, 0)
    [] w = 6 -> IF e = "le" THEN sys_put_le48(v, 0) ELSE sys_put_be48(v, 0)
    [] w = 8 -> IF e = "le" THEN sys_put_le64(v, 0) ELSE sys_put_be64(v, 0)

\* Mutant: a swap of the 16-bit halves that leaves the bytes in them alone.
bswap_Halves(x, w) ==
  [i \in 0 .. w - 1 |-> IF w % 2 = 0 THEN x[w - 2 - i + 2 * (i % 2)]
                        ELSE x[w - 1 - i]]

\* __bswap_16 .. __bswap_64: each shifted and masked term moves one byte.
bswap(x, w) == [i \in 0 .. w - 1 |-> x[w - 1 - i]]

\* sys_le*_to_cpu and sys_be*_to_cpu.
ToCpu(e, w, x) == IF e = "le" THEN x ELSE bswap(x, w)

-----------------------------------------------------------------------------
\* What the names promise: the bytes in the order of their significance.
Encoded(e, w, v) == [i \in 1 .. w |-> IF e = "le" THEN v[i - 1] ELSE v[w - i]]
Decoded(e, w, s) ==
  [i \in 0 .. w - 1 |-> IF e = "le" THEN s[i + 1] ELSE s[w - i]]
=============================================================================
