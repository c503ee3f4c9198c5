-------------------------------- MODULE MCBuf --------------------------------
(***************************************************************************)
(* Buf with bytes 0 and 1 and with the values of at most one nonzero byte: *)
(* they tell every place of every byte apart.                              *)
(***************************************************************************)
EXTENDS Buf

OneHot(w) ==
  {[i \in 0 .. w - 1 |-> IF i = k THEN 1 ELSE 0] : k \in 0 .. w}

\* A zeroed store, and one whose bytes differ from their neighbours.
TwoStores ==
  {[i \in 0 .. Size - 1 |-> 0], [i \in 0 .. Size - 1 |-> i % 2]}
=============================================================================
