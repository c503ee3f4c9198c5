---------------------------- MODULE MCPeripheral ----------------------------
(***************************************************************************)
(* The BLE peripheral with responses of two bytes: characteristics that do *)
(* and do not fill one, a device information value of two full responses   *)
(* and a string of two that are not; and, as a component of its own, the   *)
(* advertising data.  One of the two runs while the other rests.           *)
(***************************************************************************)
EXTENDS Peripheral, AdvData

VARIABLE part  \* the component that runs

MCVars == <<vars, advVars, part>>

MCCharLen == [a \in Sps |-> IF a = "char5" THEN 2 ELSE 1]
MCDisVal ==
  [a \in Dis |->
     IF a = "system_id" THEN <<1, 2, 3, 4>> ELSE <<1, 2, 3, 0>>]

MCInit == part \in {"peripheral", "adv"} /\ Init /\ AdvInit

MCNext ==
  /\ \/ part = "peripheral" /\ Next /\ UNCHANGED advVars
     \/ part = "adv" /\ AdvNext /\ UNCHANGED vars
  /\ UNCHANGED part

\* The fairness is about the peripheral, and leaves no behaviour in which the
\* other component runs: those are checked for their invariant only.
MCSpec == MCInit /\ [][MCNext]_MCVars /\ Fairness
=============================================================================
