------------------------------ MODULE AdvData ------------------------------
(***************************************************************************)
(* The advertising data: ble_adv_enable (subsys/bluetooth/host/adv.c)      *)
(* writes the elements of the advertisement and then those of the scan     *)
(* response through one static buffer, and hands each to the BLE library.  *)
(* A call may leave out either.  The application passes elements that fit  *)
(* into the buffer: an assertion of buf_simple_add is the only check.      *)
(***************************************************************************)
EXTENDS Naturals, Sequences

CONSTANTS
  B_MAX_ADV_LEN,  \* bytes of the buffer
  AdType, AdByte, \* types of elements, and bytes of their data
  MaxData,        \* bound on the bytes of an element
  MaxElems,       \* bound on the elements of a list
  NoList          \* the NULL that is passed for a list

ASSUME AdvAssumption ==
  /\ B_MAX_ADV_LEN \in Nat /\ MaxData \in Nat /\ MaxElems \in Nat
  /\ AdType \subseteq Nat /\ AdByte \subseteq Nat

VARIABLES
  adv_data,  \* the content of the buffer
  role,      \* parameters of the library's GAP role
  asked      \* history: the lists that the calls have asked for last

advVars == <<adv_data, role, asked>>

\* struct ble_data
ble_data == [type : AdType, data : UNION {[1 .. n -> AdByte] : n \in 0 .. MaxData}]

ElementLists == UNION {[1 .. n -> ble_data] : n \in 0 .. MaxElems}

-----------------------------------------------------------------------------
\* Mutant: the content stays.
reset_Keeps(buf) == buf

buf_simple_reset(buf) == << >>

\* The loop over the elements: length, type and data.
AddElements(buf, elems) ==
  LET after[i \in 0 .. Len(elems)] ==
        IF i = 0 THEN buf
        ELSE after[i - 1] \o <<Len(elems[i].data) + 1, elems[i].type>> \o elems[i].data
  IN  after[Len(elems)]

Lists ==
  {l \in ElementLists : Len(AddElements(<< >>, l)) =< B_MAX_ADV_LEN} \union {NoList}

AdvInit ==
  /\ adv_data = << >>
  /\ role = [enabled |-> FALSE, ad |-> << >>, sd |-> << >>]
  /\ asked = [ad |-> << >>, sd |-> << >>]

\* The other parameters are handed on as they are.
ble_adv_enable(ad, sd) ==
  LET first == IF ad = NoList THEN adv_data
               ELSE AddElements(buf_simple_reset(adv_data), ad)
      second == IF sd = NoList THEN first
                ELSE AddElements(buf_simple_reset(first), sd)
  IN  /\ adv_data' = second
      /\ role' = [enabled |-> TRUE,
                  ad |-> IF ad = NoList THEN role.ad ELSE first,
                  sd |-> IF sd = NoList THEN role.sd ELSE second]
      /\ asked' = [ad |-> IF ad = NoList THEN asked.ad ELSE ad,
                   sd |-> IF sd = NoList THEN asked.sd ELSE sd]

ble_adv_disable ==
  /\ role' = [role EXCEPT !.enabled = FALSE]
  /\ UNCHANGED <<adv_data, asked>>

AdvNext == (\E ad, sd \in Lists : ble_adv_enable(ad, sd)) \/ ble_adv_disable

AdvSpec == AdvInit /\ [][AdvNext]_advVars

-----------------------------------------------------------------------------
\* Where a scanner goes from the length byte at i, at most to the end.
Behind(data) ==
  [i \in 1 .. Len(data) |->
     IF i + data[i] < Len(data) THEN i + data[i] + 1 ELSE Len(data) + 1]

\* The length bytes that a scanner meets in data.
Starts(data) ==
  LET from[k \in 0 .. Len(data)] ==
        [i \in 1 .. Len(data) + 1 |->
           IF i = Len(data) + 1 \/ k = 0 THEN << >>
           ELSE <<i>> \o from[k - 1][Behind(data)[i]]]
  IN  from[Len(data)][1]

\* The elements that a scanner finds in data.
Parsed(data) ==
  [j \in 1 .. Len(Starts(data)) |->
     LET i == Starts(data)[j]
     IN  [type |-> data[i + 1], data |-> SubSeq(data, i + 2, i + data[i])]]

(***************************************************************************)
(* A scanner that splits what the library has been given by the length     *)
(* bytes finds the elements that were asked for last, and nothing of the   *)
(* other list or of an earlier call that went through the same buffer      *)
(* (adv.c:49-73).                                                          *)
(***************************************************************************)
AdvertisedAsAsked ==
  Parsed(role.ad) = asked.ad /\ Parsed(role.sd) = asked.sd
=============================================================================
