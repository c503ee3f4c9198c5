-------------------------- MODULE PeripheralProofs --------------------------
(***************************************************************************)
(* Proofs about Peripheral: for every number of buffers, handles and bytes *)
(* and any number of connections; the notifications for a peripheral with  *)
(* one connection.  Then about AdvData: what a scanner finds.              *)
(***************************************************************************)
EXTENDS Peripheral, AdvData, SequenceLemmas

\* A buffer is free, being sent, or lost.
BufInv == free + sending =< BufNum

\* The application holds the lock when its flag says so.
LockInv == ramLocks = IF flag THEN 1 ELSE 0

TypeInv == TypeOK /\ DOMAIN val = Sps /\ BufInv /\ LockInv

LEMMA TypeInit == Init => TypeInv
<1> SUFFICES ASSUME Init PROVE TypeInv
  OBVIOUS
<1>1. adv \in BOOLEAN /\ timer \in BOOLEAN /\ flag \in BOOLEAN
  BY Zenon DEF Init
<1>2. /\ links \subseteq Handle /\ terminating \subseteq Handle
      /\ ccc \subseteq Handle /\ wants \subseteq Handle
      /\ conn \in Handle \cup {NoHandle} /\ events \subseteq Event
  BY DEF Init, Event
<1>3. gapq \in Seq(GapEvent) /\ Len(gapq) =< MaxEvents
  BY BoundAssumption DEF Init
<1>4. free \in 0 .. BufNum /\ sending \in 0 .. BufNum /\ BufInv
  BY BoundAssumption DEF Init, BufInv
<1>5. ramLocks \in {0, 1} /\ LockInv
  BY DEF Init, LockInv
<1>6. DOMAIN val = Sps /\ \A a \in Sps : val[a] \in [1 .. CharLen[a] -> Byte]
  BY DEF Init, sps_set_param
<1>7. QED BY <1>1, <1>2, <1>3, <1>4, <1>5, <1>6 DEF TypeInv, TypeOK

\* The lists of GAP events.
LEMMA QueueType ==
  ASSUME NEW q \in Seq(GapEvent)
  PROVE  /\ \A e \in GapEvent : Append(q, e) \in Seq(GapEvent)
                                /\ Len(Append(q, e)) = Len(q) + 1
         /\ q # << >> => /\ Head(q) \in GapEvent /\ Tail(q) \in Seq(GapEvent)
                         /\ Len(Tail(q)) = Len(q) - 1
OBVIOUS

\* The steps of the library that change links and events.
LEMMA LinkTypeStep ==
  ASSUME TypeInv, NEW h \in Handle, LinkUp(h) \/ LinkDown(h)
  PROVE  TypeInv'
<1>1. /\ links' \subseteq Handle /\ terminating' \subseteq Handle
      /\ ccc' \subseteq Handle /\ wants' \subseteq Handle
      /\ UNCHANGED <<free, sending, timer, conn, events, flag, ramLocks, val>>
  BY DEF TypeInv, TypeOK, LinkUp, LinkDown, gattvars
<1>2. adv' \in BOOLEAN
  BY DEF TypeInv, TypeOK, LinkUp, LinkDown
<1>3. \E e \in GapEvent : gapq' = Append(gapq, e)
  BY DEF LinkUp, LinkDown, GapEvent
<1>4. gapq' \in Seq(GapEvent) /\ Len(gapq') =< MaxEvents
  <2>1. gapq \in Seq(GapEvent) /\ Len(gapq) < MaxEvents
    BY DEF TypeInv, TypeOK, LinkUp, LinkDown
  <2>2. gapq' \in Seq(GapEvent) /\ Len(gapq') = Len(gapq) + 1
    BY <1>3, <2>1, QueueType
  <2>3. QED BY <2>1, <2>2, BoundAssumption
<1>5. QED
  BY <1>1, <1>2, <1>4 DEF TypeInv, TypeOK, BufInv, LockInv

LEMMA TypeStep == TypeInv /\ [Next]_vars => TypeInv'
<1> SUFFICES ASSUME TypeInv, [Next]_vars PROVE TypeInv'
  OBVIOUS
<1> USE DEF libvars, gattvars
<1>1. ASSUME UNCHANGED <<links, terminating, adv, gapq, ccc, free, sending, conn,
                         flag, ramLocks, wants, val>>,
             timer' \in BOOLEAN, events' \subseteq Event
      PROVE  TypeInv'
  BY <1>1 DEF TypeInv, TypeOK, BufInv, LockInv
<1>2. timer \in BOOLEAN /\ events \subseteq Event
  BY DEF TypeInv, TypeOK
<1>3. CASE UNCHANGED vars
  BY <1>1, <1>2, <1>3 DEF vars
<1>4. ASSUME NEW h \in Handle, LinkUp(h) \/ LinkDown(h)
      PROVE  TypeInv'
  BY <1>4, LinkTypeStep
<1>5. ASSUME NEW h \in Handle, NEW config \in BOOLEAN, sps_write_ccc(h, config)
      PROVE  TypeInv'
  <2>1. timer' \in BOOLEAN
    BY <1>2, <1>5, Zenon DEF sps_write_ccc, sps_ccc_changed, tmos_stop_task
  <2>2. events' \subseteq Event
    BY <1>2, <1>5 DEF sps_write_ccc, sps_ccc_changed, tmos_stop_task
  <2>3. ccc' \subseteq Handle /\ wants' \subseteq Handle
    BY <1>5 DEF sps_write_ccc, TypeInv, TypeOK
  <2>4. UNCHANGED <<links, terminating, adv, gapq, free, sending, conn, flag,
                    ramLocks, val>>
    BY <1>5 DEF sps_write_ccc
  <2>5. QED BY <2>1, <2>2, <2>3, <2>4 DEF TypeInv, TypeOK, BufInv, LockInv
<1>6. ASSUME NEW e \in {"poll", "test"}, TimerFires(e)
      PROVE  TypeInv'
  BY <1>1, <1>2, <1>6 DEF TimerFires, Event
<1>7. CASE Message
  BY <1>1, <1>2, <1>7 DEF Message, Event
<1>8. CASE Sent
  <2>1. free' \in 0 .. BufNum /\ sending' \in 0 .. BufNum /\ BufInv'
    BY <1>8, BoundAssumption DEF Sent, TypeInv, TypeOK, BufInv
  <2>2. QED BY <1>8, <2>1 DEF Sent, TypeInv, TypeOK, LockInv
<1>9. ASSUME NEW a \in SpsWritable, NEW w, sps_write_value(a, w)
      PROVE  TypeInv'
  <2>1. PICK v \in sps_write_values(a, w) : val' = [val EXCEPT ![a] = v]
    BY <1>9 DEF sps_write_value
  <2>2. a \in Sps /\ v \in [1 .. CharLen[a] -> Byte]
    BY DEF SpsWritable, Sps, sps_write_values
  <2>3. DOMAIN val' = Sps /\ \A b \in Sps : val'[b] \in [1 .. CharLen[b] -> Byte]
    BY <2>1, <2>2 DEF TypeInv, TypeOK
  <2>4. QED
    BY <1>9, <2>3 DEF sps_write_value, TypeInv, TypeOK, BufInv, LockInv
<1>10. ASSUME \/ \E a \in SpsReadable \cup Dis : Read(a)
              \/ ReadDone
       PROVE  TypeInv'
  BY <1>1, <1>2, <1>10 DEF Read, ReadDone
<1>11. CASE perip_state_notify
  <2>1. gapq \in Seq(GapEvent) /\ gapq # << >> /\ gapq' = Tail(gapq)
    BY <1>11 DEF perip_state_notify, TypeInv, TypeOK
  <2>2. /\ Head(gapq) \in GapEvent /\ gapq' \in Seq(GapEvent)
        /\ Len(gapq') = Len(gapq) - 1
    BY <2>1, QueueType
  <2>3. gapq' \in Seq(GapEvent) /\ Len(gapq') =< MaxEvents
    BY <2>1, <2>2, BoundAssumption DEF TypeInv, TypeOK
  <2>4. Head(gapq).h \in Handle
    BY <2>2 DEF GapEvent
  <2>5. /\ terminating' \subseteq Handle /\ conn' \in Handle \cup {NoHandle}
        /\ events' \subseteq Event
    BY <1>2, <1>11, <2>4 DEF perip_state_notify, perip_link_established,
       perip_link_terminated, ble_adv_restart, tmos_stop_task, TypeInv, TypeOK
  <2>6. adv' \in BOOLEAN /\ timer' \in BOOLEAN
    BY <1>2, <1>11, Zenon DEF perip_state_notify, perip_link_established,
       perip_link_terminated, ble_adv_restart, tmos_stop_task, TypeInv, TypeOK
  <2>7. UNCHANGED <<links, ccc, free, sending, flag, ramLocks, wants, val>>
    BY <1>11 DEF perip_state_notify
  <2>8. QED
    BY <2>3, <2>5, <2>6, <2>7 DEF TypeInv, TypeOK, BufInv, LockInv
<1>12. CASE ProcessMsg
  BY <1>1, <1>2, <1>12 DEF ProcessMsg
<1>13. CASE ProcessStart
  <2>1. adv' \in BOOLEAN
    BY <1>13, Zenon DEF ProcessStart
  <2>2. QED
    BY <1>13, <2>1 DEF ProcessStart, TypeInv, TypeOK, BufInv, LockInv
<1>14. CASE ProcessPoll
  <2>1. free' \in 0 .. BufNum /\ sending' \in 0 .. BufNum /\ BufInv'
    BY <1>14, BoundAssumption DEF ProcessPoll, sps_notify, TypeInv, TypeOK, BufInv
  <2>2. QED BY <1>14, <2>1 DEF ProcessPoll, TypeInv, TypeOK, LockInv
<1>15. CASE ProcessTest
  <2>1. flag' \in BOOLEAN
    BY <1>15, Zenon DEF ProcessTest
  <2>2. ramLocks' \in {0, 1} /\ LockInv'
    <3>1. CASE flag
      <4>1. ~flag'
        BY <1>15, <3>1, Zenon DEF ProcessTest
      <4>2. ramLocks = 1 /\ ramLocks' = ramLocks - 1
        BY <1>15, <3>1 DEF ProcessTest, TypeInv, LockInv
      <4>3. QED BY <4>1, <4>2 DEF LockInv
    <3>2. CASE ~flag
      <4>1. flag'
        BY <1>15, <3>2, Zenon DEF ProcessTest
      <4>2. ramLocks = 0 /\ ramLocks' = ramLocks + 1
        BY <1>15, <3>2 DEF ProcessTest, TypeInv, LockInv
      <4>3. QED BY <4>1, <4>2 DEF LockInv
    <3>3. QED BY <3>1, <3>2
  <2>3. QED BY <1>15, <2>1, <2>2 DEF ProcessTest, TypeInv, TypeOK, BufInv
<1>16. QED
  BY <1>3, <1>4, <1>5, <1>6, <1>7, <1>8, <1>9, <1>10, <1>11, <1>12, <1>13,
     <1>14, <1>15 DEF Next, ProcessEvent

LEMMA TypeAlways == Spec => []TypeInv
BY TypeInit, TypeStep, PTL DEF Spec

(***************************************************************************)
(* The message buffers never become more than the library has, the lock    *)
(* count of TEST_POLL_EVENT is never negative nor above one, and every     *)
(* value of the profile keeps its length, however requests, timers and GAP *)
(* events meet (peripheral.c:92-265, sps.c:233-330).                       *)
(***************************************************************************)
THEOREM TypeCorrect == Spec => []TypeOK
<1>1. TypeInv => TypeOK
  BY DEF TypeInv
<1>2. QED BY <1>1, TypeAlways, PTL

-----------------------------------------------------------------------------
(* The links of a peripheral with any number of connections.               *)

Established(h, i) == gapq[i].op = "est" /\ gapq[i].h = h
Ended(h, i) == gapq[i].op = "term" /\ gapq[i].h = h

\* A link that is up although an end of its handle is still to be reported has
\* come up since: its establishment is reported later.
UpAgain ==
  \A h \in links, i \in 1 .. Len(gapq) :
    Ended(h, i) => \E j \in i + 1 .. Len(gapq) : Established(h, j)

StrayInv ==
  /\ NoStrayLink /\ UpAgain
  /\ \A i \in 1 .. Len(gapq) : gapq[i].op = "est" => gapq[i].state = "CONNECTED"

LEMMA StrayInit == Init => StrayInv
BY DEF Init, StrayInv, NoStrayLink, UpAgain

\* A GAP event behind the others.
LEMMA QueuedBehind ==
  ASSUME NEW e, TypeInv, gapq' = Append(gapq, e)
  PROVE  /\ Len(gapq) \in Nat /\ Len(gapq') = Len(gapq) + 1
         /\ gapq'[Len(gapq) + 1] = e
         /\ \A i \in 1 .. Len(gapq) : gapq'[i] = gapq[i]
BY DEF TypeInv, TypeOK

LEMMA StrayLinkUp ==
  ASSUME TypeInv, StrayInv, NEW h \in Handle, LinkUp(h)
  PROVE  StrayInv'
<1> DEFINE e == [op |-> "est", h |-> h, state |-> "CONNECTED"]
<1>1. /\ links' = links \cup {h} /\ UNCHANGED <<terminating, conn>>
      /\ gapq' = Append(gapq, e)
  BY DEF LinkUp
<1>2. /\ Len(gapq) \in Nat /\ Len(gapq') = Len(gapq) + 1
      /\ gapq'[Len(gapq) + 1] = e
      /\ \A i \in 1 .. Len(gapq) : gapq'[i] = gapq[i]
  BY <1>1, QueuedBehind
<1>3. NoStrayLink'
  <2> SUFFICES ASSUME NEW g \in links', g # conn, g \notin terminating
               PROVE  \E i \in 1 .. Len(gapq') : Established(g, i)'
    BY <1>1 DEF NoStrayLink, Established
  <2>1. CASE g = h
    BY <1>2, <2>1 DEF Established
  <2>2. CASE g # h
    <3>1. PICK i \in 1 .. Len(gapq) : gapq[i].op = "est" /\ gapq[i].h = g
      BY <1>1, <2>2 DEF StrayInv, NoStrayLink
    <3>2. i \in 1 .. Len(gapq') /\ Established(g, i)'
      BY <1>2, <3>1 DEF Established
    <3>3. QED BY <3>2
  <2>3. QED BY <2>1, <2>2
<1>4. UpAgain'
  <2> SUFFICES ASSUME NEW g \in links', NEW i \in 1 .. Len(gapq'), Ended(g, i)'
               PROVE  \E j \in i + 1 .. Len(gapq') : Established(g, j)'
    BY DEF UpAgain
  <2>1. i \in 1 .. Len(gapq) /\ Ended(g, i)
    BY <1>2 DEF Ended
  <2>2. CASE g = h
    <3>1. PICK j \in Nat : j = Len(gapq')
      BY <1>2
    <3>2. j \in i + 1 .. Len(gapq') /\ Established(g, j)'
      BY <1>2, <2>1, <2>2, <3>1 DEF Established
    <3>3. QED BY <3>2
  <2>3. CASE g # h
    <3>1. PICK j \in i + 1 .. Len(gapq) : Established(g, j)
      BY <1>1, <2>1, <2>3 DEF StrayInv, UpAgain
    <3>2. j \in i + 1 .. Len(gapq') /\ Established(g, j)'
      BY <1>2, <2>1, <3>1 DEF Established
    <3>3. QED BY <3>2
  <2>4. QED BY <2>2, <2>3
<1>5. QED BY <1>2, <1>3, <1>4 DEF StrayInv

LEMMA StrayLinkDown ==
  ASSUME TypeInv, StrayInv, NEW h \in Handle, LinkDown(h)
  PROVE  StrayInv'
<1>1. /\ links' = links \ {h} /\ terminating' = terminating \ {h} /\ conn' = conn
  BY DEF LinkDown
<1>2. PICK s : gapq' = Append(gapq, [op |-> "term", h |-> h, state |-> s])
  BY DEF LinkDown
<1> DEFINE e == [op |-> "term", h |-> h, state |-> s]
<1>3. /\ Len(gapq) \in Nat /\ Len(gapq') = Len(gapq) + 1
      /\ gapq'[Len(gapq) + 1] = e
      /\ \A i \in 1 .. Len(gapq) : gapq'[i] = gapq[i]
  BY <1>2, QueuedBehind
<1>4. NoStrayLink'
  <2> SUFFICES ASSUME NEW g \in links', g # conn, g \notin terminating'
               PROVE  \E i \in 1 .. Len(gapq') : Established(g, i)'
    BY <1>1 DEF NoStrayLink, Established
  <2>1. PICK i \in 1 .. Len(gapq) : gapq[i].op = "est" /\ gapq[i].h = g
    BY <1>1 DEF StrayInv, NoStrayLink
  <2>2. i \in 1 .. Len(gapq') /\ Established(g, i)'
    BY <1>3, <2>1 DEF Established
  <2>3. QED BY <2>2
<1>5. UpAgain'
  <2> SUFFICES ASSUME NEW g \in links', NEW i \in 1 .. Len(gapq'), Ended(g, i)'
               PROVE  \E j \in i + 1 .. Len(gapq') : Established(g, j)'
    BY DEF UpAgain
  <2>1. g \in links /\ g # h
    BY <1>1
  <2>2. i \in 1 .. Len(gapq) /\ Ended(g, i)
    BY <1>3, <2>1 DEF Ended
  <2>3. PICK j \in i + 1 .. Len(gapq) : Established(g, j)
    BY <2>1, <2>2 DEF StrayInv, UpAgain
  <2>4. j \in i + 1 .. Len(gapq') /\ Established(g, j)'
    BY <1>3, <2>2, <2>3 DEF Established
  <2>5. QED BY <2>4
<1>6. QED BY <1>3, <1>4, <1>5 DEF StrayInv

\* The application is told of one event.
LEMMA StrayNotified ==
  ASSUME TypeInv, StrayInv, perip_state_notify
  PROVE  StrayInv'
<1> DEFINE e == Head(gapq)
           n == Len(gapq)
<1>1. /\ gapq \in Seq(GapEvent) /\ gapq # << >> /\ gapq' = Tail(gapq)
      /\ links' = links /\ links \subseteq Handle
  BY DEF perip_state_notify, TypeInv, TypeOK
<1>2. /\ n \in Nat \ {0} /\ e = gapq[1] /\ e \in GapEvent /\ Len(gapq') = n - 1
      /\ \A i \in 1 .. n - 1 : gapq'[i] = gapq[i + 1]
  BY <1>1
<1> HIDE DEF e, n
<1>3. \A g, i : i \in 2 .. n /\ Established(g, i)
                  => i - 1 \in 1 .. Len(gapq') /\ Established(g, i - 1)'
  BY <1>2 DEF Established
<1>4. NoStrayLink'
  <2> SUFFICES ASSUME NEW g \in links
               PROVE  \/ g = conn' \/ g \in terminating'
                      \/ \E i \in 2 .. n : Established(g, i)
    BY <1>1, <1>3 DEF NoStrayLink, Established
  <2>1. g # NoHandle
    BY <1>1, HandleAssumption
  <2>2. \/ g = conn \/ g \in terminating \/ Established(g, 1)
        \/ \E i \in 2 .. n : Established(g, i)
    <3>1. g = conn \/ g \in terminating \/ \E i \in 1 .. n : Established(g, i)
      BY DEF StrayInv, NoStrayLink, Established, n
    <3>2. QED BY <1>2, <3>1
  <2>3. CASE e.op = "est" /\ e.state = "CONNECTED"
    <3>1. perip_link_established(e.h)
      BY <2>3 DEF perip_state_notify, e
    <3>2. QED
      BY <1>2, <2>1, <2>2, <3>1 DEF perip_link_established, Established
  <2>4. CASE e.op = "term" /\ e.state \in {"ADVERTISING", "WAITING"}
    <3>1. perip_link_terminated(e.h)
      BY <2>4 DEF perip_state_notify, e
    <3>2. CASE g = e.h
      <4>1. \E j \in 2 .. n : Established(g, j)
        BY <1>2, <2>4, <3>2 DEF StrayInv, UpAgain, Ended, n
      <4>2. QED BY <4>1
    <3>3. CASE g # e.h
      BY <1>2, <2>2, <2>4, <3>1, <3>3 DEF perip_link_terminated, Established
    <3>4. QED BY <3>2, <3>3
  <2>5. CASE /\ ~(e.op = "est" /\ e.state = "CONNECTED")
             /\ ~(e.op = "term" /\ e.state \in {"ADVERTISING", "WAITING"})
    <3>1. UNCHANGED <<terminating, conn>>
      BY <2>5 DEF perip_state_notify, e
    <3>2. e.op # "est"
      BY <1>2, <2>5 DEF StrayInv, n
    <3>3. QED BY <1>2, <2>2, <3>1, <3>2 DEF Established
  <2>6. QED BY <2>3, <2>4, <2>5
<1>5. UpAgain'
  <2> SUFFICES ASSUME NEW g \in links, NEW i \in 1 .. n - 1, Ended(g, i)'
               PROVE  \E j \in i + 1 .. n - 1 : Established(g, j)'
    BY <1>1, <1>2 DEF UpAgain
  <2>1. i + 1 \in 1 .. n /\ Ended(g, i + 1)
    BY <1>2 DEF Ended
  <2>2. PICK j \in i + 2 .. n : Established(g, j)
    BY <1>2, <2>1 DEF StrayInv, UpAgain, n
  <2>3. j - 1 \in i + 1 .. n - 1 /\ Established(g, j - 1)'
    BY <1>2, <1>3, <2>2
  <2>4. QED BY <2>3
<1>6. \A i \in 1 .. Len(gapq') :
        gapq'[i].op = "est" => gapq'[i].state = "CONNECTED"
  BY <1>2 DEF StrayInv, n
<1>7. QED BY <1>4, <1>5, <1>6 DEF StrayInv

LEMMA StrayStep == TypeInv /\ StrayInv /\ [Next]_vars => StrayInv'
<1> SUFFICES ASSUME TypeInv, StrayInv, [Next]_vars PROVE StrayInv'
  OBVIOUS
<1> USE DEF libvars
<1>1. ASSUME UNCHANGED <<links, terminating, gapq, conn>>
      PROVE  StrayInv'
  BY <1>1 DEF StrayInv, NoStrayLink, UpAgain, Established, Ended
<1>2. CASE UNCHANGED vars
  BY <1>1, <1>2 DEF vars
<1>3. ASSUME NEW h \in Handle, LinkUp(h)
      PROVE  StrayInv'
  BY <1>3, StrayLinkUp
<1>4. ASSUME NEW h \in Handle, LinkDown(h)
      PROVE  StrayInv'
  BY <1>4, StrayLinkDown
<1>5. CASE perip_state_notify
  BY <1>5, StrayNotified
<1>6. ASSUME \/ \E h \in Handle, config \in BOOLEAN : sps_write_ccc(h, config)
             \/ \E x \in {"poll", "test"} : TimerFires(x)
             \/ Message \/ Sent \/ ReadDone \/ ProcessEvent
             \/ \E a \in SpsReadable \cup Dis : Read(a)
             \/ \E a, w : sps_write_value(a, w)
      PROVE  StrayInv'
  BY <1>1, <1>6 DEF sps_write_ccc, TimerFires, Message, Sent, ReadDone, Read,
     sps_write_value, ProcessEvent, ProcessMsg, ProcessStart, ProcessPoll,
     ProcessTest
<1>7. QED BY <1>2, <1>3, <1>4, <1>5, <1>6 DEF Next

(***************************************************************************)
(* For any number of connections, handles and events under way, a link     *)
(* that is up is the application's, or about to be terminated, or about to *)
(* be reported to it (peripheral.c:232-265).                               *)
(***************************************************************************)
THEOREM LinksAccounted == Spec => []NoStrayLink
<1>1. StrayInv => NoStrayLink
  BY DEF StrayInv
<1>2. QED BY <1>1, TypeAlways, StrayInit, StrayStep, PTL DEF Spec

-----------------------------------------------------------------------------
(* The notifications of a peripheral with one connection.                  *)

\* No client: what a connection has left behind is gone.
Idle == links = {} /\ gapq = << >> /\ conn = NoHandle /\ timer = FALSE

\* The client on h: the application learns of its link and of its end.
ClientOf(h) ==
  /\ adv = FALSE /\ "start" \notin events
  /\ \/ links = {h} /\ conn = NoHandle
        /\ gapq = <<[op |-> "est", h |-> h, state |-> "CONNECTED"]>>
     \/ links = {h} /\ conn = h /\ gapq = << >>
     \/ /\ links = {} /\ conn = NoHandle
        /\ \E s \in {"ADVERTISING", "WAITING"} :
             gapq = <<[op |-> "est", h |-> h, state |-> "CONNECTED"],
                      [op |-> "term", h |-> h, state |-> s]>>
     \/ /\ links = {} /\ conn = h
        /\ \E s \in {"ADVERTISING", "WAITING"} :
             gapq = <<[op |-> "term", h |-> h, state |-> s]>>

LinkInv ==
  /\ wants \subseteq links
  /\ adv => "start" \notin events
  /\ Idle \/ \E h \in Handle : ClientOf(h)
  /\ \A h \in links : timer <=> h \in wants

LEMMA LinkInit == Init => LinkInv
BY DEF Init, LinkInv, Idle

\* Steps that concern neither the link nor the notifications.
LEMMA LinkKept ==
  ASSUME LinkInv, UNCHANGED <<links, adv, gapq, conn, timer, wants>>,
         events' \subseteq events \cup {"msg", "poll", "test"}
  PROVE  LinkInv'
<1>1. "start" \in events' => "start" \in events
  OBVIOUS
<1>2. Idle => Idle'
  BY DEF Idle
<1>3. \A h \in Handle : ClientOf(h) => ClientOf(h)'
  BY <1>1 DEF ClientOf
<1>4. QED BY <1>1, <1>2, <1>3 DEF LinkInv

\* Append, by the elements of its result.
LEMMA AppendIs ==
  ASSUME NEW S, NEW s \in Seq(S), NEW y \in S, NEW t \in Seq(S),
         Len(t) = Len(s) + 1, \A i \in 1 .. Len(s) : t[i] = s[i],
         t[Len(s) + 1] = y
  PROVE  Append(s, y) = t
<1> DEFINE u == Append(s, y)
<1>1. /\ u \in Seq(S) /\ Len(u) = Len(s) + 1
      /\ \A i \in 1 .. Len(s) + 1 : u[i] = IF i =< Len(s) THEN s[i] ELSE y
  OBVIOUS
<1> HIDE DEF u
<1>2. \A i \in 1 .. Len(u) : u[i] = t[i]
  BY <1>1
<1>3. u = t
  BY <1>1, <1>2, SeqEqual
<1>4. QED BY <1>3 DEF u

\* Lists of one and of two events.
LEMMA ShortQueues ==
  ASSUME NEW x, NEW y
  PROVE  /\ Append(<<x>>, y) = <<x, y>> /\ Tail(<<x>>) = << >>
         /\ Tail(<<x, y>>) = <<y>> /\ Head(<<x>>) = x /\ Head(<<x, y>>) = x
<1>1. Append(<<x>>, y) = <<x, y>>
  <2> DEFINE S == {x, y}
             s == <<x>>
             t == <<x, y>>
  <2>1. s \in Seq(S) /\ t \in Seq(S) /\ y \in S
    OBVIOUS
  <2>2. Len(s) = 1 /\ Len(t) = 2 /\ s[1] = x /\ t[1] = x /\ t[2] = y
    OBVIOUS
  <2> HIDE DEF S, s, t
  <2>3. /\ Len(t) = Len(s) + 1 /\ t[Len(s) + 1] = y
        /\ \A i \in 1 .. Len(s) : t[i] = s[i]
    BY <2>2
  <2>4. Append(s, y) = t
    BY <2>1, <2>3, AppendIs, Zenon
  <2>5. QED BY <2>4 DEF s, t
<1>2. Tail(<<x>>) = << >>
  OBVIOUS
<1>3. Tail(<<x, y>>) = <<y>>
  OBVIOUS
<1>4. Head(<<x>>) = x /\ Head(<<x, y>>) = x
  OBVIOUS
<1>5. QED BY <1>1, <1>2, <1>3, <1>4

\* A link comes up only when the one before it is forgotten.
LEMMA LinkUpInv ==
  ASSUME MaxConn = 1, TypeInv, LinkInv, NEW h \in Handle, LinkUp(h)
  PROVE  LinkInv'
<1>1. adv = TRUE
  BY DEF LinkUp, TypeInv, TypeOK
<1>2. Idle /\ wants = {} /\ "start" \notin events
  BY <1>1 DEF LinkInv, ClientOf, Idle
<1>3. /\ links' = {h} /\ conn' = NoHandle /\ timer' = FALSE /\ wants' = {}
      /\ events' = events
  BY <1>2 DEF LinkUp, Idle
<1>4. gapq' = <<[op |-> "est", h |-> h, state |-> "CONNECTED"]>>
  BY <1>2 DEF LinkUp, Idle
<1>5. adv' = FALSE
  <2>1. ~(Cardinality(links') < MaxConn)
    BY <1>3, FS_Singleton
  <2>2. QED BY <2>1 DEF LinkUp
<1>6. ClientOf(h)'
  BY <1>2, <1>3, <1>4, <1>5 DEF ClientOf
<1>7. QED BY <1>2, <1>3, <1>5, <1>6 DEF LinkInv

LEMMA LinkDownInv ==
  ASSUME LinkInv, NEW h \in Handle, LinkDown(h)
  PROVE  LinkInv'
<1>1. h \in links /\ links # {}
  BY DEF LinkDown
<1>2. links = {h} /\ ClientOf(h)
  BY <1>1 DEF LinkInv, Idle, ClientOf
<1>3. /\ links' = {} /\ wants' = {}
      /\ UNCHANGED <<adv, conn, timer, events>>
  BY <1>2 DEF LinkDown, LinkInv
<1>4. PICK s \in {"ADVERTISING", "WAITING"} :
        gapq' = Append(gapq, [op |-> "term", h |-> h, state |-> s])
  BY <1>3 DEF LinkDown
<1>5. CASE conn = NoHandle /\ gapq = <<[op |-> "est", h |-> h, state |-> "CONNECTED"]>>
  <2>1. gapq' = <<[op |-> "est", h |-> h, state |-> "CONNECTED"],
                  [op |-> "term", h |-> h, state |-> s]>>
    BY <1>4, <1>5, ShortQueues, Zenon
  <2>2. ClientOf(h)'
    BY <1>2, <1>3, <1>5, <2>1 DEF ClientOf
  <2>3. QED BY <1>2, <1>3, <2>2 DEF LinkInv
<1>6. CASE conn = h /\ gapq = << >>
  <2>1. gapq' = <<[op |-> "term", h |-> h, state |-> s]>>
    BY <1>4, <1>6
  <2>2. ClientOf(h)'
    BY <1>2, <1>3, <1>6, <2>1 DEF ClientOf
  <2>3. QED BY <1>2, <1>3, <2>2 DEF LinkInv
<1>7. QED BY <1>2, <1>5, <1>6 DEF ClientOf

LEMMA WriteCccInv ==
  ASSUME LinkInv, NEW h \in Handle, NEW config \in BOOLEAN,
         sps_write_ccc(h, config)
  PROVE  LinkInv'
<1>1. h \in links
  BY DEF sps_write_ccc
<1>2. links = {h} /\ ClientOf(h)
  BY <1>1 DEF LinkInv, Idle, ClientOf
<1>3. UNCHANGED <<links, adv, gapq, conn>> /\ events' \subseteq events
  BY DEF sps_write_ccc, sps_ccc_changed, tmos_stop_task
<1>4. wants' \subseteq links' /\ (timer' <=> h \in wants')
  <2>1. CASE config
    BY <1>2, <1>3, <2>1 DEF sps_write_ccc, sps_ccc_changed, LinkInv
  <2>2. CASE ~config
    BY <1>2, <1>3, <2>2 DEF sps_write_ccc, sps_ccc_changed, tmos_stop_task, LinkInv
  <2>3. QED BY <2>1, <2>2
<1>5. ClientOf(h)'
  BY <1>2, <1>3 DEF ClientOf
<1>6. adv' => "start" \notin events'
  BY <1>2, <1>3 DEF ClientOf
<1>7. \A g \in links' : timer' <=> g \in wants'
  BY <1>2, <1>3, <1>4
<1>8. QED BY <1>4, <1>5, <1>6, <1>7 DEF LinkInv

\* The application learns of a link, or of its end.
LEMMA StateNotifyInv ==
  ASSUME LinkInv, perip_state_notify
  PROVE  LinkInv'
<1>1. gapq # << >> /\ gapq' = Tail(gapq) /\ links' = links /\ wants' = wants
  BY DEF perip_state_notify
<1>2. PICK h \in Handle : ClientOf(h)
  BY <1>1 DEF LinkInv, Idle
<1>3. CASE Head(gapq) = [op |-> "est", h |-> h, state |-> "CONNECTED"]
  <2>1. conn = NoHandle
    BY <1>1, <1>2, <1>3 DEF ClientOf
  <2>2. perip_link_established(h)
    BY <1>3 DEF perip_state_notify
  <2>3. conn' = h /\ UNCHANGED <<adv, timer, events>>
    BY <2>1, <2>2 DEF perip_link_established
  <2>4. CASE links = {h} /\ gapq = <<[op |-> "est", h |-> h, state |-> "CONNECTED"]>>
    <3>1. gapq' = << >>
      BY <1>1, <2>4, ShortQueues, Zenon
    <3>2. ClientOf(h)'
      BY <1>1, <1>2, <2>3, <2>4, <3>1 DEF ClientOf
    <3>3. QED BY <1>1, <1>2, <2>3, <3>2 DEF LinkInv, ClientOf
  <2>5. ASSUME NEW s \in {"ADVERTISING", "WAITING"}, links = {},
               gapq = <<[op |-> "est", h |-> h, state |-> "CONNECTED"],
                        [op |-> "term", h |-> h, state |-> s]>>
        PROVE  LinkInv'
    <3>1. gapq' = <<[op |-> "term", h |-> h, state |-> s]>>
      BY <1>1, <2>5, ShortQueues, Zenon
    <3>2. ClientOf(h)'
      BY <1>1, <1>2, <2>3, <2>5, <3>1 DEF ClientOf
    <3>3. QED BY <1>1, <1>2, <2>3, <3>2 DEF LinkInv, ClientOf
  <2>6. QED BY <1>1, <1>2, <1>3, <2>1, <2>4, <2>5, HandleAssumption DEF ClientOf
<1>4. ASSUME NEW s \in {"ADVERTISING", "WAITING"},
             gapq = <<[op |-> "term", h |-> h, state |-> s]>>, conn = h, links = {}
      PROVE  LinkInv'
  <2>1. perip_link_terminated(h) /\ gapq' = << >>
    BY <1>1, <1>4 DEF perip_state_notify
  <2>2. conn' = NoHandle /\ timer' = FALSE /\ events' \subseteq events
    BY <1>4, <2>1 DEF perip_link_terminated, tmos_stop_task
  <2>3. Idle'
    BY <1>1, <1>4, <2>1, <2>2 DEF Idle
  <2>4. "start" \notin events'
    BY <1>2, <2>2 DEF ClientOf
  <2>5. QED BY <1>1, <1>4, <2>3, <2>4 DEF LinkInv
<1>5. QED BY <1>1, <1>2, <1>3, <1>4 DEF ClientOf

LEMMA LinkStep ==
  ASSUME MaxConn = 1, TypeInv, LinkInv, [Next]_vars
  PROVE  LinkInv'
<1> USE DEF libvars, gattvars
<1>1. CASE UNCHANGED vars
  BY <1>1, LinkKept DEF vars
<1>2. ASSUME NEW h \in Handle, LinkUp(h)
      PROVE  LinkInv'
  BY <1>2, LinkUpInv
<1>3. ASSUME NEW h \in Handle, LinkDown(h)
      PROVE  LinkInv'
  BY <1>3, LinkDownInv
<1>4. ASSUME NEW h \in Handle, NEW config \in BOOLEAN, sps_write_ccc(h, config)
      PROVE  LinkInv'
  BY <1>4, WriteCccInv
<1>5. ASSUME NEW e \in {"poll", "test"}, TimerFires(e)
      PROVE  LinkInv'
  BY <1>5, LinkKept DEF TimerFires
<1>6. CASE Message
  BY <1>6, LinkKept DEF Message
<1>7. CASE Sent
  BY <1>7, LinkKept DEF Sent
<1>8. ASSUME NEW a, NEW w, sps_write_value(a, w)
      PROVE  LinkInv'
  BY <1>8, LinkKept DEF sps_write_value
<1>9. ASSUME NEW a, Read(a)
      PROVE  LinkInv'
  BY <1>9, LinkKept DEF Read
<1>10. CASE ReadDone
  BY <1>10, LinkKept DEF ReadDone
<1>11. CASE perip_state_notify
  BY <1>11, StateNotifyInv
<1>12. CASE ProcessMsg
  BY <1>12, LinkKept DEF ProcessMsg
<1>13. CASE ProcessStart
  <2>1. /\ "start" \in events /\ "start" \notin events'
        /\ UNCHANGED <<links, gapq, conn, timer, wants>>
    BY <1>13 DEF ProcessStart, First
  <2>2. Idle /\ Idle'
    BY <2>1 DEF LinkInv, ClientOf, Idle
  <2>3. QED BY <2>1, <2>2 DEF LinkInv
<1>14. CASE ProcessPoll
  BY <1>14, LinkKept DEF ProcessPoll
<1>15. CASE ProcessTest
  BY <1>15, LinkKept DEF ProcessTest
<1>16. QED
  BY <1>1, <1>2, <1>3, <1>4, <1>5, <1>6, <1>7, <1>8, <1>9, <1>10, <1>11, <1>12,
     <1>13, <1>14, <1>15 DEF Next, ProcessEvent

(***************************************************************************)
(* On a peripheral with one connection the notification timer runs exactly *)
(* while the client of the link has notifications on, although the GAP     *)
(* events arrive late and the table of configurations is not reset: the    *)
(* next link cannot come up before perip_link_terminated has switched      *)
(* advertising on and the timer off (peripheral.c:92-102, 232-265).        *)
(***************************************************************************)
THEOREM PollRunsForClient ==
  ASSUME MaxConn = 1
  PROVE  Spec => []PollFollowsClient
<1>1. Init => LinkInv
  BY LinkInit
<1>2. TypeInv /\ LinkInv /\ [Next]_vars => LinkInv'
  BY LinkStep
<1>3. LinkInv => PollFollowsClient
  BY DEF LinkInv, PollFollowsClient
<1>4. QED BY <1>1, <1>2, <1>3, TypeAlways, PTL DEF Spec

-----------------------------------------------------------------------------
(* Reads of values longer than a response.                                 *)

\* The read of attribute a has got the bytes g; more says that it goes on.
Got(a, g, more) ==
  \/ a \in Sps /\ g = val[a]
  \/ /\ a \in Dis
     /\ \E n \in 0 .. DisLen(a) :
          g = SubSeq(DisVal[a], 1, n) /\ (~more => n = DisLen(a))

ReadInv == rd = NoRead \/ Got(rd.attr, rd.got, rd.more)

LEMMA DisType ==
  ASSUME NEW a \in Dis
  PROVE  /\ DisVal[a] \in Seq(0 .. 255) /\ Len(DisVal[a]) \in Nat
         /\ DisLen(a) \in Nat /\ DisLen(a) =< Len(DisVal[a]) /\ a \notin Sps
<1>1. DisVal[a] \in Seq(0 .. 255) /\ DisLen(a) >= 0
  BY DisAssumption
<1>2. Len(DisVal[a]) \in Nat
  BY <1>1
<1>3. DisLen(a) \in Nat /\ DisLen(a) =< Len(DisVal[a])
  <2>1. DisLen(a) = Len(DisVal[a]) - 0 \/ DisLen(a) = Len(DisVal[a]) - 1
    BY DEF DisLen
  <2>2. QED BY <1>1, <1>2, <2>1
<1>4. a \notin Sps
  BY DEF Dis, Sps
<1>5. QED BY <1>1, <1>2, <1>3, <1>4

\* A part of a value, and the part behind it.
LEMMA PartIs ==
  ASSUME NEW S, NEW v \in Seq(S), NEW m \in Nat, NEW n \in Nat, m + n =< Len(v)
  PROVE  /\ Part(v, m, n) \in Seq(S) /\ Len(Part(v, m, n)) = n
         /\ SubSeq(v, 1, m) \o Part(v, m, n) = SubSeq(v, 1, m + n)
<1>1. SubSeq(v, m + 1, m + n) \in Seq(S) /\ Len(SubSeq(v, m + 1, m + n)) = n
  OBVIOUS
<1>2. 1 \in 1 .. Len(v) + 1 /\ m \in 1 - 1 .. Len(v) /\ m + n \in m .. Len(v)
  <2>1. Len(v) \in Nat
    OBVIOUS
  <2>2. QED BY <2>1
<1>3. SubSeq(v, 1, m) \o SubSeq(v, m + 1, m + n) = SubSeq(v, 1, m + n)
  BY <1>2, ConcatAdjacentSubSeq
<1>4. QED BY <1>1, <1>3 DEF Part

\* The first m elements are m.
LEMMA FrontLen ==
  ASSUME NEW S, NEW v \in Seq(S), NEW m \in Nat, m =< Len(v)
  PROVE  SubSeq(v, 1, m) \in Seq(S) /\ Len(SubSeq(v, 1, m)) = m
OBVIOUS

\* A response to the read of a characteristic: all of it, then an error.
LEMMA SpsReadIs ==
  ASSUME TypeInv, NEW a \in SpsReadable
  PROVE  /\ sps_read(a, val[a], 0, MaxLen).data = val[a]
         /\ sps_read(a, val[a], Len(val[a]), MaxLen).data = << >>
         /\ val[a] \in Seq(Byte)
<1>1. a \in Sps /\ CharLen[a] \in 1 .. MaxLen /\ val[a] \in [1 .. CharLen[a] -> Byte]
  BY LenAssumption DEF SpsReadable, Sps, TypeInv, TypeOK
<1>2. CharLen[a] \in Nat /\ CharLen[a] > 0 /\ MaxLen \in Nat /\ CharLen[a] =< MaxLen
  BY <1>1, BoundAssumption
<1>3. val[a] \in Seq(Byte) /\ Len(val[a]) = CharLen[a]
  BY <1>1, <1>2
<1>4. Part(val[a], 0, CharLen[a]) = val[a]
  BY <1>2, <1>3, SubSeqFull DEF Part
<1>5. sps_read(a, val[a], 0, MaxLen).data = val[a]
  <2>1. (IF MaxLen > CharLen[a] THEN CharLen[a] ELSE MaxLen) = CharLen[a]
    BY <1>2
  <2>2. QED BY <1>4, <2>1 DEF sps_read, Success, SpsReadable
<1>6. sps_read(a, val[a], Len(val[a]), MaxLen).data = << >>
  BY <1>2, <1>3 DEF sps_read, Error
<1>7. QED BY <1>3, <1>5, <1>6

\* A response to the read of a device information value goes on at off.
LEMMA DisReadIs ==
  ASSUME NEW a \in Dis, NEW off \in Nat, off =< DisLen(a),
         NEW d, d = dis_read(a, off, MaxLen).data
  PROVE  /\ Len(d) \in Nat /\ off + Len(d) =< DisLen(a)
         /\ SubSeq(DisVal[a], 1, off) \o d = SubSeq(DisVal[a], 1, off + Len(d))
         /\ Len(d) # MaxLen => off + Len(d) = DisLen(a)
<1> DEFINE n == Least(MaxLen, DisLen(a) - off)
<1>1. /\ DisVal[a] \in Seq(0 .. 255) /\ Len(DisVal[a]) \in Nat
      /\ DisLen(a) \in Nat /\ DisLen(a) =< Len(DisVal[a])
  BY DisType
<1>2. CASE off >= DisLen(a)
  <2>1. d = << >> /\ off = DisLen(a)
    BY <1>1, <1>2 DEF dis_read, Error
  <2>2. SubSeq(DisVal[a], 1, off) \in Seq(0 .. 255)
    BY <1>1, FrontLen
  <2>3. SubSeq(DisVal[a], 1, off) \o << >> = SubSeq(DisVal[a], 1, off)
    BY <2>2, ConcatEmptySeq
  <2>4. Len(d) = 0
    BY <2>1
  <2>5. QED BY <1>1, <2>1, <2>3, <2>4
<1>3. CASE off < DisLen(a)
  <2>1. /\ n \in Nat /\ off + n =< DisLen(a) /\ off + n =< Len(DisVal[a])
        /\ n # MaxLen => off + n = DisLen(a)
    BY <1>1, <1>3, BoundAssumption DEF Least
  <2> HIDE DEF n
  <2>2. d = Part(DisVal[a], off, n)
    <3>1. ~(off >= DisLen(a))
      BY <1>1, <1>3
    <3>2. QED BY <3>1 DEF dis_read, Success, n
  <2> DEFINE S == 0 .. 255
             v == DisVal[a]
  <2>3. v \in Seq(S)
    BY <1>1
  <2>4. off + n =< Len(v)
    BY <2>1
  <2> HIDE DEF S, v
  <2>5. /\ Len(Part(v, off, n)) = n
        /\ SubSeq(v, 1, off) \o Part(v, off, n) = SubSeq(v, 1, off + n)
    BY <2>1, <2>3, <2>4, PartIs
  <2>6. Len(d) = n /\ SubSeq(v, 1, off) \o d = SubSeq(v, 1, off + n)
    BY <2>2, <2>5 DEF v
  <2>7. SubSeq(v, 1, off) \o d = SubSeq(v, 1, off + Len(d))
    BY <2>6, Zenon
  <2>8. /\ Len(d) \in Nat /\ off + Len(d) =< DisLen(a)
        /\ Len(d) # MaxLen => off + Len(d) = DisLen(a)
    BY <2>1, <2>6
  <2>9. SubSeq(DisVal[a], 1, off) \o d = SubSeq(DisVal[a], 1, off + Len(d))
    BY <2>7 DEF v
  <2>10. QED BY <2>8, <2>9, Zenon
<1>4. off >= DisLen(a) \/ off < DisLen(a)
  BY <1>1
<1>5. QED BY <1>2, <1>3, <1>4, Zenon

LEMMA ReadStep ==
  ASSUME TypeInv, ReadInv, NEW a \in SpsReadable \cup Dis, Read(a)
  PROVE  ReadInv'
<1> DEFINE off == Len(rd.got)
           rsp == IF a \in Sps THEN sps_read(a, val[a], off, MaxLen)
                  ELSE dis_read(a, off, MaxLen)
<1>1. /\ rd = NoRead \/ (rd.more /\ rd.attr = a)
      /\ val' = val
      /\ rd' = [attr |-> a, got |-> rd.got \o rsp.data,
                more |-> Len(rsp.data) = MaxLen]
  BY DEF Read
<1>2. /\ rd'.attr = a /\ rd'.got = rd.got \o rsp.data
      /\ rd'.more = (Len(rsp.data) = MaxLen)
  BY <1>1
<1>3. rd # NoRead => Got(a, rd.got, rd.more)
  BY <1>1 DEF ReadInv
<1>4. CASE a \in SpsReadable
  <2>1. a \in Sps
    BY <1>4 DEF SpsReadable, Sps
  <2>2. rd'.got = val[a]
    <3>1. CASE rd = NoRead
      <4>1. rd.got = << >> /\ off = 0
        BY <3>1 DEF NoRead
      <4>2. rsp.data = val[a]
        BY <1>4, <2>1, <4>1, SpsReadIs
      <4>3. << >> \o val[a] = val[a]
        BY <1>4, SpsReadIs, ConcatEmptySeq
      <4>4. QED BY <1>2, <4>1, <4>2, <4>3
    <3>2. CASE rd # NoRead
      <4>1. rd.got = val[a]
        BY <1>3, <2>1, <3>2, DisType DEF Got
      <4>2. rsp.data = << >>
        BY <1>4, <2>1, <4>1, SpsReadIs
      <4>3. val[a] \o << >> = val[a]
        BY <1>4, SpsReadIs, ConcatEmptySeq
      <4>4. QED BY <1>2, <4>1, <4>2, <4>3
    <3>3. QED BY <3>1, <3>2
  <2>3. QED BY <1>1, <1>2, <2>1, <2>2 DEF ReadInv, Got
<1>5. CASE a \in Dis
  <2> DEFINE D == DisVal[a]
  <2>1. /\ a \notin Sps /\ DisLen(a) \in Nat /\ D \in Seq(0 .. 255)
        /\ DisLen(a) =< Len(D)
    BY <1>5, DisType
  <2>2. off \in Nat /\ off =< DisLen(a) /\ rd.got = SubSeq(D, 1, off)
    <3>1. CASE rd = NoRead
      <4>1. rd.got = << >> /\ off = 0
        BY <3>1 DEF NoRead
      <4>2. SubSeq(D, 1, 0) = << >>
        BY SubSeqEmpty
      <4>3. QED BY <2>1, <4>1, <4>2
    <3>2. CASE rd # NoRead
      <4>1. PICK n \in 0 .. DisLen(a) : rd.got = SubSeq(D, 1, n)
        BY <1>3, <2>1, <3>2 DEF Got
      <4>2. n \in Nat /\ n =< DisLen(a) /\ n =< Len(D)
        BY <2>1
      <4>3. Len(SubSeq(D, 1, n)) = n
        BY <2>1, <4>2, FrontLen
      <4>4. QED BY <4>1, <4>2, <4>3
    <3>3. QED BY <3>1, <3>2
  <2> DEFINE d == rsp.data
  <2>3. d = dis_read(a, off, MaxLen).data
    BY <2>1
  <2> HIDE DEF off, d
  <2>4. /\ Len(d) \in Nat /\ off + Len(d) =< DisLen(a)
        /\ SubSeq(D, 1, off) \o d = SubSeq(D, 1, off + Len(d))
        /\ Len(d) # MaxLen => off + Len(d) = DisLen(a)
    BY <1>5, <2>2, <2>3, DisReadIs
  <2>5. rd'.got = SubSeq(D, 1, off + Len(d)) /\ rd'.more = (Len(d) = MaxLen)
    BY <1>2, <2>2, <2>4 DEF d, off
  <2>6. off + Len(d) \in 0 .. DisLen(a) /\ (~rd'.more => off + Len(d) = DisLen(a))
    <3>1. off + Len(d) \in 0 .. DisLen(a)
      BY <2>1, <2>2, <2>4
    <3>2. ~rd'.more => Len(d) # MaxLen
      BY <2>5, Zenon
    <3>3. QED BY <2>4, <3>1, <3>2
  <2>7. QED BY <1>2, <1>5, <2>5, <2>6 DEF ReadInv, Got
<1>6. QED BY <1>4, <1>5

LEMMA ReadInvStep == TypeInv /\ ReadInv /\ [Next]_vars => ReadInv'
<1> SUFFICES ASSUME TypeInv, ReadInv, [Next]_vars PROVE ReadInv'
  OBVIOUS
<1>1. ASSUME UNCHANGED gattvars PROVE ReadInv'
  BY <1>1 DEF ReadInv, Got, gattvars
<1>2. ASSUME rd' = NoRead PROVE ReadInv'
  BY <1>2 DEF ReadInv
<1>3. ASSUME NEW a, Read(a), a \in SpsReadable \cup Dis PROVE ReadInv'
  BY <1>3, ReadStep
<1>4. ASSUME NEW h, \/ LinkUp(h) \/ LinkDown(h)
                    \/ \E config \in BOOLEAN : sps_write_ccc(h, config)
      PROVE  ReadInv'
  BY <1>1, <1>2, <1>4 DEF LinkUp, LinkDown, sps_write_ccc
<1>5. ASSUME \/ \E e \in {"poll", "test"} : TimerFires(e)
             \/ Message \/ Sent \/ perip_state_notify \/ ProcessEvent
             \/ UNCHANGED vars
      PROVE  ReadInv'
  BY <1>1, <1>5 DEF TimerFires, Message, Sent, perip_state_notify, ProcessEvent,
     ProcessMsg, ProcessStart, ProcessPoll, ProcessTest, vars, gattvars
<1>6. ASSUME NEW a, NEW w, sps_write_value(a, w) PROVE ReadInv'
  BY <1>2, <1>6 DEF sps_write_value
<1>7. CASE ReadDone
  BY <1>2, <1>7 DEF ReadDone
<1>8. QED BY <1>3, <1>4, <1>5, <1>6, <1>7 DEF Next

(***************************************************************************)
(* However long the values and the responses are, a read in parts ends     *)
(* with exactly the value: each response goes on where the last one        *)
(* stopped, and the error behind a full last response adds nothing         *)
(* (sps.c:145-231, dis.c:165-297).                                         *)
(***************************************************************************)
THEOREM ReadsWhole == Spec => []ReadWhole
<1>1. Init => ReadInv
  BY DEF Init, ReadInv
<1>2. ReadInv => ReadWhole
  <2> SUFFICES ASSUME ReadInv, rd # NoRead, ~rd.more
               PROVE  rd.got = IF rd.attr \in Sps THEN val[rd.attr]
                               ELSE SubSeq(DisVal[rd.attr], 1, DisLen(rd.attr))
    BY DEF ReadWhole
  <2>1. CASE rd.attr \in Sps
    BY <2>1, DisType DEF ReadInv, Got
  <2>2. CASE rd.attr \notin Sps
    BY <2>2 DEF ReadInv, Got
  <2>3. QED BY <2>1, <2>2
<1>3. QED BY <1>1, <1>2, ReadInvStep, TypeAlways, PTL DEF Spec

-----------------------------------------------------------------------------
(* The advertising data.                                                   *)

\* f is the content of the buffer after each of the elements.
Contents(f, buf, elems) ==
  f = [i \in 0 .. Len(elems) |->
        IF i = 0 THEN buf
        ELSE f[i - 1] \o <<Len(elems[i].data) + 1, elems[i].type>>
               \o elems[i].data]

\* The bytes of one element.
Encoded(e) == <<Len(e.data) + 1, e.type>> \o e.data

\* There is such a function.
LEMMA ContentsExist ==
  ASSUME NEW buf, NEW elems, Len(elems) \in Nat
  PROVE  \E f : Contents(f, buf, elems)
<1> DEFINE m == Len(elems)
           New(i) == <<Len(elems[i].data) + 1, elems[i].type>>
           Upto(f, k) == f = [i \in 0 .. k |->
                               IF i = 0 THEN buf
                               ELSE f[i - 1] \o New(i) \o elems[i].data]
           T == {k \in Nat : \E f : Upto(f, k)}
<1> HIDE DEF New
<1>1. 0 \in T
  <2> DEFINE f == [i \in 0 .. 0 |-> buf]
  <2>1. Upto(f, 0)
    OBVIOUS
  <2>2. QED BY <2>1
<1>2. ASSUME NEW k \in Nat, k \in T PROVE k + 1 \in T
  <2>1. PICK f : Upto(f, k)
    BY <1>2
  <2> DEFINE g == [i \in 0 .. k + 1 |->
                    IF i = 0 THEN buf ELSE f[i - 1] \o New(i) \o elems[i].data]
  <2>2. \A i \in 0 .. k : g[i] = f[i]
    <3> SUFFICES ASSUME NEW i \in 0 .. k PROVE g[i] = f[i]
      OBVIOUS
    <3>1. f[i] = IF i = 0 THEN buf ELSE f[i - 1] \o New(i) \o elems[i].data
      BY <2>1, Zenon
    <3>2. i \in 0 .. k + 1
      OBVIOUS
    <3>3. g[i] = IF i = 0 THEN buf ELSE f[i - 1] \o New(i) \o elems[i].data
      BY <3>2, Zenon
    <3>4. QED BY <3>1, <3>3, Zenon
  <2>3. \A i \in 0 .. k + 1 : i # 0 => f[i - 1] = g[i - 1]
    <3> SUFFICES ASSUME NEW i \in 0 .. k + 1, i # 0 PROVE f[i - 1] = g[i - 1]
      OBVIOUS
    <3>1. i - 1 \in 0 .. k
      OBVIOUS
    <3> HIDE DEF g
    <3>2. QED BY <2>2, <3>1
  <2>4. Upto(g, k + 1)
    BY <2>3
  <2> HIDE DEF g, Upto
  <2>5. QED BY <2>4
<1>3. m \in T
  BY <1>1, <1>2, Induct
<1>4. QED BY <1>3 DEF Contents, New

\* f goes on from an empty buffer element by element.
Grows(f, elems) ==
  /\ Len(elems) \in Nat /\ f[0] = << >>
  /\ \A i \in 0 .. Len(elems) : f[i] \in Seq(Nat)
  /\ \A i \in 1 .. Len(elems) :
       /\ elems[i].type \in Nat /\ elems[i].data \in Seq(Nat)
       /\ f[i] = f[i - 1] \o Encoded(elems[i])

\* AddElements is the last value of that function.
LEMMA AddIs ==
  ASSUME NEW elems \in ElementLists
  PROVE  /\ elems \in [1 .. Len(elems) -> ble_data]
         /\ \E f : AddElements(<< >>, elems) = f[Len(elems)] /\ Grows(f, elems)
<1> DEFINE m == Len(elems)
           f == CHOOSE g : Contents(g, << >>, elems)
<1>1. m \in Nat /\ elems \in [1 .. m -> ble_data]
  <2>1. PICK n \in 0 .. MaxElems : elems \in [1 .. n -> ble_data]
    BY DEF ElementLists
  <2>2. n \in Nat
    BY AdvAssumption
  <2>3. QED BY <2>1, <2>2
<1>2. Contents(f, << >>, elems)
  BY <1>1, ContentsExist
<1>3. AddElements(<< >>, elems) = f[m]
  BY Zenon DEF AddElements, Contents
<1>4. \A i \in 1 .. m : elems[i].type \in Nat /\ elems[i].data \in Seq(Nat)
  <2> SUFFICES ASSUME NEW i \in 1 .. m
               PROVE  elems[i].type \in Nat /\ elems[i].data \in Seq(Nat)
    OBVIOUS
  <2>1. elems[i] \in ble_data
    BY <1>1
  <2>2. elems[i].type \in Nat
    BY <2>1, AdvAssumption DEF ble_data
  <2>3. PICK n \in 0 .. MaxData : elems[i].data \in [1 .. n -> AdByte]
    BY <2>1 DEF ble_data
  <2>4. n \in Nat
    BY AdvAssumption
  <2>5. elems[i].data \in [1 .. n -> Nat]
    <3>1. AdByte \subseteq Nat
      BY AdvAssumption
    <3> DEFINE d == elems[i].data
    <3>2. d \in [1 .. n -> AdByte]
      BY <2>3
    <3> HIDE DEF d
    <3>3. d \in [1 .. n -> Nat]
      BY <3>1, <3>2
    <3>4. QED BY <3>3 DEF d
  <2>6. QED BY <2>2, <2>4, <2>5
<1> DEFINE V(i) == IF i = 0 THEN << >>
                   ELSE f[i - 1] \o <<Len(elems[i].data) + 1, elems[i].type>>
                          \o elems[i].data
<1>5. \A i \in 0 .. m : f[i] = V(i)
  <2>1. f = [i \in 0 .. m |-> V(i)]
    BY <1>2 DEF Contents
  <2> HIDE DEF f, V, m
  <2>2. QED BY <2>1, Zenon
<1> HIDE DEF f, V
<1>6. f[0] = << >>
  <2>1. f[0] = V(0)
    BY <1>1, <1>5
  <2>2. QED BY <2>1 DEF V
<1>7. ASSUME NEW i \in 1 .. m, f[i - 1] \in Seq(Nat)
      PROVE  f[i] = f[i - 1] \o Encoded(elems[i]) /\ f[i] \in Seq(Nat)
  <2> DEFINE a == f[i - 1]
             b == <<Len(elems[i].data) + 1, elems[i].type>>
             c == elems[i].data
  <2>1. a \in Seq(Nat) /\ b \in Seq(Nat) /\ c \in Seq(Nat)
    BY <1>4, <1>7
  <2>2. f[i] = (a \o b) \o c
    <3>1. f[i] = V(i) /\ i # 0
      BY <1>1, <1>5
    <3>2. QED BY <3>1 DEF V
  <2> HIDE DEF a, b, c
  <2>3. (a \o b) \o c = a \o (b \o c) /\ a \o (b \o c) \in Seq(Nat)
    <3>1. b \o c \in Seq(Nat)
      BY <2>1
    <3>2. a \o (b \o c) \in Seq(Nat)
      BY <2>1, <3>1
    <3>3. QED BY <2>1, <3>2, ConcatAssociative
  <2>4. QED BY <2>2, <2>3 DEF a, b, c, Encoded
<1>8. \A i \in 0 .. m : f[i] \in Seq(Nat)
  <2> DEFINE T == {i \in Nat : i =< m => f[i] \in Seq(Nat)}
  <2>1. 0 \in T
    <3>1. << >> \in Seq(Nat)
      OBVIOUS
    <3>2. QED BY <1>6, <3>1
  <2>2. ASSUME NEW k \in Nat, k \in T PROVE k + 1 \in T
    <3> SUFFICES ASSUME k + 1 =< m PROVE f[k + 1] \in Seq(Nat)
      OBVIOUS
    <3>1. k + 1 \in 1 .. m /\ (k + 1) - 1 = k /\ f[k] \in Seq(Nat)
      BY <1>1, <2>2
    <3>2. QED BY <1>7, <3>1
  <2>3. Nat \subseteq T
    BY <2>1, <2>2, Induct
  <2>4. QED BY <1>1, <2>3
<1>9. \A i \in 1 .. m : f[i] = f[i - 1] \o Encoded(elems[i])
  <2> SUFFICES ASSUME NEW i \in 1 .. m
               PROVE  f[i] = f[i - 1] \o Encoded(elems[i])
    OBVIOUS
  <2>1. i - 1 \in 0 .. m
    BY <1>1
  <2>2. QED BY <1>7, <1>8, <2>1
<1>10. QED BY <1>1, <1>3, <1>4, <1>6, <1>8, <1>9 DEF Grows

\* v is u, of o bytes, with an element of this type and these data behind it.
Extends(v, u, o, type, d) ==
  /\ o = Len(u) /\ o \in Nat /\ Len(d) \in Nat /\ Len(v) = o + Len(d) + 2
  /\ \A x \in 1 .. o : v[x] = u[x]
  /\ v[o + 1] = Len(d) + 1 /\ v[o + 2] = type
  /\ \A x \in 1 .. Len(d) : v[o + 2 + x] = d[x]

\* One element more.
LEMMA GrowsBy ==
  ASSUME NEW f, NEW elems, Grows(f, elems), NEW i \in 1 .. Len(elems)
  PROVE  Extends(f[i], f[i - 1], Len(f[i - 1]), elems[i].type, elems[i].data)
<1> DEFINE a == f[i - 1]
           d == elems[i].data
           b == <<Len(d) + 1, elems[i].type>>
           c == b \o d
           v == f[i]
<1>1. Len(elems) \in Nat /\ i - 1 \in 0 .. Len(elems)
  BY DEF Grows
<1>2. a \in Seq(Nat) /\ d \in Seq(Nat) /\ elems[i].type \in Nat
  BY <1>1 DEF Grows
<1>3. v = a \o c
  BY DEF Grows, Encoded
<1>4. b \in Seq(Nat) /\ Len(b) = 2 /\ b[1] = Len(d) + 1 /\ b[2] = elems[i].type
  BY <1>2
<1> HIDE DEF a, b, d
<1>5. /\ c \in Seq(Nat) /\ Len(c) = 2 + Len(d)
      /\ \A x \in 1 .. 2 + Len(d) : c[x] = IF x <= 2 THEN b[x] ELSE d[x - 2]
  <2>1. /\ c \in Seq(Nat) /\ Len(c) = Len(b) + Len(d)
        /\ \A x \in 1 .. Len(b) + Len(d) :
             c[x] = IF x <= Len(b) THEN b[x] ELSE d[x - Len(b)]
    BY <1>2, <1>4, ConcatProperties
  <2> HIDE DEF c
  <2>2. QED BY <1>4, <2>1
<1> HIDE DEF c, v
<1>6. /\ Len(v) = Len(a) + Len(c)
      /\ \A x \in 1 .. Len(a) + Len(c) :
           v[x] = IF x <= Len(a) THEN a[x] ELSE c[x - Len(a)]
  BY <1>2, <1>3, <1>5, ConcatProperties
<1>7. Len(a) \in Nat /\ Len(d) \in Nat
  BY <1>2
<1>8. Len(v) = Len(a) + Len(d) + 2 /\ \A x \in 1 .. Len(a) : v[x] = a[x]
  BY <1>5, <1>6, <1>7
<1>9. v[Len(a) + 1] = c[1] /\ v[Len(a) + 2] = c[2]
  <2>1. \A x \in {1, 2} : /\ Len(a) + x \in 1 .. Len(a) + Len(c)
                          /\ ~(Len(a) + x <= Len(a)) /\ (Len(a) + x) - Len(a) = x
    BY <1>5, <1>7
  <2>2. \A x \in {1, 2} : v[Len(a) + x] = c[x]
    BY <1>6, <2>1
  <2>3. QED BY <2>2
<1>10. c[1] = b[1] /\ c[2] = b[2]
  BY <1>5, <1>7
<1>11. ASSUME NEW x \in 1 .. Len(d) PROVE v[Len(a) + 2 + x] = d[x]
  <2>1. Len(a) + 2 + x \in 1 .. Len(a) + Len(c) /\ ~(Len(a) + 2 + x <= Len(a))
        /\ (Len(a) + 2 + x) - Len(a) = x + 2
    BY <1>5, <1>7
  <2>2. v[Len(a) + 2 + x] = c[x + 2]
    BY <1>6, <2>1
  <2>3. c[x + 2] = d[x]
    BY <1>5, <1>7
  <2>4. QED BY <2>2, <2>3
<1>12. Extends(v, a, Len(a), elems[i].type, d)
  BY <1>4, <1>7, <1>8, <1>9, <1>10, <1>11 DEF Extends
<1>13. QED BY <1>12 DEF a, d, v

\* v begins with u and is longer by k at least.
Begins(v, u, k) ==
  /\ Len(u) \in Nat /\ Len(v) \in Nat /\ k =< Len(v) - Len(u) /\ Len(u) =< Len(v)
  /\ \A x \in 1 .. Len(u) : v[x] = u[x]

\* What is in the buffer stays at its place, and each element takes room.
LEMMA GrowsOn ==
  ASSUME NEW f, NEW elems, Grows(f, elems), NEW i \in 0 .. Len(elems)
  PROVE  Begins(f[Len(elems)], f[i], Len(elems) - i)
<1> DEFINE n == Len(elems)
           S(k) == Begins(f[k], f[i], k - i)
           T == {k \in Nat : i + k =< n => S(i + k)}
<1>1. n \in Nat /\ i \in 0 .. n /\ \A k \in 0 .. n : Len(f[k]) \in Nat
  BY DEF Grows
<1>2. S(i)
  BY <1>1 DEF Begins
<1>3. ASSUME NEW k \in 1 .. n, S(k - 1) PROVE S(k)
  <2> DEFINE v == f[k]
             u == f[k - 1]
             w == f[i]
             z == Len(elems[k].data)
  <2>1. Extends(v, u, Len(u), elems[k].type, elems[k].data)
    BY GrowsBy, Zenon
  <2>2. Begins(u, w, (k - 1) - i)
    BY <1>3
  <2> HIDE DEF u, v, w
  <2>3. /\ Len(u) \in Nat /\ z \in Nat /\ Len(v) = Len(u) + z + 2
        /\ \A x \in 1 .. Len(u) : v[x] = u[x]
    BY <2>1 DEF Extends
  <2>4. /\ Len(w) \in Nat /\ (k - 1) - i =< Len(u) - Len(w) /\ Len(w) =< Len(u)
        /\ \A x \in 1 .. Len(w) : u[x] = w[x]
    BY <2>2 DEF Begins
  <2> HIDE DEF z
  <2>5. Begins(v, w, k - i)
    <3>1. Len(v) \in Nat /\ k - i =< Len(v) - Len(w) /\ Len(w) =< Len(v)
      BY <1>1, <2>3, <2>4
    <3>2. \A x \in 1 .. Len(w) : x \in 1 .. Len(u)
      BY <2>3, <2>4
    <3>3. QED BY <2>3, <2>4, <3>1, <3>2 DEF Begins
  <2>6. QED BY <2>5 DEF v, w
<1> HIDE DEF S
<1>4. 0 \in T
  BY <1>1, <1>2
<1>5. ASSUME NEW k \in Nat, k \in T PROVE k + 1 \in T
  <2> SUFFICES ASSUME i + (k + 1) =< n PROVE S(i + (k + 1))
    OBVIOUS
  <2>1. i + (k + 1) \in 1 .. n /\ (i + (k + 1)) - 1 = i + k /\ i + k =< n
    BY <1>1
  <2>2. S((i + (k + 1)) - 1)
    BY <1>5, <2>1
  <2>3. QED BY <1>3, <2>1, <2>2
<1>6. Nat \subseteq T
  BY <1>4, <1>5, Induct
<1>7. n - i \in Nat /\ i + (n - i) =< n /\ i + (n - i) = n
  BY <1>1
<1>8. S(n)
  BY <1>6, <1>7
<1>9. QED BY <1>8 DEF S

\* A scanner finds the elements in what AddElements has written.
LEMMA ParsedIs ==
  ASSUME NEW elems \in ElementLists
  PROVE  Parsed(AddElements(<< >>, elems)) = elems
<1> DEFINE m == Len(elems)
           D == AddElements(<< >>, elems)
           K == Len(D)
           nx == Behind(D)
           P == 1 .. K + 1
           z == K + 1
<1>1. elems \in [1 .. m -> ble_data]
  BY AddIs
<1>2. PICK f : D = f[m] /\ Grows(f, elems)
  BY AddIs
<1> DEFINE o(j) == Len(f[j - 1])
           d(j) == elems[j].data
           s == [j \in 1 .. m |-> o(j) + 1]
<1> HIDE DEF D, o, d
<1>3. m \in Nat /\ D \in Seq(Nat) /\ K \in Nat /\ m =< K /\ f[0] = << >>
  <2>1. m \in Nat /\ m \in 0 .. m /\ 0 \in 0 .. m /\ f[0] = << >>
    BY <1>2 DEF Grows
  <2>2. D \in Seq(Nat)
    BY <1>2, <2>1 DEF Grows
  <2>3. Len(f[0]) = 0 /\ m - 0 =< Len(f[m]) - Len(f[0])
    BY <1>2, <2>1, GrowsOn DEF Begins
  <2>4. K \in Nat
    BY <2>2
  <2>5. QED BY <1>2, <2>1, <2>2, <2>3, <2>4
<1>4. ASSUME NEW j \in 1 .. m
      PROVE  /\ o(j) \in Nat /\ Len(d(j)) \in Nat /\ o(j) + Len(d(j)) + 2 =< K
             /\ Len(f[j]) = o(j) + Len(d(j)) + 2
             /\ D[o(j) + 1] = Len(d(j)) + 1 /\ D[o(j) + 2] = elems[j].type
             /\ \A x \in 1 .. Len(d(j)) : D[o(j) + 2 + x] = d(j)[x]
             /\ d(j) \in Seq(Nat)
  <2>1. /\ o(j) \in Nat /\ Len(d(j)) \in Nat /\ Len(f[j]) = o(j) + Len(d(j)) + 2
        /\ f[j][o(j) + 1] = Len(d(j)) + 1 /\ f[j][o(j) + 2] = elems[j].type
        /\ \A x \in 1 .. Len(d(j)) : f[j][o(j) + 2 + x] = d(j)[x]
    <3>1. Extends(f[j], f[j - 1], o(j), elems[j].type, d(j))
      BY <1>2, GrowsBy, Zenon DEF o, d
    <3>2. QED BY <3>1 DEF Extends
  <2>2. j \in 0 .. m
    BY <1>3
  <2>3. Len(f[j]) =< K /\ \A x \in 1 .. Len(f[j]) : D[x] = f[j][x]
    <3>1. Begins(D, f[j], m - j)
      BY <1>2, <2>2, GrowsOn
    <3>2. QED BY <3>1 DEF Begins
  <2>4. d(j) \in Seq(Nat)
    BY <1>2 DEF Grows, d
  <2> DEFINE p == o(j)
             q == Len(d(j))
             g == Len(f[j])
  <2>5. p \in Nat /\ q \in Nat /\ g = p + q + 2
    BY <2>1
  <2>6. p + 1 \in 1 .. g /\ p + 2 \in 1 .. g /\ \A x \in 1 .. q : p + 2 + x \in 1 .. g
    <3> HIDE DEF p, q, g
    <3>1. QED BY <2>5
  <2>7. QED BY <1>3, <2>1, <2>3, <2>4, <2>6
<1>5. ASSUME NEW j \in 1 .. m
      PROVE  s[j] \in P \ {z} /\ nx[s[j]] = OrEnd(s, j + 1, z)
  <2>1. s[j] = o(j) + 1 /\ s[j] \in 1 .. K /\ D[s[j]] = Len(d(j)) + 1
    <3>1. s[j] = o(j) + 1
      OBVIOUS
    <3>2. /\ o(j) \in Nat /\ Len(d(j)) \in Nat /\ o(j) + Len(d(j)) + 2 =< K
          /\ D[o(j) + 1] = Len(d(j)) + 1
      BY <1>4
    <3> HIDE DEF s
    <3>3. s[j] \in 1 .. K
      BY <1>3, <3>1, <3>2
    <3>4. QED BY <3>1, <3>2, <3>3
  <2>2. nx[s[j]] = IF s[j] + D[s[j]] < K THEN s[j] + D[s[j]] + 1 ELSE K + 1
    BY <2>1 DEF Behind
  <2> DEFINE a == s[j]
             b == D[s[j]]
             g == Len(f[j])
             p == o(j)
             q == Len(d(j))
  <2>3. a = p + 1 /\ b = q + 1 /\ p \in Nat /\ q \in Nat /\ g = p + q + 2 /\ g =< K
    BY <1>4, <2>1
  <2>4. nx[s[j]] = g + 1
    <3>1. nx[s[j]] = IF a + b < K THEN a + b + 1 ELSE K + 1
      BY <2>2
    <3> HIDE DEF a, b, g, p, q, nx
    <3>2. QED BY <1>3, <2>3, <3>1
  <2>5. Len(s) = m
    BY <1>3
  <2>8. s[j] \in P \ {z}
    BY <1>3, <2>1
  <2>6. CASE j = m
    <3>1. g = K /\ ~(j + 1 \in 1 .. m)
      BY <1>2, <1>3, <2>6
    <3> HIDE DEF s, g, nx
    <3>2. OrEnd(s, j + 1, z) = z
      BY <2>5, <3>1 DEF OrEnd
    <3>3. QED BY <2>4, <2>8, <3>1, <3>2
  <2>7. CASE j # m
    <3>1. j + 1 \in 1 .. m /\ (j + 1) - 1 = j
      BY <1>3, <2>7
    <3>2. s[j + 1] = Len(f[j]) + 1
      BY <3>1 DEF o
    <3> HIDE DEF s, g, nx
    <3>3. QED BY <2>4, <2>5, <2>8, <3>1, <3>2 DEF OrEnd, g
  <2>9. QED BY <2>6, <2>7
<1>6. s \in Seq(P \ {z}) /\ Len(s) = m /\ OrEnd(s, 1, z) = 1
  <2>1. s \in [1 .. m -> P \ {z}]
    BY <1>5
  <2>2. s \in Seq(P \ {z}) /\ Len(s) = m
    BY <1>3, <2>1
  <2>3. CASE m = 0
    BY <1>2, <1>3, <2>2, <2>3 DEF OrEnd
  <2>4. CASE m # 0
    <3>1. 1 \in 1 .. m /\ s[1] = o(1) + 1 /\ o(1) = 0
      BY <1>3, <2>4 DEF o
    <3>2. QED BY <2>2, <3>1 DEF OrEnd
  <2>5. QED BY <2>2, <2>3, <2>4
<1>7. \A i \in P : i # z => nx[i] \in P
  <2> SUFFICES ASSUME NEW i \in 1 .. K PROVE nx[i] \in P
    BY <1>3
  <2>1. D[i] \in Nat /\ nx[i] = IF i + D[i] < K THEN i + D[i] + 1 ELSE K + 1
    BY <1>3 DEF Behind
  <2>2. QED BY <1>3, <2>1
<1>8. Starts(D) = s
  <2> DEFINE fr == CHOOSE g : Fn(g, nx, K, P, z)
  <2>1. Fn(fr, nx, K, P, z)
    BY <1>3, <1>7, FromExists
  <2>2. Starts(D) = fr[K][1]
    BY Zenon DEF Starts, Fn
  <2>3. Chain(s, nx, K, P, z)
    <3>1. z \in P
      BY <1>3
    <3> HIDE DEF s, P, z, nx
    <3>2. QED BY <1>3, <1>5, <1>6, <3>1 DEF Chain
  <2> HIDE DEF fr, s, P, z, nx
  <2>4. fr[K][OrEnd(s, 1, z)] = s
    BY <2>1, <2>3, TraversalIs
  <2>5. QED BY <1>6, <2>2, <2>4
<1>9. ASSUME NEW j \in 1 .. m
      PROVE  [type |-> D[s[j] + 1], data |-> SubSeq(D, s[j] + 2, s[j] + D[s[j]])]
               = elems[j]
  <2> DEFINE w == SubSeq(D, s[j] + 2, s[j] + D[s[j]])
             p == o(j)
             q == Len(d(j))
             a == s[j]
             b == D[s[j]]
  <2>1. a = p + 1 /\ b = q + 1 /\ p \in Nat /\ q \in Nat /\ p + q + 2 =< K
        /\ \A x \in 1 .. q : D[p + 2 + x] = d(j)[x]
    BY <1>4
  <2>2. D[s[j] + 1] = elems[j].type
    <3>1. s[j] + 1 = p + 2
      BY <2>1
    <3>2. QED BY <1>4, <3>1
  <2>3. w = SubSeq(D, p + 3, p + q + 2)
    <3>1. a + 2 = p + 3 /\ a + b = p + q + 2
      <4> HIDE DEF a, b, p, q
      <4>1. QED BY <2>1
    <3>2. QED BY <3>1
  <2> HIDE DEF p, q, w
  <2>4. w \in Seq(Nat) /\ Len(w) = q /\ \A x \in 1 .. q : w[x] = D[p + 3 + x - 1]
    <3> DEFINE u == p + 3
               v == p + q + 2
    <3>1. u \in Int /\ v \in Int /\ v - u + 1 = q /\ (u <= v <=> q # 0)
      BY <2>1
    <3>2. \A x \in u .. v : D[x] \in Nat
      BY <1>3, <2>1
    <3> HIDE DEF u, v
    <3>3. /\ SubSeq(D, u, v) \in Seq(Nat)
          /\ Len(SubSeq(D, u, v)) = IF u <= v THEN v - u + 1 ELSE 0
          /\ \A x \in 1 .. v - u + 1 : SubSeq(D, u, v)[x] = D[u + x - 1]
      BY <3>1, <3>2, SubSeqProperties
    <3>4. w = SubSeq(D, u, v)
      BY <2>3 DEF u, v
    <3>5. Len(w) = q /\ \A x \in 1 .. q : w[x] = D[u + x - 1]
      BY <2>1, <3>1, <3>3, <3>4
    <3>6. QED BY <3>3, <3>4, <3>5 DEF u
  <2>5. \A x \in 1 .. q : w[x] = d(j)[x]
    <3> SUFFICES ASSUME NEW x \in 1 .. q PROVE w[x] = d(j)[x]
      OBVIOUS
    <3>1. p + 3 + x - 1 = p + 2 + x
      BY <2>1
    <3>2. QED BY <2>1, <2>4, <3>1
  <2>6. w = d(j)
    <3>1. d(j) \in Seq(Nat) /\ Len(d(j)) = Len(w)
      BY <1>4, <2>4 DEF q
    <3>2. QED BY <2>4, <2>5, <3>1, SeqEqual
  <2>7. elems[j] = [type |-> elems[j].type, data |-> elems[j].data]
    BY <1>1 DEF ble_data
  <2>8. QED BY <2>2, <2>6, <2>7 DEF w, d
<1>10. Parsed(D) = [j \in 1 .. m |-> [type |-> D[s[j] + 1],
                                     data |-> SubSeq(D, s[j] + 2, s[j] + D[s[j]])]]
  <2> HIDE DEF s
  <2>1. QED BY <1>6, <1>8 DEF Parsed
<1> HIDE DEF s
<1>11. Parsed(D) = [j \in 1 .. m |-> elems[j]]
  BY <1>9, <1>10
<1>12. QED BY <1>1, <1>11 DEF D

\* What the library has been given is what AddElements has written for the
\* lists asked for last.
AdvInv ==
  /\ asked.ad \in ElementLists /\ asked.sd \in ElementLists
  /\ role.ad = AddElements(<< >>, asked.ad)
  /\ role.sd = AddElements(<< >>, asked.sd)

\* It is inductive.
LEMMA AdvInvariant == AdvSpec => []AdvInv
<1>1. AdvInit => AdvInv
  <2>1. << >> \in ElementLists
    <3>1. 0 \in 0 .. MaxElems /\ << >> \in [1 .. 0 -> ble_data]
      BY AdvAssumption
    <3>2. QED BY <3>1 DEF ElementLists
  <2>2. AddElements(<< >>, << >>) = << >>
    <3>1. PICK f : AddElements(<< >>, << >>) = f[Len(<< >>)] /\ Grows(f, << >>)
      BY <2>1, AddIs
    <3>2. Len(<< >>) = 0 /\ f[0] = << >>
      BY <3>1 DEF Grows
    <3>3. QED BY <3>1, <3>2
  <2>3. QED BY <2>1, <2>2 DEF AdvInit, AdvInv
<1>2. AdvInv /\ [AdvNext]_advVars => AdvInv'
  <2> SUFFICES ASSUME AdvInv, [AdvNext]_advVars PROVE AdvInv'
    OBVIOUS
  <2>1. ASSUME NEW ad \in Lists, NEW sd \in Lists, ble_adv_enable(ad, sd)
        PROVE  AdvInv'
    <3>1. /\ ad # NoList => ad \in ElementLists
          /\ sd # NoList => sd \in ElementLists
      BY DEF Lists
    <3>2. /\ asked'.ad = IF ad = NoList THEN asked.ad ELSE ad
          /\ asked'.sd = IF sd = NoList THEN asked.sd ELSE sd
      BY <2>1 DEF ble_adv_enable
    <3>3. /\ role'.ad = IF ad = NoList THEN role.ad ELSE AddElements(<< >>, ad)
          /\ role'.sd = IF sd = NoList THEN role.sd ELSE AddElements(<< >>, sd)
      BY <2>1 DEF ble_adv_enable, buf_simple_reset
    <3>4. /\ asked'.ad \in ElementLists /\ asked'.sd \in ElementLists
          /\ role'.ad = AddElements(<< >>, asked'.ad)
          /\ role'.sd = AddElements(<< >>, asked'.sd)
      BY <3>1, <3>2, <3>3 DEF AdvInv
    <3>5. QED BY <3>4 DEF AdvInv, AddElements
  <2>2. CASE ble_adv_disable
    <3>1. asked' = asked /\ role'.ad = role.ad /\ role'.sd = role.sd
      BY <2>2 DEF ble_adv_disable
    <3>2. QED BY <3>1 DEF AdvInv, AddElements
  <2>3. CASE UNCHANGED advVars
    BY <2>3 DEF AdvInv, advVars, AddElements
  <2>4. QED BY <2>1, <2>2, <2>3 DEF AdvNext
<1>3. QED BY <1>1, <1>2, PTL DEF AdvSpec

(***************************************************************************)
(* For lists of any elements within the bounds and any calls of            *)
(* ble_adv_enable, a scanner finds in what the library has been given the  *)
(* elements that were asked for last (adv.c:49-73).                        *)
(***************************************************************************)
THEOREM ScannerFindsElements == AdvSpec => []AdvertisedAsAsked
<1>1. AdvInv => AdvertisedAsAsked
  BY ParsedIs DEF AdvInv, AdvertisedAsAsked
<1>2. QED BY <1>1, AdvInvariant, PTL
=============================================================================
