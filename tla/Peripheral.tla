----------------------------- MODULE Peripheral -----------------------------
(***************************************************************************)
(* The BLE peripheral (samples/bluetooth/peripheral) with the services of  *)
(* GattServices on the vendor's BLE library.  The library and the          *)
(* application take turns in TMOS_SystemProcess; links, GAP events, the    *)
(* table of client configurations, timers and message buffers belong to    *)
(* the library and are modelled from how the application uses them.        *)
(*                                                                         *)
(* GAP events reach the application through a queue: the link may be gone  *)
(* when it learns that the link is there.                                  *)
(***************************************************************************)
EXTENDS GattServices, FiniteSets

CONSTANTS
  Handle,     \* connection handles
  NoHandle,   \* GAP_CONNHANDLE_INIT
  MaxConn,    \* CONFIG_BT_PERIPHERAL_MAX_CONNECTION
  BufNum,     \* message buffers of the library
  MaxLen,     \* the bytes that fit into a read response
  MaxEvents   \* bound on GAP events under way

ASSUME HandleAssumption == NoHandle \notin Handle
ASSUME BoundAssumption ==
  /\ MaxConn \in Nat \ {0} /\ BufNum \in Nat /\ MaxEvents \in Nat
  /\ MaxLen \in Nat \ {0}
\* The MTU is at least 23: no characteristic of the profile is long.
ASSUME LenAssumption == \A a \in Sps : CharLen[a] \in 1 .. MaxLen
ASSUME DisAssumption ==
  \A a \in Dis : DisVal[a] \in Seq(0 .. 255) /\ DisLen(a) >= 0

VARIABLES
  \* the library
  links,        \* handles of the links that are up
  terminating,  \* links that the application asked to terminate
  adv,          \* advertising
  gapq,         \* GAP events for the application
  ccc,          \* simpleProfileChar4Config: handles with notifications on
  free,         \* message buffers not allocated
  sending,      \* buffers handed to GATT_Notification
  timer,        \* the reload timer of PERIP_POLL_NOTIFY_EVENT runs
  \* the application
  conn,         \* perip_conn.connHandle
  events,       \* events set for perip_taskid
  flag,         \* TEST_POLL_EVENT: SUSPEND_TO_RAM is locked
  ramLocks,     \* the policy's lock count of SUSPEND_TO_RAM
  val,          \* the values of the profile's characteristics
  \* the client
  rd,           \* the read in progress
  wants         \* history: clients that switched notifications on

libvars == <<links, terminating, adv, gapq, ccc, free, sending>>
vars == <<links, terminating, adv, gapq, ccc, free, sending, timer, conn,
          events, flag, ramLocks, wants, val, rd>>
gattvars == <<val, rd>>

NoRead == [attr |-> "none", got |-> << >>, more |-> FALSE]

Event == {"msg", "start", "poll", "test"}

GapEvent == [op : {"est", "term"}, h : Handle,
             state : {"ADVERTISING", "WAITING", "CONNECTED"}]

TypeOK ==
  /\ links \subseteq Handle /\ terminating \subseteq Handle
  /\ adv \in BOOLEAN
  /\ gapq \in Seq(GapEvent) /\ Len(gapq) =< MaxEvents
  /\ ccc \subseteq Handle /\ wants \subseteq Handle
  /\ free \in 0 .. BufNum /\ sending \in 0 .. BufNum
  /\ timer \in BOOLEAN /\ conn \in Handle \cup {NoHandle}
  /\ events \subseteq Event
  /\ flag \in BOOLEAN /\ ramLocks \in {0, 1}
  /\ \A a \in Sps : val[a] \in [1 .. CharLen[a] -> Byte]

\* perip_process_init: the services are registered, the device not started.
Init ==
  /\ links = {} /\ terminating = {} /\ adv = FALSE /\ gapq = << >>
  /\ ccc = {} /\ free = BufNum /\ sending = 0
  /\ timer = FALSE /\ conn = NoHandle /\ events = {"start"}
  /\ flag = FALSE /\ ramLocks = 0 /\ wants = {}
  /\ \E b \in Byte : val = [a \in Sps |-> sps_set_param(a, b)]
  /\ rd = NoRead

-----------------------------------------------------------------------------
\* The library.

\* A central connects; the last link that fits ends the advertising.
LinkUp(h) ==
  /\ adv /\ h \notin links /\ Cardinality(links) < MaxConn
  /\ Len(gapq) < MaxEvents
  /\ links' = links \cup {h}
  /\ adv' \in IF Cardinality(links') < MaxConn THEN BOOLEAN ELSE {FALSE}
  /\ gapq' = Append(gapq, [op |-> "est", h |-> h, state |-> "CONNECTED"])
  /\ UNCHANGED <<terminating, ccc, free, sending, timer, conn, events, flag,
                 ramLocks, wants, gattvars>>

\* A link ends, from either side.  The configuration of its client may stay
\* in the table, since no service asks for its reset (linkDB_Register).
LinkDown(h) ==
  /\ h \in links /\ Len(gapq) < MaxEvents
  /\ links' = links \ {h} /\ terminating' = terminating \ {h}
  /\ \E s \in IF links' = {} THEN {"ADVERTISING", "WAITING"}
                             ELSE {"CONNECTED"} :
       gapq' = Append(gapq, [op |-> "term", h |-> h, state |-> s])
  /\ ccc' \in {ccc, ccc \ {h}} /\ wants' = wants \ {h}
  /\ rd' = NoRead
  /\ UNCHANGED <<adv, free, sending, timer, conn, events, flag, ramLocks, val>>

\* The reload timers: of the notifications, and of TEST_POLL_EVENT.
TimerFires(e) ==
  /\ e = "poll" => timer
  /\ events' = events \cup {e}
  /\ UNCHANGED <<libvars, timer, conn, flag, ramLocks, wants, gattvars>>

\* A message for the task, such as ATT_MTU_UPDATED_EVENT.
Message ==
  /\ links # {}
  /\ events' = events \cup {"msg"}
  /\ UNCHANGED <<libvars, timer, conn, flag, ramLocks, wants, gattvars>>

\* The library has sent a notification and frees its buffer.
Sent ==
  /\ sending > 0
  /\ sending' = sending - 1 /\ free' = free + 1
  /\ UNCHANGED <<links, terminating, adv, gapq, ccc, timer, conn, events,
                 flag, ramLocks, wants, gattvars>>

-----------------------------------------------------------------------------
\* The simple profile service.

\* tmos_stop_task: the timer is stopped; an event already set may remain.
tmos_stop_task == timer' = FALSE /\ events' \in {events, events \ {"poll"}}

\* Mutant: switching off is ignored.
sps_ccc_changed_NeverStops(config) ==
  timer' = TRUE /\ UNCHANGED events

sps_ccc_changed(config) ==
  \/ config /\ timer' = TRUE /\ UNCHANGED events
  \/ ~config /\ tmos_stop_task

\* The client of link h writes the configuration of characteristic 4.
\* GATTServApp_ProcessCCCWriteReq accepts 0 and GATT_CLIENT_CFG_NOTIFY; a
\* write that it refuses changes nothing.
sps_write_ccc(h, config) ==
  /\ h \in links
  /\ ccc' = IF config THEN ccc \cup {h} ELSE ccc \ {h}
  /\ wants' = IF config THEN wants \cup {h} ELSE wants \ {h}
  /\ sps_ccc_changed(config)
  /\ UNCHANGED <<links, terminating, adv, gapq, free, sending, conn, flag,
                 ramLocks, gattvars>>

\* The client writes a characteristic, between two reads.  A write that is
\* refused changes nothing.
sps_write_value(a, s) ==
  /\ links # {} /\ rd = NoRead
  /\ sps_write_status(a, Len(s), 0) = "SUCCESS"
  /\ \E v \in sps_write_values(a, s) : val' = [val EXCEPT ![a] = v]
  /\ UNCHANGED <<libvars, timer, conn, events, flag, ramLocks, wants, rd>>

\* The client reads an attribute, and goes on behind what it has got as long
\* as the response was full.  An error ends the read.
Read(a) ==
  LET off == Len(rd.got)
      rsp == IF a \in Sps THEN sps_read(a, val[a], off, MaxLen)
             ELSE dis_read(a, off, MaxLen)
  IN  /\ links # {}
      /\ \/ ~rd.more /\ rd = NoRead
         \/ rd.more /\ rd.attr = a
      /\ rd' = [attr |-> a, got |-> rd.got \o rsp.data,
                more |-> Len(rsp.data) = MaxLen]
      /\ UNCHANGED <<libvars, timer, conn, events, flag, ramLocks, wants, val>>

ReadDone ==
  /\ rd # NoRead /\ ~rd.more /\ rd' = NoRead
  /\ UNCHANGED <<libvars, timer, conn, events, flag, ramLocks, wants, val>>

\* A buffer is allocated first.  It is lost when the client has not switched
\* notifications on, and when GATT_Notification refuses it.
sps_notify ==
  IF conn = NoHandle \/ free = 0 THEN UNCHANGED <<free, sending>>
  ELSE /\ free' = free - 1
       /\ sending' \in IF conn \in ccc /\ conn \in links
                       THEN {sending, sending + 1} ELSE {sending}

-----------------------------------------------------------------------------
\* The application's task and its callbacks.

\* perip_process_event handles the first of its events and returns the rest.
First(e) ==
  /\ e \in events
  /\ e = "start" => "msg" \notin events
  /\ e = "poll" => events \cap {"msg", "start"} = {}
  /\ e = "test" => events \cap {"msg", "start", "poll"} = {}

ProcessMsg ==
  /\ First("msg") /\ events' = events \ {"msg"}
  /\ UNCHANGED <<libvars, timer, conn, flag, ramLocks, wants, gattvars>>

\* GAPRole_PeripheralStartDevice: advertising was enabled by ble_adv_enable.
ProcessStart ==
  /\ First("start") /\ events' = events \ {"start"}
  /\ adv' = TRUE
  /\ UNCHANGED <<links, terminating, gapq, ccc, free, sending, timer, conn,
                 flag, ramLocks, wants, gattvars>>

ProcessPoll ==
  /\ First("poll") /\ events' = events \ {"poll"}
  /\ sps_notify
  /\ UNCHANGED <<links, terminating, adv, gapq, ccc, timer, conn, flag,
                 ramLocks, wants, gattvars>>

ProcessTest ==
  /\ First("test") /\ events' = events \ {"test"}
  /\ flag' = ~flag
  /\ ramLocks' = IF flag THEN ramLocks - 1 ELSE ramLocks + 1
  /\ UNCHANGED <<libvars, timer, conn, wants, gattvars>>

\* Mutant: the handle of a new link is not stored.
link_established_NotStored(h) ==
  /\ terminating' = IF conn # NoHandle THEN terminating \cup ({h} \cap links)
                    ELSE terminating
  /\ UNCHANGED <<conn, adv, timer, events>>

perip_link_established(h) ==
  /\ IF conn # NoHandle
     THEN /\ terminating' = terminating \cup ({h} \cap links)
          /\ UNCHANGED conn
     ELSE conn' = h /\ UNCHANGED terminating
  /\ UNCHANGED <<adv, timer, events>>

ble_adv_restart == adv' = TRUE

\* Mutant: the timer is not stopped.
link_terminated_KeepsTimer(h) ==
  /\ IF h = conn
     THEN conn' = NoHandle /\ ble_adv_restart /\ UNCHANGED <<timer, events>>
     ELSE UNCHANGED <<conn, timer, events, adv>>
  /\ UNCHANGED terminating

\* Mutant: advertising is not switched on again.
link_terminated_NoRestart(h) ==
  /\ IF h = conn
     THEN conn' = NoHandle /\ tmos_stop_task /\ UNCHANGED adv
     ELSE UNCHANGED <<conn, timer, events, adv>>
  /\ UNCHANGED terminating

perip_link_terminated(h) ==
  /\ IF h = conn
     THEN conn' = NoHandle /\ tmos_stop_task /\ ble_adv_restart
     ELSE UNCHANGED <<conn, timer, events, adv>>
  /\ UNCHANGED terminating

\* The other pairs of state and event only write to the log.
perip_state_notify ==
  /\ gapq # << >> /\ gapq' = Tail(gapq)
  /\ LET e == Head(gapq)
     IN  CASE e.op = "est" /\ e.state = "CONNECTED" ->
                perip_link_established(e.h)
           [] e.op = "term" /\ e.state \in {"ADVERTISING", "WAITING"} ->
                perip_link_terminated(e.h)
           [] OTHER -> UNCHANGED <<terminating, adv, timer, conn, events>>
  /\ UNCHANGED <<links, ccc, free, sending, flag, ramLocks, wants, gattvars>>

ProcessEvent == ProcessMsg \/ ProcessStart \/ ProcessPoll \/ ProcessTest

Next ==
  \/ \E h \in Handle :
       \/ LinkUp(h) \/ LinkDown(h)
       \/ \E config \in BOOLEAN : sps_write_ccc(h, config)
  \/ \E e \in {"poll", "test"} : TimerFires(e)
  \/ Message \/ Sent
  \/ \E a \in SpsWritable, n \in 0 .. MaxLen :
       \E w \in [1 .. n -> Byte] : sps_write_value(a, w)
  \/ \E a \in SpsReadable \cup Dis : Read(a)
  \/ ReadDone
  \/ perip_state_notify
  \/ ProcessEvent

Spec == Init /\ [][Next]_vars

\* main_process loops over TMOS_SystemProcess: tasks with work get a turn.
Fairness == WF_vars(perip_state_notify) /\ WF_vars(ProcessEvent)

-----------------------------------------------------------------------------
(***************************************************************************)
(* While the link that the application took is up, the notification timer  *)
(* runs exactly when the client of that link has switched notifications    *)
(* on: the timer, the connection handle and the client's configuration are *)
(* changed by callbacks of different tasks, in any order                   *)
(* (peripheral.c:92-102, 232-265).                                         *)
(***************************************************************************)
PollFollowsClient ==
  conn \in links => (timer <=> conn \in wants)

(***************************************************************************)
(* When all links are gone the notification timer stops before the next    *)
(* connection: no connection begins with the timer of the one before       *)
(* running, although the application may learn of the end long after it,   *)
(* and the timer of a connection that has ended does not run for ever      *)
(* (peripheral.c:253-265).                                                 *)
(***************************************************************************)
PollStops ==
  /\ [][links = {} /\ links' # {} => ~timer]_vars
  /\ links = {} ~> links = {} /\ ~timer

(***************************************************************************)
(* However many links the library allows, the application has one client:  *)
(* a link that is up is the one it has taken, or one that it has asked to  *)
(* terminate, or its establishment is still to be reported, although ends  *)
(* are reported late, or not acted on when another link is up              *)
(* (peripheral.c:232-265).                                                 *)
(***************************************************************************)
NoStrayLink ==
  \A h \in links :
    \/ h = conn \/ h \in terminating
    \/ \E i \in 1 .. Len(gapq) : gapq[i].op = "est" /\ gapq[i].h = h

(***************************************************************************)
(* A device whose links are gone advertises again, however the connection  *)
(* and its end overtake the application (peripheral.c:258-260,             *)
(* adv.c:93-98).                                                           *)
(***************************************************************************)
AdvertisesAgain == links = {} ~> adv

(***************************************************************************)
(* A client that reads an attribute in as many responses as it takes gets  *)
(* the whole value and nothing behind it, also when the value fills the    *)
(* last response and the next read only gets an error (sps.c:145-231,      *)
(* dis.c:165-297).                                                         *)
(***************************************************************************)
ReadWhole ==
  rd # NoRead /\ ~rd.more =>
    rd.got = IF rd.attr \in Sps THEN val[rd.attr]
             ELSE SubSeq(DisVal[rd.attr], 1, DisLen(rd.attr))
=============================================================================
