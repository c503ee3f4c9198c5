---------------------------- MODULE GpioCallbacks ----------------------------
(***************************************************************************)
(* The callback list of a GPIO port: gpio_manage_callback, run by a thread *)
(* one load or store at a time, and gpio_fire_callbacks, run by the port's *)
(* interrupt handler, which a thread cannot interrupt.  A handler of the   *)
(* application may itself add a callback or remove the one that is running *)
(* (include/drivers/gpio.h:1026, 1058).                                    *)
(***************************************************************************)
EXTENDS SlistOps

CONSTANT
  HandlersAnytime  \* handlers change the list also in the middle of a
                   \* thread's call; else they do so between calls only

ASSUME GpioAssumption == HandlersAnytime \in BOOLEAN

VARIABLES
  cbs,       \* data->cb, with the nodes of the callbacks
  pc,        \* where the thread is in gpio_manage_callback
  callback, set, prev, test,  \* its arguments and locals
  ipc,       \* "walk" while the interrupt handler runs
  cb, tmp,   \* the locals of gpio_fire_callbacks
  pins,      \* the callbacks whose pin_mask meets the interrupt's pins
  \* History, for the properties only:
  registered,  \* the callbacks added and not removed, by completed calls
  due,         \* those of them that this interrupt must call
  fired        \* how often it has called each callback, up to 2

threadVars == <<pc, callback, set, prev, test>>
isrVars == <<ipc, cb, tmp, pins, due, fired>>
callbackVars == <<cbs, threadVars, isrVars, registered>>

CallbackInit ==
  /\ cbs = [head |-> NULL, tail |-> NULL, next |-> [n \in Node |-> NULL]]
  /\ pc = "run" /\ callback = NULL /\ set = FALSE
  /\ prev = NULL /\ test = NULL
  /\ ipc = "off" /\ cb = NULL /\ tmp = NULL /\ pins = {}
  /\ registered = {} /\ due = {} /\ fired = [n \in Node |-> 0]

-----------------------------------------------------------------------------
(* gpio_manage_callback in the thread.                                     *)

Step(from, to) ==
  /\ ipc = "off"
  /\ pc = from
  /\ pc' = to
  /\ UNCHANGED <<isrVars, callback, set>>

\* return, with what the call has done to the registrations.
Done(from, regs) ==
  /\ ipc = "off"
  /\ pc = from
  /\ pc' = "run" /\ callback' = NULL /\ set' = FALSE
  /\ prev' = NULL /\ test' = NULL
  /\ registered' = regs
  /\ UNCHANGED isrVars

ManageCallback(n, s) ==
  /\ ipc = "off"
  /\ pc = "run"
  /\ pc' = "check" /\ callback' = n /\ set' = s
  /\ UNCHANGED <<cbs, prev, test, isrVars, registered>>

\* sys_slist_is_empty
IsEmpty ==
  /\ sys_slist_is_empty(cbs)
  /\ \/ set /\ Step("check", "link") /\ UNCHANGED <<registered, prev, test>>
     \/ ~set /\ Done("check", registered)
  /\ UNCHANGED cbs

NotEmpty ==
  /\ ~sys_slist_is_empty(cbs)
  /\ Step("check", "first")
  /\ UNCHANGED <<cbs, prev, test, registered>>

FindFirst ==
  /\ Step("first", "find")
  /\ test' = cbs.head
  /\ UNCHANGED <<cbs, prev, registered>>

FindNext ==
  /\ test \notin {NULL, callback}
  /\ Step("find", "find")
  /\ prev' = test
  /\ test' = cbs.next[test]
  /\ UNCHANGED <<cbs, registered>>

\* return -EINVAL, unless the callback is to be added.
NotFound ==
  /\ test = NULL
  /\ \/ set /\ Step("find", "link") /\ UNCHANGED <<registered, prev, test>>
     \/ ~set /\ Done("find", registered)
  /\ UNCHANGED cbs

\* sys_slist_remove: three stores.
Unlink ==
  /\ test = callback
  /\ Step("find", "tail")
  /\ cbs' = IF prev = NULL THEN [cbs EXCEPT !.head = cbs.next[callback]]
            ELSE NextSet(cbs, prev, cbs.next[callback])
  /\ UNCHANGED <<prev, test, registered>>

\* Mutant: the tail is not moved back.
TailSet_Keeps ==
  /\ Step("tail", "clear")
  /\ UNCHANGED <<cbs, prev, test, registered>>

TailSet ==
  /\ Step("tail", "clear")
  /\ cbs' = IF cbs.tail # callback THEN cbs
            ELSE [cbs EXCEPT !.tail = IF prev = NULL THEN cbs.head ELSE prev]
  /\ UNCHANGED <<prev, test, registered>>

ClearNext ==
  /\ cbs' = NextSet(cbs, callback, NULL)
  /\ \/ /\ set /\ Step("clear", "link")
        /\ UNCHANGED <<registered, prev, test>>
     \/ ~set /\ Done("clear", registered \ {callback})

\* sys_slist_prepend: up to three stores.
LinkNext ==
  /\ Step("link", "head")
  /\ cbs' = NextSet(cbs, callback, cbs.head)
  /\ UNCHANGED <<prev, test, registered>>

HeadSet ==
  /\ Step("head", "settail")
  /\ cbs' = [cbs EXCEPT !.head = callback]
  /\ UNCHANGED <<prev, test, registered>>

Prepended ==
  /\ Done("settail", registered \union {callback})
  /\ cbs' = [cbs EXCEPT !.tail = IF @ = NULL THEN cbs.head ELSE @]

-----------------------------------------------------------------------------
(* The interrupt: the flags are read and cleared, then the loop runs.      *)

NextOf(l, n) == IF n = NULL THEN NULL ELSE l.next[n]

IRQHandler(p) ==
  /\ ipc = "off"
  /\ ipc' = "walk"
  /\ pins' = p
  /\ cb' = cbs.head
  /\ tmp' = NextOf(cbs, cbs.head)
  /\ due' = (registered \ {callback}) \intersect p
  /\ UNCHANGED <<cbs, threadVars, registered, fired>>

\* gpio_manage_callback as a handler runs it: nothing interrupts it.
gpio_manage_callback(l, n, s) ==
  LET r == IF sys_slist_is_empty(l) THEN l
           ELSE sys_slist_find_and_remove(l, n)
  IN  IF s THEN sys_slist_prepend(r, n) ELSE r

MayManage == HandlersAnytime \/ pc = "run"

\* What the handler of cb does to the list.
Handler ==
  \/ UNCHANGED <<cbs, registered>>
  \/ /\ MayManage
     /\ cb # callback
     /\ cbs' = gpio_manage_callback(cbs, cb, FALSE)
     /\ registered' = registered \ {cb}
  \/ /\ MayManage
     /\ \E n \in Node \ (registered \union {callback}) :
          /\ cbs' = gpio_manage_callback(cbs, n, TRUE)
          /\ registered' = registered \union {n}

\* Mutant: the next node is looked up after the handler has run.
gpio_fire_callbacks_NotSafe ==
  /\ ipc = "walk" /\ cb # NULL
  /\ IF cb \in pins
     THEN /\ fired' = [fired EXCEPT ![cb] = IF @ < 2 THEN @ + 1 ELSE @]
          /\ Handler
     ELSE UNCHANGED <<fired, cbs, registered>>
  /\ cb' = NextOf(cbs', cb)
  /\ tmp' = NULL
  /\ UNCHANGED <<threadVars, ipc, pins, due>>

\* One round of SYS_SLIST_FOR_EACH_CONTAINER_SAFE.
gpio_fire_callbacks ==
  /\ ipc = "walk" /\ cb # NULL
  /\ IF cb \in pins
     THEN /\ fired' = [fired EXCEPT ![cb] = IF @ < 2 THEN @ + 1 ELSE @]
          /\ Handler
     ELSE UNCHANGED <<fired, cbs, registered>>
  /\ cb' = tmp
  /\ tmp' = NextOf(cbs', tmp)
  /\ UNCHANGED <<threadVars, ipc, pins, due>>

IrqReturn ==
  /\ ipc = "walk" /\ cb = NULL
  /\ ipc' = "off" /\ pins' = {} /\ due' = {}
  /\ fired' = [n \in Node |-> 0]
  /\ UNCHANGED <<cbs, threadVars, registered, cb, tmp>>

-----------------------------------------------------------------------------
Thread ==
  \/ IsEmpty \/ NotEmpty \/ FindFirst \/ FindNext \/ NotFound \/ Unlink
  \/ TailSet \/ ClearNext \/ LinkNext \/ HeadSet \/ Prepended

CallbackNext ==
  \/ \E n \in Node, s \in BOOLEAN : ManageCallback(n, s)
  \/ Thread
  \/ \E p \in SUBSET Node : IRQHandler(p)
  \/ gpio_fire_callbacks \/ IrqReturn

CallbackSpec == CallbackInit /\ [][CallbackNext]_callbackVars

-----------------------------------------------------------------------------
(***************************************************************************)
(* An interrupt in the middle of gpio_manage_callback calls every callback *)
(* of its pins that is registered and not the one being managed, once, and *)
(* calls none twice, although nothing protects the list; and so it does    *)
(* when, between such calls, the handlers themselves change the list       *)
(* (gpio_utils.h:32-73).                                                   *)
(***************************************************************************)
FiredOnce ==
  ipc = "walk" =>
    /\ \A n \in Node : fired[n] <= 1
    /\ cb = NULL => \A n \in due : fired[n] = 1

(***************************************************************************)
(* Between calls the list holds exactly the callbacks that were added and  *)
(* not removed, each once, and its tail is its last node                   *)
(* (gpio_utils.h:32-52).                                                   *)
(***************************************************************************)
RegisteredListed ==
  pc = "run" /\ ipc = "off" =>
    /\ Nodes(cbs) = registered
    /\ Len(Walk(cbs)) = Cardinality(registered)
    /\ cbs.tail = IF cbs.head = NULL THEN NULL
                  ELSE Walk(cbs)[Len(Walk(cbs))]

(***************************************************************************)
(* include/drivers/gpio.h:1024-1028, "@return 0 if successful" and         *)
(* "Callbacks may be added to the device from within a callback handler    *)
(* invocation": an added callback is in the list.                          *)
(***************************************************************************)
AddedIsListed == pc = "run" /\ ipc = "off" => registered \subseteq Nodes(cbs)
=============================================================================
