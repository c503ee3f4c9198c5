-------------------------------- MODULE Adc --------------------------------
(***************************************************************************)
(* The ADC driver (drivers/adc/adc.c, adc_context.h): channel set-up, read *)
(* requests of several samplings, the end-of-conversion interrupt; the     *)
(* application that reads, and the temperature measurement that the BLE    *)
(* library asks for (subsys/bluetooth/hal/hal.c, ble_hal_get_inter_temp).  *)
(*                                                                         *)
(* The application and the BLE library take turns on the main loop: one of *)
(* them may run while the other waits for the end of its read, not in the  *)
(* middle of the other's call.  The interrupt handler runs between any two *)
(* steps of a call.                                                        *)
(***************************************************************************)
EXTENDS Naturals

CONSTANTS
  SUPPORT_INTERRUPT,  \* CONFIG_ADC_SUPPORT_INTERRUPT
  BleTemp,            \* the BLE library measures (CONFIG_BT_TEMP_SAMPLE)
  Channels,           \* external channels of CONFIG_ADC_CHANNEL_MAP
  BadChannel,         \* a channel outside the map
  Gain,               \* gains that the application asks for
  Calibrate,          \* whether it asks for a calibration: FALSE, TRUE or both
  MaxExtra,           \* bound: extra_samplings
  BufLen,             \* samples that the application's buffer holds
  MaxRepeat,          \* bound: samplings a callback repeats in one read
  None

CH_INT_7 == 7  \* of the calibration
CH_INT_VBAT == 14
CH_INT_VTEMP == 15

ASSUME AdcAssumption ==
  /\ SUPPORT_INTERRUPT \in BOOLEAN /\ BleTemp \in BOOLEAN
  /\ Channels \subseteq 0 .. 13 /\ 0 \in Channels
  /\ BadChannel \in (0 .. 13) \ Channels
  /\ Gain \subseteq {"1/6", "1/4", "1/2", "1", "2"}
  /\ Calibrate \subseteq BOOLEAN
  /\ MaxExtra \in Nat /\ BufLen \in Nat \ {0} /\ MaxRepeat \in Nat

VARIABLES
  hw,       \* R8_ADC_CHANNEL, the gain, differential input, R8_TEM_SENSOR
  conv,     \* "busy" while converting, "eoc": the end is signalled
  sample,   \* R16_ADC_DATA: the channel it was taken from, or None
  buffer, repeat_buffer,     \* of struct adc_wch_data
  status, options, extra, sampling_index,  \* of struct adc_context; options:
                             \* sequence.options is not NULL
  call,     \* the adc_wch_read in progress, or None
  rpc,      \* where it is
  app,      \* the application's pending read, or None
  buf,      \* the application's buffer
  bpc,      \* where ble_hal_get_inter_temp is
  cfg_save, \* its saved channel configuration
  raw_adc,  \* its sample
  \* History, for the properties only:
  early,    \* a callback has finished the application's read
  repeats,  \* samplings that callbacks have repeated in it
  overlap   \* a measurement has begun before the application's read ended, and
            \* no read has begun since that found the converter idle

ctxVars == <<status, options, extra, sampling_index>>
bleVars == <<bpc, cfg_save, raw_adc>>
appVars == <<app, buf, early, repeats>>
adcVars == <<hw, conv, sample, buffer, repeat_buffer, ctxVars, call, rpc,
          appVars, bleVars, overlap>>

\* The gains of enum adc_gain that the hardware has.
PGA == {"1/4", "1/2", "1", "2"}
Cfg == [channel_id : Channels \union {BadChannel, CH_INT_VBAT, CH_INT_VTEMP},
        gain : Gain, default_time : BOOLEAN, differential : BOOLEAN,
        calibrate : Calibrate]

\* Where a sample goes: the application's buffer or raw_adc, and the index,
\* up to the first that lies beyond both.
Place(who, i) == [who |-> who, index |-> IF i < BufLen THEN i ELSE BufLen]
Room(who) == IF who = "app" THEN BufLen ELSE 1

\* hal_adc_init; the driver's data is zero.
AdcInit ==
  /\ hw = [channel |-> 0, gain |-> "1", diff |-> FALSE, temp |-> FALSE]
  /\ conv = "idle" /\ sample = None
  /\ buffer = Place("app", 0) /\ repeat_buffer = Place("app", 0)
  /\ status = 0 /\ options = FALSE /\ extra = 0 /\ sampling_index = 0
  /\ call = None /\ rpc = "none"
  /\ app = None /\ buf = [i \in 0 .. BufLen - 1 |-> None]
  /\ bpc = "off" /\ cfg_save = None /\ raw_adc = None
  /\ early = FALSE /\ repeats = 0 /\ overlap = FALSE

\* The handler is served before the next step of a call.
Running == conv # "eoc"
MainLoop == Running /\ call = None

-----------------------------------------------------------------------------
(* adc_wch_channel_setup.                                                  *)

Internal(cfg) == cfg.channel_id \in {CH_INT_VTEMP, CH_INT_VBAT}

\* What is refused: another gain, a channel outside the map, and another
\* acquisition time than ADC_ACQ_TIME_DEFAULT.
Accepted(cfg) ==
  cfg.gain \in PGA /\ cfg.channel_id \in Channels /\ cfg.default_time

\* The settings after a set-up.  The channel is not among the fields that
\* adc_wch_channel_setup fills in.
SetUp(cfg) ==
  CASE cfg.channel_id = CH_INT_VTEMP
         -> [hw EXCEPT !.temp = TRUE, !.diff = TRUE, !.gain = "2"]
    [] cfg.channel_id = CH_INT_VBAT
         -> [hw EXCEPT !.diff = FALSE, !.gain = "1/4"]
    [] ~Internal(cfg) /\ ~Accepted(cfg) -> hw
    [] OTHER -> [channel |-> 0, gain |-> cfg.gain,
                 diff |-> cfg.differential, temp |-> FALSE]

\* A calibration makes conversions of its own, with interrupts disabled, and
\* leaves the end of the last one signalled (hal_adc_self_calibration).
AppSetup(cfg) ==
  /\ MainLoop /\ bpc = "off" /\ app = None
  /\ hw' = SetUp(cfg)
  /\ IF ~Internal(cfg) /\ Accepted(cfg) /\ cfg.calibrate
     THEN /\ conv' = IF SUPPORT_INTERRUPT THEN "eoc" ELSE "idle"
          /\ sample' = CH_INT_7
     ELSE UNCHANGED <<conv, sample>>
  /\ UNCHANGED <<buffer, repeat_buffer, ctxVars, call, rpc, app, buf, early,
                 repeats, bleVars, overlap>>

\* adc_wch_channel_config_get: the gain is the one whose code is zero.
adc_wch_channel_config_get ==
  [channel_id |-> hw.channel, gain |-> "1/6", default_time |-> TRUE,
   differential |-> hw.diff, calibrate |-> FALSE]

-----------------------------------------------------------------------------
(* adc_wch_read, by whoever call says.                                     *)

\* Mutant: the first sampling is not counted.
check_buffer_size_ExtraOnly(seq) ==
  Room(seq.who) >= IF seq.options THEN seq.extra ELSE 1

check_buffer_size(seq) ==
  Room(seq.who) >= IF seq.options THEN 1 + seq.extra ELSE 1

\* A buffer that is too small ends the call, with the channel selected.
ReadChannel ==
  /\ Running /\ rpc = "channel"
  /\ hw' = [hw EXCEPT !.channel = call.channel]
  /\ IF check_buffer_size(call)
     THEN rpc' = "buffer" /\ UNCHANGED <<call, app>>
     ELSE rpc' = "none" /\ call' = None /\ app' = None
  /\ UNCHANGED <<conv, sample, buffer, repeat_buffer, ctxVars, buf, 
                 early, repeats, bleVars, overlap>>

\* *data->buffer = s, where the buffer has such an element.
Store(place, s) ==
  /\ buf' = IF place.who = "app" /\ place.index < BufLen
            THEN [buf EXCEPT ![place.index] = s] ELSE buf
  /\ raw_adc' = IF place = Place("ble", 0) THEN s ELSE raw_adc

ReadBuffer ==
  /\ Running /\ rpc = "buffer"
  /\ buffer' = Place(call.who, 0)
  /\ IF SUPPORT_INTERRUPT
     THEN rpc' = "context" /\ UNCHANGED <<call, buf, raw_adc>>
     ELSE \* hal_adc_read_raw waits for no conversion: none was started.
          rpc' = "none" /\ call' = None /\ Store(buffer', sample)
  /\ UNCHANGED <<hw, conv, sample, repeat_buffer, ctxVars, app, early,
                 repeats, bpc, cfg_save, overlap>>

\* Mutant: sampling_index keeps the value of the read before.
start_read_KeepsIndex ==
  /\ Running /\ rpc = "context"
  /\ rpc' = "start"
  /\ status' = 1
  /\ options' = call.options
  /\ extra' = IF call.options THEN call.extra ELSE extra
  /\ UNCHANGED <<hw, conv, sample, buffer, repeat_buffer, sampling_index,
                 call, appVars, bleVars, overlap>>

adc_context_start_read ==
  /\ Running /\ rpc = "context"
  /\ rpc' = "start"
  /\ status' = 1
  /\ options' = call.options
  /\ extra' = IF call.options THEN call.extra ELSE extra
  /\ sampling_index' = IF call.options THEN 0 ELSE sampling_index
  /\ UNCHANGED <<hw, conv, sample, buffer, repeat_buffer, call, appVars,
                 bleVars, overlap>>

\* Mutant: the conversion is not started.
start_sampling_NoStart ==
  /\ Running /\ rpc = "start"
  /\ rpc' = "none" /\ call' = None
  /\ repeat_buffer' = buffer
  /\ UNCHANGED <<hw, conv, sample, buffer, ctxVars, appVars, bleVars, overlap>>

adc_context_start_sampling ==
  /\ Running /\ rpc = "start"
  /\ rpc' = "none" /\ call' = None
  /\ repeat_buffer' = buffer
  /\ conv' = "busy"
  /\ UNCHANGED <<hw, sample, buffer, ctxVars, appVars, bleVars, overlap>>

-----------------------------------------------------------------------------
(* The conversion and its interrupt.                                       *)

Convert ==
  /\ conv = "busy"
  /\ conv' = "eoc"
  /\ sample' = hw.channel
  /\ UNCHANGED <<hw, buffer, repeat_buffer, ctxVars, call, rpc, appVars,
                 bleVars, overlap>>

\* adc_context_complete
Complete ==
  /\ status' = 0
  /\ conv' = "idle"
  /\ UNCHANGED <<sampling_index, buffer, repeat_buffer>>

\* adc_context_update_buffer_pointer and the next start.
Resample(repeat) ==
  /\ buffer' = IF repeat THEN repeat_buffer
               ELSE Place(buffer.who, buffer.index + 1)
  /\ repeat_buffer' = buffer'
  /\ conv' = "busy"
  /\ UNCHANGED status

OnRepeat ==
  /\ options
  /\ repeats < MaxRepeat
  /\ repeats' = repeats + 1
  /\ Resample(TRUE)
  /\ UNCHANGED <<sampling_index, early>>

OnFinish ==
  /\ options
  /\ early' = (early \/ buffer.who = "app")
  /\ Complete
  /\ UNCHANGED repeats

\* ADC_ACTION_CONTINUE, no callback, or no options.
OnContinue ==
  /\ UNCHANGED <<early, repeats>>
  /\ IF options /\ sampling_index < extra
     THEN sampling_index' = sampling_index + 1 /\ Resample(FALSE)
     ELSE Complete

ADC_IRQHandler ==
  /\ conv = "eoc"
  /\ Store(buffer, sample)
  /\ OnContinue \/ OnRepeat \/ OnFinish
  /\ UNCHANGED <<hw, sample, options, extra, call, rpc, app, bpc,
                 cfg_save, overlap>>

-----------------------------------------------------------------------------
(* The application: one read at a time, which it waits for.                *)

AppRead(seq) ==
  /\ MainLoop /\ bpc = "off" /\ app = None
  /\ app' = seq /\ call' = seq /\ rpc' = "channel"
  /\ buf' = [i \in 0 .. BufLen - 1 |-> None]
  /\ early' = FALSE /\ repeats' = 0 /\ overlap' = (overlap /\ conv # "idle")
  /\ UNCHANGED <<hw, conv, sample, buffer, repeat_buffer, ctxVars, bleVars>>

\* adc_wch_is_completed
Completed == SUPPORT_INTERRUPT => status = 0

\* while (!adc_read_is_completed(dev)) ;
ReadWait ==
  /\ MainLoop /\ (app # None \/ bpc = "wait")
  /\ ~Completed
  /\ UNCHANGED adcVars

AppReadDone ==
  /\ MainLoop /\ bpc = "off" /\ app # None
  /\ Completed
  /\ app' = None
  /\ UNCHANGED <<hw, conv, sample, buffer, repeat_buffer, ctxVars, call, rpc,
                 buf, early, repeats, bleVars, overlap>>

(* ble_hal_get_inter_temp: save, set up, read, wait, set up again.         *)

TempSeq == [who |-> "ble", channel |-> CH_INT_VTEMP, options |-> FALSE,
            extra |-> 0]

BleRead ==
  /\ BleTemp
  /\ MainLoop /\ bpc = "off"
  /\ bpc' = "wait"
  /\ cfg_save' = adc_wch_channel_config_get
  /\ hw' = SetUp([channel_id |-> CH_INT_VTEMP, gain |-> "1/6", default_time |-> TRUE,
                  differential |-> FALSE, calibrate |-> FALSE])
  /\ call' = TempSeq /\ rpc' = "channel"
  /\ overlap' = (overlap \/ app # None)
  /\ UNCHANGED <<conv, sample, buffer, repeat_buffer, ctxVars, appVars,
                 raw_adc>>

BleReadDone ==
  /\ MainLoop /\ bpc = "wait"
  /\ Completed
  /\ hw' = SetUp(cfg_save)
  /\ bpc' = "off" /\ cfg_save' = None /\ raw_adc' = None
  /\ UNCHANGED <<conv, sample, buffer, repeat_buffer, ctxVars, call, rpc,
                 appVars, overlap>>

-----------------------------------------------------------------------------
\* The requests of the application: one channel, with options or without.
\* adc_wch_read refuses several channels before it changes anything
\* (adc.c:184-187).
AppSeq ==
  [who : {"app"}, channel : Channels, options : {TRUE}, extra : 0 .. MaxExtra]
    \union
  [who : {"app"}, channel : Channels, options : {FALSE}, extra : {0}]

ASSUME NoneAssumption == None \notin AppSeq \union {TempSeq}

ReadCall ==
  \/ ReadChannel \/ ReadBuffer \/ adc_context_start_read
  \/ adc_context_start_sampling

AdcNext ==
  \/ \E cfg \in Cfg : AppSetup(cfg)
  \/ \E seq \in AppSeq : AppRead(seq)
  \/ ReadCall \/ Convert \/ ADC_IRQHandler
  \/ ReadWait \/ AppReadDone \/ BleRead \/ BleReadDone

AdcSpec == AdcInit /\ [][AdcNext]_adcVars

\* A call goes on, a conversion ends and its interrupt is served, and the
\* application and the BLE library look whether their read is completed; the
\* library's measurements do not keep the application from it for ever.
AdcFairness ==
  /\ WF_adcVars(ReadCall) /\ WF_adcVars(Convert) /\ WF_adcVars(ADC_IRQHandler)
  /\ SF_adcVars(AppReadDone) /\ WF_adcVars(BleReadDone)

-----------------------------------------------------------------------------
(***************************************************************************)
(* No sample is written beyond the buffer of the request: what             *)
(* check_buffer_size compares bounds what repeated, continued and finished *)
(* samplings write (adc.c:67-77, 147-163; adc_context.h:72-114), as long   *)
(* as no measurement falls into the read and the application does not      *)
(* calibrate: the end of conversion that a calibration leaves signalled    *)
(* goes on with the request of the read before.  adc.h:190-191: "The       *)
(* driver must ensure that samples are not written beyond the limit".      *)
(***************************************************************************)
NoOverrun == ~overlap /\ conv = "eoc" => buffer.index < Room(buffer.who)

(***************************************************************************)
(* As include/drivers/adc.h:178-179 describes a read, its samples "are to  *)
(* be written" in its buffer: when it is completed and no callback has cut *)
(* it short, the buffer holds all of them, of its channel.  A measurement  *)
(* that falls into the read breaks it: adc_wch_read hands the driver's     *)
(* channel, buffer and context to the measurement (adc.c:188-199), and the *)
(* read is never taken up again.                                           *)
(***************************************************************************)
ReadFilled ==
  app # None /\ MainLoop /\ bpc = "off" /\ Completed /\ ~early =>
    \A i \in 0 .. app.extra : buf[i] = app.channel

(***************************************************************************)
(* A read into which no measurement falls, and that begins with the        *)
(* converter idle, is filled when it is completed, whatever the reads,     *)
(* the measurements and the overlaps before have left behind in the        *)
(* driver (adc_context.h:52-114).                                          *)
(***************************************************************************)
AllSamplesWritten == ~overlap => ReadFilled

(***************************************************************************)
(* Every read of the application ends, as its loop on                      *)
(* adc_read_is_completed needs (samples/drivers/adc/src/main.c:113), also  *)
(* when measurements take over the driver's context.                       *)
(***************************************************************************)
ReadCompletes == app # None ~> app = None

(***************************************************************************)
(* The loop of ble_hal_get_inter_temp (hal.c:95-97) ends, also when the    *)
(* measurement falls into a read of the application, whose interrupts then *)
(* work on the measurement's request.                                      *)
(***************************************************************************)
MeasurementEnds == bpc = "wait" ~> bpc = "off"
=============================================================================
