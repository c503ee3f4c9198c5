------------------------------ MODULE TimeUnits ------------------------------
(***************************************************************************)
(* include/sys/time_units.h: conversions between milli-, micro- and        *)
(* nanoseconds, hardware cycles and ticks.  z_tmcvt chooses one of several *)
(* formulas by the frequencies; each function of the API is a call of it.  *)
(* The model makes one call after another on a chip whose frequencies are  *)
(* chosen at start.                                                        *)
(***************************************************************************)
EXTENDS Integers

CONSTANTS
  W32,          \* 2^32
  HzMs,         \* Z_HZ_ms, Z_HZ_us and Z_HZ_ns
  HzUs,
  HzNs,
  ChipHz,       \* frequencies that cycles and ticks may have
  MaxTimeout    \* CONFIG_SYS_CLOCK_MAX_TIMEOUT_DAYS * 24 * 3600

ASSUME UnitsAssumption ==
  /\ W32 \in Nat \ {0, 1}
  /\ {HzMs, HzUs, HzNs} \cup ChipHz \subseteq 1 .. W32 - 1
  /\ MaxTimeout \in Nat
\* The longest timeout is far from the end of 64 bits in every unit.
ASSUME TimeoutAssumption ==
  \A f \in {HzMs, HzUs, HzNs} \cup ChipHz : (MaxTimeout + 1) * f < W32 * W32

W64 == W32 * W32

U32(x) == x % W32
U64(x) == x % W64

Unit == {"ms", "us", "ns", "cyc", "ticks"}
Round == {"floor", "near", "ceil"}

VARIABLES
  hz,        \* the frequency of every unit
  ccyc,      \* Z_CCYC: the frequency of cycles is known to the compiler
  call,      \* the function called and its argument, or None
  converted  \* what it returned

unitVars == <<hz, ccyc, call, converted>>

NoCall == [from |-> "ms", to |-> "ms", bits |-> 64, round |-> "floor", t |-> 0]

CeilDiv(a, b) == (a + b - 1) \div b

\* Z_TMCVT_USE_FAST_ALGO
UseFastAlgo(from_hz, to_hz) ==
  CeilDiv(MaxTimeout * from_hz, W32 - 1) * to_hz <= W32 - 1

Off(round, rdivisor) ==
  CASE round = "ceil" -> rdivisor - 1
    [] round = "near" -> rdivisor \div 2
    [] round = "floor" -> 0

\* Mutant: what the division leaves is not converted.
SlowAlgo_NoRest(t, from_hz, to_hz, off) ==
  U64((t \div from_hz) * to_hz + off \div from_hz)

\* The source is divided first, so that nothing on the way overflows.
SlowAlgo(t, from_hz, to_hz, off) ==
  U64((t \div from_hz) * to_hz + ((t % from_hz) * to_hz + off) \div from_hz)

\* t is a uint64_t; intermediate values are, too.
z_tmcvt(t, from_hz, to_hz, const_hz, result32, round) ==
  LET mul_ratio == const_hz /\ to_hz > from_hz /\ to_hz % from_hz = 0
      div_ratio == const_hz /\ from_hz > to_hz /\ from_hz % to_hz = 0
      ratio == from_hz \div to_hz
      off == IF mul_ratio THEN 0
             ELSE Off(round, IF div_ratio THEN ratio ELSE from_hz)
      full == U64(U64(t * to_hz) + off) \div from_hz
  IN  CASE from_hz = to_hz -> IF result32 THEN U32(t) ELSE t
        [] from_hz # to_hz /\ div_ratio -> U64(t + off) \div ratio
        [] mul_ratio -> IF result32 THEN U32(U32(t) * (to_hz \div from_hz))
                        ELSE U64(t * (to_hz \div from_hz))
        [] OTHER -> IF result32 THEN U32(full)
                    ELSE IF const_hz /\ UseFastAlgo(from_hz, to_hz) THEN full
                    ELSE SlowAlgo(t, from_hz, to_hz, off)

\* The 32-bit functions take and return a uint32_t.
Convert(from, to, bits, round, t) ==
  LET const_hz == "cyc" \notin {from, to} \/ ccyc
      r == z_tmcvt(t, hz[from], hz[to], const_hz, bits = 32, round)
  IN  IF bits = 32 THEN U32(r) ELSE r

\* The functions k_<from>_to_<to>_<round><bits>, by pair of units.
k_ms_to_cyc(bits, round, t) == Convert("ms", "cyc", bits, round, t)
k_ms_to_ticks(bits, round, t) == Convert("ms", "ticks", bits, round, t)
k_us_to_cyc(bits, round, t) == Convert("us", "cyc", bits, round, t)
k_us_to_ticks(bits, round, t) == Convert("us", "ticks", bits, round, t)
k_ns_to_cyc(bits, round, t) == Convert("ns", "cyc", bits, round, t)
k_ns_to_ticks(bits, round, t) == Convert("ns", "ticks", bits, round, t)
k_cyc_to_ms(bits, round, t) == Convert("cyc", "ms", bits, round, t)
k_cyc_to_us(bits, round, t) == Convert("cyc", "us", bits, round, t)
k_cyc_to_ns(bits, round, t) == Convert("cyc", "ns", bits, round, t)
k_cyc_to_ticks(bits, round, t) == Convert("cyc", "ticks", bits, round, t)
k_ticks_to_ms(bits, round, t) == Convert("ticks", "ms", bits, round, t)
k_ticks_to_us(bits, round, t) == Convert("ticks", "us", bits, round, t)
k_ticks_to_ns(bits, round, t) == Convert("ticks", "ns", bits, round, t)
k_ticks_to_cyc(bits, round, t) == Convert("ticks", "cyc", bits, round, t)

Pairs ==
  ({"ms", "us", "ns"} \X {"cyc", "ticks"})
    \cup ({"cyc", "ticks"} \X {"ms", "us", "ns"})
    \cup {<<"cyc", "ticks">>, <<"ticks", "cyc">>}

Returned(pair, bits, round, t) ==
  CASE pair = <<"ms", "cyc">> -> k_ms_to_cyc(bits, round, t)
    [] pair = <<"ms", "ticks">> -> k_ms_to_ticks(bits, round, t)
    [] pair = <<"us", "cyc">> -> k_us_to_cyc(bits, round, t)
    [] pair = <<"us", "ticks">> -> k_us_to_ticks(bits, round, t)
    [] pair = <<"ns", "cyc">> -> k_ns_to_cyc(bits, round, t)
    [] pair = <<"ns", "ticks">> -> k_ns_to_ticks(bits, round, t)
    [] pair = <<"cyc", "ms">> -> k_cyc_to_ms(bits, round, t)
    [] pair = <<"cyc", "us">> -> k_cyc_to_us(bits, round, t)
    [] pair = <<"cyc", "ns">> -> k_cyc_to_ns(bits, round, t)
    [] pair = <<"cyc", "ticks">> -> k_cyc_to_ticks(bits, round, t)
    [] pair = <<"ticks", "ms">> -> k_ticks_to_ms(bits, round, t)
    [] pair = <<"ticks", "us">> -> k_ticks_to_us(bits, round, t)
    [] pair = <<"ticks", "ns">> -> k_ticks_to_ns(bits, round, t)
    [] pair = <<"ticks", "cyc">> -> k_ticks_to_cyc(bits, round, t)

UnitsInit ==
  /\ \E cyc, ticks \in ChipHz :
       hz = [ms |-> HzMs, us |-> HzUs, ns |-> HzNs, cyc |-> cyc,
             ticks |-> ticks]
  /\ ccyc \in BOOLEAN
  /\ call = NoCall /\ converted = 0

CallConversion(pair, bits, round, t) ==
  /\ call' = [from |-> pair[1], to |-> pair[2], bits |-> bits,
              round |-> round, t |-> t]
  /\ converted' = Returned(pair, bits, round, t)
  /\ UNCHANGED <<hz, ccyc>>

ReturnConversion ==
  /\ call # NoCall
  /\ call' = NoCall /\ converted' = 0
  /\ UNCHANGED <<hz, ccyc>>

UnitsNext ==
  \/ /\ call = NoCall
     /\ \E pair \in Pairs, round \in Round :
          \/ \E t \in 0 .. W32 - 1 : CallConversion(pair, 32, round, t)
          \/ \E t \in 0 .. W64 - 1 : CallConversion(pair, 64, round, t)
  \/ ReturnConversion

UnitsSpec == UnitsInit /\ [][UnitsNext]_unitVars

-----------------------------------------------------------------------------
\* n is t * to / from, rounded: what the words floor, near and ceil mean.
IsRounded(n, t, from_hz, to_hz, round) ==
  LET diff == n * from_hz - t * to_hz
  IN  CASE round = "floor" -> -from_hz < diff /\ diff <= 0
        [] round = "near" -> -from_hz <= 2 * diff /\ 2 * diff <= from_hz
        [] round = "ceil" -> 0 <= diff /\ diff < from_hz

\* A 64-bit result must be representable, and 64-bit arguments that take the
\* fast algorithm must not exceed the longest timeout; the exact algorithms
\* leave room for the rounding offset only.
InRange(c) ==
  \/ c.bits = 32
  \/ /\ c.t * hz[c.to] < (W64 - 1) * hz[c.from]
     /\ \/ c.t <= MaxTimeout * hz[c.from]
        \/ /\ c.t + hz[c.from] < W64
           /\ ~UseFastAlgo(hz[c.from], hz[c.to])

(***************************************************************************)
(* Every conversion returns the exact quotient, rounded as its name says   *)
(* and truncated to its width, whichever formula z_tmcvt takes: neither    *)
(* the 32-bit short cuts, nor the fast algorithm up to the longest         *)
(* timeout, nor the split division lose anything on the way                *)
(* (time_units.h:98-158).                                                  *)
(***************************************************************************)
ConversionExact ==
  call # NoCall /\ InRange(call) =>
    LET word == IF call.bits = 32 THEN W32 ELSE W64
        exact == (call.t * hz[call.to]) \div hz[call.from]
    IN  \E n \in {exact, exact + 1} :
          /\ IsRounded(n, call.t, hz[call.from], hz[call.to], call.round)
          /\ converted = n % word
=============================================================================
