----------------------------- MODULE AlertRules -----------------------------
(***************************************************************************)
(* When an alert's condition holds                                         *)
(* (server/alerts/AlertRuleEvaluator.js).  Amounts are integers; a value   *)
(* that is missing is NoValue and satisfies no condition.                  *)
(***************************************************************************)
EXTENDS Integers

CONSTANT NoValue

ASSUME NoValueAssumption == NoValue \notin Int

\* What a cycle knows of a symbol, and what it keeps of it for the next one.
Fields == {"price", "ema9", "ema20", "vwap", "poc", "vah", "val", "rsi14", "volume", "volumeAvg"}
Kept   == {"price", "ema9", "ema20", "vwap", "poc", "vah", "val"}

KnownType(values) == NoValue \notin values

Above(a, b) == KnownType({a, b}) /\ a > b

Distance(a, b) == IF a < b THEN b - a ELSE a - b

CrossesUp(a0, b0, a, b)   == KnownType({a0, b0, a, b}) /\ a0 <= b0 /\ a > b
CrossesDown(a0, b0, a, b) == KnownType({a0, b0, a, b}) /\ a0 >= b0 /\ a < b

Crosses(a0, b0, a, b) == CrossesUp(a0, b0, a, b) \/ CrossesDown(a0, b0, a, b)

(* Within the alert's tolerance, in thousandths; one where it has none. *)
Touches(a, b, tolerance) ==
  /\ KnownType({a, b})
  /\ 1000 * Distance(a, b) <= (IF tolerance = NoValue THEN 1 ELSE tolerance) * Distance(b, 0)

Spikes(volume, average, factor) ==
  /\ KnownType({volume, average})
  /\ average > 0
  /\ volume >= (IF factor = NoValue THEN 2 ELSE factor) * average

Types ==
  {"price_above", "price_below", "price_cross", "rsi_above", "rsi_below",
   "ema_bullish_cross", "ema_bearish_cross", "price_above_ema", "price_below_ema",
   "vwap_cross_up", "vwap_cross_down", "poc_touch", "poc_break", "vah_touch", "vah_break",
   "val_touch", "val_break", "volume_spike", "relative_volume_spike"}

Holds(alert, now, prev) ==
  LET is(t)  == alert.type = t
      level  == alert.threshold
      ema    == IF alert.emaPeriod = 20 THEN now.ema20 ELSE now.ema9
      oldPoc == IF prev.poc = NoValue THEN now.poc ELSE prev.poc
  IN
  \/ is("price_above") /\ Above(now.price, level)
  \/ is("price_below") /\ Above(level, now.price)
  \/ is("price_cross") /\ Crosses(prev.price, level, now.price, level)
  \/ is("rsi_above")   /\ Above(now.rsi14, level)
  \/ is("rsi_below")   /\ Above(level, now.rsi14)
  \/ is("ema_bullish_cross") /\ CrossesUp(prev.ema9, prev.ema20, now.ema9, now.ema20)
  \/ is("ema_bearish_cross") /\ CrossesDown(prev.ema9, prev.ema20, now.ema9, now.ema20)
  \/ is("price_above_ema")   /\ Above(now.price, ema)
  \/ is("price_below_ema")   /\ Above(ema, now.price)
  \/ is("vwap_cross_up")     /\ CrossesUp(prev.price, prev.vwap, now.price, now.vwap)
  \/ is("vwap_cross_down")   /\ CrossesDown(prev.price, prev.vwap, now.price, now.vwap)
  \/ is("poc_touch") /\ Touches(now.price, now.poc, alert.tolerance)
  \/ is("vah_touch") /\ Touches(now.price, now.vah, alert.tolerance)
  \/ is("val_touch") /\ Touches(now.price, now.val, alert.tolerance)
  \/ is("poc_break") /\ Crosses(prev.price, oldPoc, now.price, now.poc)
  \/ is("vah_break") /\ CrossesUp(prev.price, now.vah, now.price, now.vah)
  \/ is("val_break") /\ CrossesDown(prev.price, now.val, now.price, now.val)
  \/ alert.type \in {"volume_spike", "relative_volume_spike"}
     /\ Spikes(now.volume, now.volumeAvg, level)
=============================================================================
