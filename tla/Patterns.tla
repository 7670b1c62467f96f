------------------------------- MODULE Patterns -------------------------------
(***************************************************************************)
(* What the engines read from the candles of candle_cache.py, newest first:*)
(* strategy/pattern_engine.py and the direction of the trend of            *)
(* strategy/market_regime.py.  The six detectors are written twice, once   *)
(* for rising and once for falling prices.                                 *)
(*                                                                         *)
(* Prices are whole numbers; of the strength of a signal only whether it   *)
(* is above 0 is kept.  A candle that lacks a field gives no signal and is *)
(* left out, and so is the size of the ADX: only which direction a         *)
(* trending market is given.                                               *)
(***************************************************************************)
EXTENDS Integers, Sequences, FiniteSetsExt

CONSTANTS
  TopPrice,  \* prices are 0 .. TopPrice
  Shapes,    \* the candles that come up
  Depth,     \* n_candles, and the candles get_trend_direction() asks for
  Period     \* of the ADX

ASSUME PatternsAssumption ==
  /\ TopPrice \in Nat
  /\ Shapes \subseteq [open : 0 .. TopPrice, close : 0 .. TopPrice,
                       max : 0 .. TopPrice, min : 0 .. TopPrice]
  /\ \A c \in Shapes : {c.open, c.close} \subseteq c.min .. c.max
  /\ Depth \in Nat \ {0} /\ Period \in Nat \ {0}

VARIABLE window   \* get_candles(active_id, size, n), newest first

PatternsInit == window = <<>>

-----------------------------------------------------------------------------
Larger(a, b)  == IF a > b THEN a ELSE b
Smaller(a, b) == IF a < b THEN a ELSE b

Body(c)      == Larger(c.open, c.close) - Smaller(c.open, c.close)
UpperWick(c) == c.max - Larger(c.open, c.close)
LowerWick(c) == Smaller(c.open, c.close) - c.min

IsDoji(c) == c.max > c.min /\ Body(c) * 10 < c.max - c.min

\* A long wick below the body, and next to none above.
IsHammer(c) ==
  Body(c) > 0 /\ LowerWick(c) > 2 * Body(c) /\ UpperWick(c) * 10 <= 3 * Body(c)

IsShootingStar(c) ==
  Body(c) > 0 /\ UpperWick(c) > 2 * Body(c) /\ LowerWick(c) * 10 <= 3 * Body(c)

IsBullishEngulfing(prev, curr) ==
  /\ prev.close < prev.open /\ curr.close > curr.open
  /\ curr.open < prev.close /\ curr.close > prev.open

IsBearishEngulfing(prev, curr) ==
  /\ prev.close > prev.open /\ curr.close < curr.open
  /\ curr.open > prev.close /\ curr.close < prev.open

IsInsideBar(prev, curr) == curr.max < prev.max /\ curr.min > prev.min

\* The patterns of one candle, and those of a candle and the one before it.
Single(c) ==
  {p \in {<<"DOJI", "neutral">>, <<"HAMMER", "call">>, <<"SHOOTING_STAR", "put">>} :
     \/ p[1] = "DOJI" /\ IsDoji(c)
     \/ p[1] = "HAMMER" /\ IsHammer(c)
     \/ p[1] = "SHOOTING_STAR" /\ IsShootingStar(c)}

Double(prev, curr) ==
  {p \in {<<"BULLISH_ENGULFING", "call">>, <<"BEARISH_ENGULFING", "put">>,
          <<"INSIDE_BAR", "neutral">>} :
     \/ p[1] = "BULLISH_ENGULFING" /\ IsBullishEngulfing(prev, curr)
     \/ p[1] = "BEARISH_ENGULFING" /\ IsBearishEngulfing(prev, curr)
     \/ p[1] = "INSIDE_BAR" /\ IsInsideBar(prev, curr)}

PreviousIsNewer(w, i) == {j \in DOMAIN w : j = i - 1}   \* variant: candles[i - 1]

Previous(w, i) == {j \in DOMAIN w : j = i + 1}

\* detect(): the signals of each candle, here with its index from 1.
Detect(w) ==
  IF Len(w) < 2 THEN {}
  ELSE UNION {{<<p[1], p[2], i>> : p \in Single(w[i]) \cup
                 UNION {Double(w[j], w[i]) : j \in Previous(w, i)}} : i \in DOMAIN w}

-----------------------------------------------------------------------------
\* get_trend_direction() of a trending market: what the highs gain from one index
\* to the next, and what the lows lose, over the last indices.  (Both sums are
\* divided by the same range, which is positive if one of them is.)
Gain(w, i) == w[i].max - w[i - 1].max
Loss(w, i) == w[i - 1].min - w[i].min

Looked(w) == (Len(w) - Smaller(Period, Len(w) - 1) + 1) .. Len(w)

PlusDM(w) ==
  SumFunctionOnSet([i \in 2 .. Len(w) |-> Gain(w, i)],
                   {i \in Looked(w) : Gain(w, i) > Loss(w, i) /\ Gain(w, i) > 0})
MinusDM(w) ==
  SumFunctionOnSet([i \in 2 .. Len(w) |-> Loss(w, i)],
                   {i \in Looked(w) : Loss(w, i) > Gain(w, i) /\ Loss(w, i) > 0})

TrendDirection(w) ==
  IF Len(w) < 2 * Period THEN "neutral"
  ELSE IF PlusDM(w) > MinusDM(w) THEN "up"
  ELSE IF MinusDM(w) > PlusDM(w) THEN "down"
  ELSE "neutral"

-----------------------------------------------------------------------------
\* A candle is closed: add_candle(), seen through get_candles(n).
CandleCloses(c) == window' = SubSeq(<<c>> \o window, 1, Smaller(Depth, Len(window) + 1))

PatternsNext == \E c \in Shapes : CandleCloses(c)

PatternsSpec == PatternsInit /\ [][PatternsNext]_window

-----------------------------------------------------------------------------
\* The market upside down.
Flipped(c) ==
  [open |-> TopPrice - c.open, close |-> TopPrice - c.close,
   max |-> TopPrice - c.min, min |-> TopPrice - c.max]
FlippedWindow(w) == [i \in DOMAIN w |-> Flipped(w[i])]

Opposite(pattern) ==
  IF pattern = "HAMMER" THEN "SHOOTING_STAR"
  ELSE IF pattern = "SHOOTING_STAR" THEN "HAMMER"
  ELSE IF pattern = "BULLISH_ENGULFING" THEN "BEARISH_ENGULFING"
  ELSE IF pattern = "BEARISH_ENGULFING" THEN "BULLISH_ENGULFING"
  ELSE pattern
OtherSide(direction) ==
  IF direction = "call" THEN "put" ELSE IF direction = "put" THEN "call"
  ELSE IF direction = "up" THEN "down" ELSE IF direction = "down" THEN "up"
  ELSE direction

\* Falling prices are read as rising ones are: in the same market upside down
\* there are the same signals at the same candles, each for the other side, and
\* the trend has the other direction.
SidesAreEqual ==
  /\ Detect(FlippedWindow(window)) = {<<Opposite(s[1]), OtherSide(s[2]), s[3]>> : s \in Detect(window)}
  /\ TrendDirection(FlippedWindow(window)) = OtherSide(TrendDirection(window))

\* Signals are not taken back or added afterwards: when candles close later, the
\* signals of a candle stay what they were, as long as the candle before it is
\* still in the window.
NoRepaint ==
  [][{<<s[1], s[2], s[3] + 1>> : s \in {r \in Detect(window) : r[3] + 1 < Len(window')}}
       = {s \in Detect(window') : 1 < s[3] /\ s[3] < Len(window')}]_window

\* tests/unit/strategy/test_market_coverage_plus.py: "get_trend_direction also
\* reverses candles internally".  The cache gives the newest candle first, so that
\* where each high and each low is above the one before, the trend is not "down".
TrendIsMarkets ==
  (\A i \in 2 .. Len(window) : window[i - 1].max > window[i].max /\ window[i - 1].min > window[i].min)
    => TrendDirection(window) # "down"

\* The engines' signals are even-handed, and stay what they were.
SignalsAreSteady == []SidesAreEqual /\ NoRepaint
=============================================================================
