-------------------------------- MODULE Frames --------------------------------
(***************************************************************************)
(* strategy/mtf_pipeline.py and mtf_snapshot.py: the indicators of one     *)
(* asset in three timeframes, one after the other, and the direction they  *)
(* point to.  An indicator is kept as far as it is compared: the range of  *)
(* the RSI and the sign of the MACD's histogram.                           *)
(***************************************************************************)
EXTENDS Integers, Sequences, FiniteSets

CONSTANTS
  Counts,     \* how many candles there are of a timeframe
  MinCandles  \* MIN_CANDLES

ASSUME FramesAssumption == Counts \subseteq Nat /\ MinCandles \in Nat

Timeframes == <<60, 300, 900>>

RsiRanges == {"low", "between", "high"}   \* below 40, and above 60
HistSigns == {"negative", "zero", "positive"}

VARIABLE snapshot   \* the indicators of the first timeframes, in their order

FramesInit == snapshot = <<>>

NotANumber == [rsi |-> "nan", hist |-> "nan"]

\* _compute_tf(): too few candles give an entry without numbers.
ComputeTf(n) ==
  /\ Len(snapshot) < Len(Timeframes)
  /\ \/ n < MinCandles /\ snapshot' = Append(snapshot, NotANumber)
     \/ /\ n >= MinCandles
        /\ \E r \in RsiRanges, h \in HistSigns :
             snapshot' = Append(snapshot, [rsi |-> r, hist |-> h])

FramesNext == \E n \in Counts : ComputeTf(n)

FramesSpec == FramesInit /\ [][FramesNext]_snapshot

-----------------------------------------------------------------------------
HasData(f) == f.rsi # "nan"

RsiMark(f)  == IF f.rsi = "low" THEN 1 ELSE IF f.rsi = "high" THEN -1 ELSE 0
HistMark(f) == IF f.hist = "positive" THEN 1 ELSE IF f.hist = "negative" THEN -1 ELSE 0
Mark(f)     == RsiMark(f) + HistMark(f)

BiasForCalls(f) == IF Mark(f) >= 0 THEN "CALL" ELSE "PUT"   \* variant

\* A low RSI is for "CALL", and so is a positive histogram.
Bias(f) == IF Mark(f) > 0 THEN "CALL" ELSE IF Mark(f) < 0 THEN "PUT" ELSE "NEUTRAL"

AvailableTimeframes(frames) == {Timeframes[k] : k \in {j \in DOMAIN frames : HasData(frames[j])}}

Biased(frames, b) == {k \in DOMAIN frames : HasData(frames[k]) /\ Bias(frames[k]) = b}

MultiTfBias(frames) ==
  LET calls == Cardinality(Biased(frames, "CALL"))
      puts  == Cardinality(Biased(frames, "PUT"))
  IN IF calls > puts THEN "CALL" ELSE IF puts > calls THEN "PUT" ELSE "NEUTRAL"

-----------------------------------------------------------------------------
\* The market upside down.
FlippedFrame(f) ==
  [rsi |-> IF f.rsi = "low" THEN "high" ELSE IF f.rsi = "high" THEN "low" ELSE f.rsi,
   hist |-> IF f.hist = "positive" THEN "negative"
            ELSE IF f.hist = "negative" THEN "positive" ELSE f.hist]

Reversed(b) == IF b = "CALL" THEN "PUT" ELSE IF b = "PUT" THEN "CALL" ELSE b

\* Neither side is favoured, and a timeframe without numbers has no part in it:
\* the market upside down gives the other direction, and a direction comes from
\* a timeframe that is listed as available.
BiasIsFair ==
  /\ MultiTfBias([k \in DOMAIN snapshot |-> FlippedFrame(snapshot[k])]) = Reversed(MultiTfBias(snapshot))
  /\ MultiTfBias(snapshot) # "NEUTRAL" => AvailableTimeframes(snapshot) # {}
=============================================================================
