------------------------------ MODULE CandleFeed ------------------------------
(***************************************************************************)
(* The candles of one asset and size: the handlers of candle-generated and *)
(* candles-generated put each message into the dictionary of live candles, *)
(* of bounded size and indexed by the candle's start, and in front of the  *)
(* buffer of candle_cache.py.  The maintenance thread sweeps the buffer    *)
(* every hour, without a lock: it filters a deque that the handlers may    *)
(* extend meanwhile, which makes the filter raise and ends the thread, and *)
(* puts the copy in place of whatever is in the cache by then.             *)
(*                                                                         *)
(* The bound of the dictionary is set by the program around the library.   *)
(* Where it is not set, the handler of a new candle raises before it gets  *)
(* to the buffer.  Messages of a stream arrive in order.                   *)
(***************************************************************************)
EXTENDS Integers, Sequences, FiniteSets, Lists

CONSTANTS
  Maxdicts,     \* values of real_time_candles_maxdict_table, 0 if it is not set
  Maxlens,      \* the sizes of buffers: CANDLE_BUFFER_MAX and those of set_maxlen()
  TTL,          \* CANDLE_TTL_SECONDS, in ticks
  MaxMessages,  \* bound
  MaxClock      \* bound

ASSUME CandlesAssumption ==
  /\ Maxdicts \subseteq Nat
  /\ Maxlens \subseteq Nat \ {0}
  /\ TTL \in Nat \ {0} /\ MaxMessages \in Nat /\ MaxClock \in Nat

VARIABLES
  maxdict,   \* the bound of the dictionary
  live,      \* real_time_candles: from the start of a candle to its last message
  opened,    \* the start of the last candle there was a message of
  messages,  \* how many messages there were; a message is named by its number
  buffer,    \* the deque in the cache, newest first: message and time of arrival
  maxlen,    \* its maxlen
  clock,
  sweep,     \* the maintenance thread: "resting", "filtering", "storing", "dead"
  scanned,   \* the content of the deque being filtered, and its maxlen
  scannedMax,
  cutoff,    \* of this sweep, or of the last one
  hit        \* the deque being filtered was extended or is no longer in the cache

candleVars == <<maxdict, live, opened, messages, buffer, maxlen, clock, sweep, scanned,
                scannedMax, cutoff, hit>>
feedVars  == <<maxdict, live, opened, messages, clock>>
sweepVars == <<sweep, scanned, scannedMax, cutoff>>

CandleInit ==
  /\ maxdict \in Maxdicts
  /\ maxlen \in Maxlens
  /\ live = <<>> /\ opened = 0 /\ messages = 0
  /\ buffer = <<>>
  /\ clock = 0
  /\ sweep = "resting" /\ scanned = <<>> /\ scannedMax = maxlen
  /\ cutoff = -TTL
  /\ hit = "no"

-----------------------------------------------------------------------------
(* Messages. *)

First(s, n) == SubSeq(s, 1, IF Len(s) > n THEN n ELSE Len(s))
Final(s, n)  == SubSeq(s, 1 + (IF Len(s) > n THEN Len(s) - n ELSE 0), Len(s))

With(f, k, v) == [x \in DOMAIN f \cup {k} |-> IF x = k THEN v ELSE f[x]]
Without(f, k) == [x \in DOMAIN f \ {k} |-> f[x]]

\* dict_queue_add(): a candle of the dictionary is updated, for a new one the
\* oldest makes room.
QueueAdd(from, value) ==
  live' = IF from \in DOMAIN live \/ Cardinality(DOMAIN live) < maxdict
            THEN With(live, from, value)
            ELSE With(Without(live, CHOOSE f \in DOMAIN live : \A g \in DOMAIN live : f <= g),
                      from, value)

AddCandleUnbounded(value) ==   \* variant: a deque without maxlen
  /\ buffer' = <<[message |-> value, ts |-> clock]>> \o buffer
  /\ hit' = IF sweep = "filtering" /\ hit = "no" THEN "extended" ELSE hit

\* add_candle(): a full deque loses its oldest candle.
AddCandle(value) ==
  /\ buffer' = First(<<[message |-> value, ts |-> clock]>> \o buffer, maxlen)
  /\ hit' = IF sweep = "filtering" /\ hit = "no" THEN "extended" ELSE hit

\* A message about the last candle or the first of the next one.
CandleGenerated(from) ==
  /\ messages < MaxMessages
  /\ from \in {opened, opened + 1} \ {0}
  /\ messages' = messages + 1
  /\ opened' = from
  /\ IF from \in DOMAIN live \/ maxdict > 0
       THEN QueueAdd(from, messages + 1) /\ AddCandle(messages + 1)
       ELSE UNCHANGED <<live, buffer, hit>>
  /\ UNCHANGED <<maxdict, maxlen, clock, sweepVars>>

-----------------------------------------------------------------------------
(* The cache. *)

\* set_maxlen(): a deque with another bound takes the place of the old one.  The
\* candles go in from the newest to the oldest, and what does not fit falls out
\* at the front.
SetMaxlen(m) ==
  /\ m # maxlen
  /\ maxlen' = m
  /\ buffer' = Final(buffer, m)
  /\ hit' = IF sweep = "filtering" /\ hit = "no" THEN "replaced" ELSE hit
  /\ UNCHANGED <<feedVars, sweepVars>>

\* evict_expired(), for one buffer.
SweepBegins ==
  /\ sweep = "resting"
  /\ sweep' = "filtering"
  /\ scanned' = buffer /\ scannedMax' = maxlen
  /\ cutoff' = clock - TTL
  /\ hit' = "no"
  /\ UNCHANGED <<feedVars, buffer, maxlen>>

\* "deque mutated during iteration": nothing catches it, and the thread ends.
SweepRaises ==
  /\ sweep = "filtering" /\ hit = "extended"
  /\ sweep' = "dead"
  /\ UNCHANGED <<feedVars, buffer, maxlen, scanned, scannedMax, cutoff, hit>>

SweepFilters ==
  /\ sweep = "filtering" /\ hit # "extended"
  /\ sweep' = "storing"
  /\ scanned' = Those(scanned, {i \in DOMAIN scanned : scanned[i].ts > cutoff})
  /\ UNCHANGED <<feedVars, buffer, maxlen, scannedMax, cutoff, hit>>

SweepCounts ==   \* variant: the copy is counted, and not stored
  /\ sweep = "storing"
  /\ sweep' = "resting"
  /\ scanned' = <<>> /\ hit' = "no"
  /\ UNCHANGED <<feedVars, buffer, maxlen, scannedMax, cutoff>>

\* What was added or resized since the filter is lost.
SweepStores ==
  /\ sweep = "storing"
  /\ sweep' = "resting"
  /\ buffer' = scanned /\ maxlen' = scannedMax
  /\ scanned' = <<>> /\ hit' = "no"
  /\ UNCHANGED <<feedVars, scannedMax, cutoff>>

ClockTicks ==
  /\ clock < MaxClock
  /\ clock' = clock + 1
  /\ UNCHANGED <<maxdict, live, opened, messages, buffer, maxlen, sweepVars, hit>>

CandleNext ==
  \/ \E from \in 1 .. MaxMessages : CandleGenerated(from)
  \/ \E m \in Maxlens : SetMaxlen(m)
  \/ SweepBegins \/ SweepRaises \/ SweepFilters \/ SweepStores
  \/ ClockTicks

CandleSpec == CandleInit /\ [][CandleNext]_candleVars

-----------------------------------------------------------------------------
CandleTypeOK ==
  /\ maxdict \in Maxdicts
  /\ DOMAIN live \subseteq 1 .. MaxMessages
  /\ \A f \in DOMAIN live : live[f] \in 1 .. MaxMessages
  /\ opened \in 0 .. MaxMessages /\ messages \in 0 .. MaxMessages
  /\ buffer \in Seq([message : 1 .. MaxMessages, ts : 0 .. MaxClock])
  /\ maxlen \in Maxlens /\ Len(buffer) <= maxlen
  /\ clock \in 0 .. MaxClock
  /\ sweep \in {"resting", "filtering", "storing", "dead"}
  /\ hit \in {"no", "extended", "replaced"}

\* What get_candles() hands out is in order, newest first, and no message is in
\* it twice, whatever sweeps and resizings overlapped with the stream: the
\* engines take the first n candles for the last n.
NewestFirst ==
  \A i, j \in DOMAIN buffer : i < j => buffer[i].message > buffer[j].message

\* The cache forgets: after a sweep no candle is left from before its cutoff,
\* and none that an overlapping resizing has kept.
SweptIsGone ==
  sweep = "resting" => \A i \in DOMAIN buffer : buffer[i].ts > cutoff

\* The dictionary holds the last candles, without a hole, up to its bound.
LiveIsRecent ==
  maxdict > 0 =>
    DOMAIN live = {f \in 1 .. opened : f > opened - maxdict}

\* What readers are given is recent and in order, in the cache and in the live
\* dictionary, after every interleaving of stream, sweep and resizing.
CandlesAreRecent == NewestFirst /\ SweptIsGone /\ LiveIsRecent
=============================================================================
