----------------------------- MODULE Expirations -----------------------------
(***************************************************************************)
(* expiration.py and the expiry of digital options in orders_mixin.py: at  *)
(* which second an option of so many minutes expires.  Three clocks have a *)
(* part in it: the server's, the last timeSync message of it that was      *)
(* received, and the local one, from which the remaining times are taken.  *)
(* Times are in seconds; time 0 is the start of an hour.                   *)
(***************************************************************************)
EXTENDS Integers, Sequences, FiniteSets, FiniteSetsExt, SequencesExt

CONSTANTS
  Durations,     \* minutes an order asks for
  Skews,         \* local clock - server's clock
  MaxLag,        \* seconds between two timeSync messages
  NumQuarters,   \* idx: how many quarters of an hour are listed
  LastSecond     \* bound: where the clock stops

ASSUME ExpirationAssumption ==
  /\ Durations \subseteq {1, 2, 3, 4, 5, 15, 30}
  /\ Skews \subseteq Int /\ MaxLag \in Nat
  /\ NumQuarters \in Nat /\ NumQuarters >= 3 /\ LastSecond \in Nat

VARIABLES
  now,    \* the server's clock
  synced, \* timesync.server_timestamp
  skew

expirationVars == <<now, synced, skew>>

ExpirationInit == now = 0 /\ synced = 0 /\ skew \in Skews

Second ==
  /\ now < LastSecond
  /\ now - synced < MaxLag
  /\ now' = now + 1
  /\ UNCHANGED <<synced, skew>>

TimeSync ==
  /\ synced # now
  /\ synced' = now
  /\ UNCHANGED <<now, skew>>

ExpirationNext == Second \/ TimeSync

ExpirationSpec == ExpirationInit /\ [][ExpirationNext]_expirationVars

-----------------------------------------------------------------------------
(* expiration.py *)

Minute  == 60
Quarter == 15 * Minute

Abs(n) == IF n < 0 THEN -n ELSE n

MinuteOf(t) == t - (t % Minute)      \* replace(second=0, microsecond=0)

localTime == now + skew            \* time.time()

FirstWithoutMargin(t) == MinuteOf(t) + Minute   \* variant: the next minute, however near

\* The first minute that is more than half a minute away.
FirstMinute(t) ==
  IF MinuteOf(t) + Minute - t > 30 THEN MinuteOf(t) + Minute ELSE MinuteOf(t) + 2 * Minute

\* The first quarter of an hour that is more than five minutes away.
FirstQuarter(t) ==
  Min({q \in {Quarter * (t \div Quarter + k) : k \in 0 .. 2} : q >= MinuteOf(t) /\ q - t > 5 * Minute})

\* exp: five minutes, then quarters of an hour.
Candidates(t) ==
  [k \in 1 .. 5 + NumQuarters |->
     IF k <= 5 THEN FirstMinute(t) + (k - 1) * Minute ELSE FirstQuarter(t) + (k - 6) * Quarter]

\* close: how far each is, by the local clock, from the duration that was asked for.
Closeness(t, duration) ==
  [k \in DOMAIN Candidates(t) |-> Abs(Candidates(t)[k] - localTime - Minute * duration)]

\* close.index(min(close)), from 1
Closest(t, duration) ==
  LET close == Closeness(t, duration)
  IN Min({k \in DOMAIN close : \A j \in DOMAIN close : close[k] <= close[j]})

get_expiration_time(t, duration) == Candidates(t)[Closest(t, duration)]

\* The kind of option Buyv3 and Buyv2 send.
OptionKind(t, duration) == IF Closest(t, duration) <= 5 THEN "turbo" ELSE "binary"

\* get_remaning(duration): the entry of get_remaning_time with that label.
RemainingOf(t, duration) ==
  LET dr(k) == IF k > 5 THEN 15 * (k - 5) ELSE k
      k     == CHOOSE i \in DOMAIN Candidates(t) : dr(i) = duration
  IN Candidates(t)[k] - localTime

\* buy_digital_spot_v2 for more than one minute: half a minute is added to the next
\* minute, so that its test of 30 seconds never fails.
DigitalExpiry(t, duration) ==
  LET date(n) == MinuteOf(t) + 90 + Minute * n
      fits(n) == (date(n) \div Minute) % duration = 0 /\ date(n) - t > 30
      n       == Min({i \in 0 .. 99 : fits(i)})
  IN MinuteOf(date(n))

\* ServerClockSync.now(): the local clock and the offset of the last timeSync.  Neither
\* clock drifts, so that it is the server's.
ClockNow == localTime + (synced - (synced + skew))

-----------------------------------------------------------------------------
(* Properties *)

Turbo   == {d \in Durations : d <= 5}
offset  == skew + (now - synced)      \* what the local clock is ahead of the last timeSync

ExpirationTypeOK == now \in 0 .. LastSecond /\ synced \in 0 .. now /\ skew \in Skews

\* No option is bought in the last half minute before it expires, but for the seconds
\* the last timeSync is old; its expiry is as near to what was asked for as the grid
\* of minutes and quarters allows, but for the two clocks' difference.
ExpiryIsNear ==
  \A d \in Durations :
    LET exp == get_expiration_time(synced, d)
    IN /\ exp - now > 30 - MaxLag
       /\ Abs(exp - synced - Minute * d) <= (IF d \in Turbo THEN 30 ELSE 450) + 2 * Abs(offset)

\* Up to five minutes it is a turbo option, beyond them a binary one, as long as the
\* local clock is not more than a second ahead, and less than two minutes behind.
KindIsRight ==
  offset \in -119 .. 1 =>
    \A d \in Durations : OptionKind(synced, d) = IF d \in Turbo THEN "turbo" ELSE "binary"

\* With the clocks in step get_remaning(d) tells for a turbo option the time left to the
\* expiry an order of d minutes gets.  Not in the second right after half a minute: two
\* minutes are as near then, and the order takes the earlier one.
RemainingAgrees ==
  offset = 0 /\ synced % Minute # 30 =>
    \A d \in Turbo : RemainingOf(synced, d) = get_expiration_time(synced, d) - localTime

\* A digital option expires on a multiple of its duration that is still ahead, no
\* further than its duration away, whatever the local clock says.
DigitalOnTheMark ==
  \A d \in Turbo \ {1} :
    LET exp == DigitalExpiry(ClockNow, d)
    IN /\ exp % (Minute * d) = 0
       /\ exp - now \in 1 .. Minute * d

\* Every option gets the expiry that was asked for, by whatever method it is bought.
ExpiryIsAsked == ExpiryIsNear /\ KindIsRight /\ RemainingAgrees /\ DigitalOnTheMark
=============================================================================
