-------------------------------- MODULE Reports --------------------------------
(***************************************************************************)
(* The figures of the day from the journal's file: get_session_summary() of*)
(* trade_journal.py, and analyze() and get_asset_score() of performance.py.*)
(* Trades are opened by several threads, each of which takes the time and  *)
(* then writes its record, so that the file is not in the order of the     *)
(* times.                                                                  *)
(*                                                                         *)
(* All stakes are equal.  Money is in cents, ratios are kept as the pairs  *)
(* they are computed from, and the Sharpe ratio is left out.  A strategy,  *)
(* or an hour, is summed up as an asset is.                                *)
(***************************************************************************)
EXTENDS Integers, Sequences, FiniteSets, FiniteSetsExt, SequencesExt, Lists

CONSTANTS
  Traded,
  Timespans,    \* duration_secs
  FullStake,
  Outcomes,     \* result and profit of a trade; an open one has NoProfit
  LastN,        \* last_n
  MaxBooked     \* bound

NoProfit == 9999   \* None

ASSUME ReportsAssumption ==
  /\ IsFiniteSet(Traded) /\ IsFiniteSet(Timespans)
  /\ FullStake \in Nat \ {0} /\ LastN \in Nat \ {0} /\ MaxBooked \in Nat
  /\ Outcomes \subseteq [result : {"win", "loss", "draw", "open"}, profit : Int]
  /\ \A o \in Outcomes :
       /\ o.result = "win"  => o.profit > 0 /\ o.profit < NoProfit
       /\ o.result = "loss" => o.profit \in -FullStake .. 0
       /\ o.result = "draw" => o.profit = 0
       /\ o.result = "open" => o.profit = NoProfit

VARIABLES
  opening,  \* records whose time is taken and that are not written yet
  book      \* the lines of the file

reportVars == <<opening, book>>

ReportInit == opening = {} /\ book = <<>>

Taken == Cardinality(opening) + Len(book)

\* open_trade() up to the lock, here with the result that a later rewrite of the
\* line gives it in place.
TakesTime(asset, lasts, o) ==
  /\ Taken < MaxBooked
  /\ opening' = opening \cup {[time |-> Taken + 1, asset |-> asset, lasts |-> lasts,
                               result |-> o.result, profit |-> o.profit]}
  /\ UNCHANGED book

\* _persist()
Appends(t) ==
  /\ opening' = opening \ {t}
  /\ book' = Append(book, t)

ReportNext ==
  \/ \E asset \in Traded, lasts \in Timespans, o \in Outcomes : TakesTime(asset, lasts, o)
  \/ \E t \in opening : Appends(t)

ReportSpec == ReportInit /\ [][ReportNext]_reportVars

-----------------------------------------------------------------------------
(* Figures of a list of trades s, or t when it is in time *)

AsWritten(s) == s   \* variant: the file's order is taken for that of the trades

\* sorted(trades, key=open_time)
InTime(s) == SortedBy(s, [i \in DOMAIN s |-> s[i].time])

Ended(s, result) == {i \in DOMAIN s : s[i].result = result}
Profit(t)       == IF t.profit = NoProfit THEN 0 ELSE t.profit
Earned(s, some) == SumFunctionOnSet([i \in DOMAIN s |-> Profit(s[i])], some)

total_pnl(s)    == Earned(s, DOMAIN s)
gross_profit(s) == Earned(s, Ended(s, "win"))
gross_loss(s)   == -Earned(s, Ended(s, "loss"))

\* winrate, of the trades with a winner
winrate(s) == <<Cardinality(Ended(s, "win")), Cardinality(Ended(s, "win") \cup Ended(s, "loss"))>>

\* max_consecutive_wins, max_consecutive_losses: only the other result ends a streak.
Streak(t, result) ==
  LET current[k \in 0 .. Len(t)] ==
        IF k = 0 THEN 0
        ELSE IF t[k].result = result THEN current[k - 1] + 1
        ELSE IF t[k].result \in {"win", "loss"} THEN 0
        ELSE current[k - 1]
  IN Max({current[k] : k \in 0 .. Len(t)})

PnlOf(s, asset) == Earned(s, {i \in DOMAIN s : s[i].asset = asset})

\* max() takes the first of the best, in the order in which they were first traded.
best_asset(t) ==
  LET best == {i \in DOMAIN t : \A j \in DOMAIN t : PnlOf(t, t[j].asset) <= PnlOf(t, t[i].asset)}
  IN t[Min(best)].asset

\* analyze(): sorted first.
Report(s) ==
  LET t == InTime(s)
  IN [winrate |-> winrate(t), factor |-> <<gross_profit(t), gross_loss(t)>>, total |-> total_pnl(t),
      wins |-> Streak(t, "win"), losses |-> Streak(t, "loss"), best |-> best_asset(t)]

Latest(s, n) == SubSeq(s, 1 + (IF Len(s) > n THEN Len(s) - n ELSE 0), Len(s))

\* get_asset_score(): the last trades of a duration with a winner.  The asset it is
\* asked for has no part in it.
Scored(s, lasts) ==
  LET ended == {i \in Ended(s, "win") \cup Ended(s, "loss") : s[i].lasts = lasts}
  IN Latest(InTime(Those(s, ended)), LastN)

\* expected_value = win_rate * avg_payout - (1 - win_rate), times the stake and the
\* number of trades
expected_value(s) ==
  IF s = <<>> THEN 0 ELSE gross_profit(s) - FullStake * Cardinality(Ended(s, "loss"))

\* get_session_summary(): the same day, all trades of the session
Summary(s) ==
  [total |-> Len(s), wins |-> Cardinality(Ended(s, "win")), losses |-> Cardinality(Ended(s, "loss")),
   draws |-> Cardinality(Ended(s, "draw")),
   profit |-> Earned(s, {i \in DOMAIN s : s[i].profit # NoProfit})]

-----------------------------------------------------------------------------
(* Properties *)

Reorderings(n) == {p \in [1 .. n -> 1 .. n] : \A i, j \in 1 .. n : p[i] = p[j] => i = j}

\* The report of a day and the score of a duration do not depend on the order in
\* which the threads wrote the day's trades.
ReportHasNoOrder ==
  \A p \in Reorderings(Len(book)) :
    LET other == [i \in DOMAIN book |-> book[p[i]]]
    IN /\ book # <<>> => Report(other) = Report(book)
       /\ \A d \in Timespans : Scored(other, d) = Scored(book, d)

\* A streak is what lies between two trades with the other result: trades that are
\* drawn, or still open, neither count nor end it.
StreaksSkipDraws ==
  \A result \in {"win", "loss"} :
    LET same  == {book[i] : i \in Ended(book, result)}
        other == {book[i] : i \in Ended(book, IF result = "win" THEN "loss" ELSE "win")}
        run(a, b) == {t \in same : a.time <= t.time /\ t.time <= b.time}
    IN Streak(InTime(book), result) =
         Max({0} \cup {Cardinality(run(p[1], p[2])) : p \in
               {q \in same \X same : ~\E t \in other : q[1].time < t.time /\ t.time < q[2].time}})

\* The scores agree with the books: a trade that is scored is left out of none of them,
\* each newer one of its duration is scored as well, and a duration with a positive
\* expected value has earned money, since no loss is above the stake.
ScoresAgree ==
  \A d \in Timespans :
    LET scored == Scored(book, d)
    IN /\ \A i \in DOMAIN scored, j \in DOMAIN book :
            /\ book[j].time > scored[i].time /\ book[j].lasts = d /\ book[j].result \in {"win", "loss"}
            => book[j] \in ToSet(scored)
       /\ expected_value(scored) > 0 => total_pnl(scored) > 0
       /\ Summary(book).profit = gross_profit(book) - gross_loss(book)

\* The figures of a day are those of its trades, in their true order.
FiguresOfTheDay == ReportHasNoOrder /\ StreaksSkipDraws /\ ScoresAgree
=============================================================================
