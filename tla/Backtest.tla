------------------------------- MODULE Backtest -------------------------------
(***************************************************************************)
(* backtest/engine.py: run() goes through the candles of the past once,    *)
(* trades on the signals of a strategy and books the outcome; BacktestRun  *)
(* and performance.py compute the figures of the report from the trades.   *)
(* Of a candle only its closing price matters here, and of a signal its    *)
(* direction.  Money is in cents.  The Sharpe ratio is left out.            *)
(***************************************************************************)
EXTENDS Integers, Sequences, FiniteSets, FiniteSetsExt, SequencesExt

CONSTANTS
  Closes,          \* closing prices that come up
  NumCandles,      \* len(candles)
  WindowSize,      \* min_candles
  StartBalances,   \* initial_balance
  TradeAmount,
  Payout,          \* in percent of the amount
  JournalCapital   \* initial_capital of PerformanceAnalyzer.max_drawdown

ASSUME BacktestAssumption ==
  /\ Closes \subseteq Nat
  /\ NumCandles \in Nat /\ WindowSize \in 1 .. NumCandles
  /\ StartBalances \subseteq Nat \ {0} /\ TradeAmount \in Nat \ {0} /\ Payout \in 1 .. 100
  /\ JournalCapital \in Nat

VARIABLES
  history,   \* the closing prices up to the candle after this one
  index,     \* i
  initial,   \* initial_balance
  balance,
  trades,    \* the trades so far
  analyzed,  \* candles_analyzed
  over       \* run() has returned

backtestVars == <<history, index, initial, balance, trades, analyzed, over>>

BacktestInit ==
  /\ history \in [1 .. WindowSize + 1 -> Closes]
  /\ index = WindowSize
  /\ initial \in StartBalances
  /\ balance = initial
  /\ trades = <<>>
  /\ analyzed = 0
  /\ over = FALSE

HigherOf(a, b) == IF a >= b THEN a ELSE b

-----------------------------------------------------------------------------
(* run() *)

\* Candles count from 0 in the code; candle i closes at Price(i).
Price(i) == history[i + 1]

\* A price that does not move loses on either side.
Wins(direction, entry, exit) == IF direction = "CALL" THEN exit > entry ELSE exit < entry

TradeOf(direction, exit) ==
  LET won    == Wins(direction, Price(index), exit)
      profit == IF won THEN (TradeAmount * Payout) \div 100 ELSE -TradeAmount
  IN [candle |-> index, result |-> IF won THEN "WIN" ELSE "LOSS", profit |-> profit,
      after |-> balance + profit]

InRange == ~over /\ index < NumCandles - 1

HoldsStill(close) ==
  /\ InRange
  /\ history' = Append(history, close)
  /\ index' = index + 1
  /\ analyzed' = analyzed + 1
  /\ UNCHANGED <<initial, balance, trades, over>>

\* The entry is the close of candle i, which analyze() was not shown, and the exit
\* that of the next one.  At a balance of 0 or less it is over.
TradesCandle(direction, close) ==
  /\ InRange
  /\ history' = Append(history, close)
  /\ LET t == TradeOf(direction, close)
     IN trades' = Append(trades, t) /\ balance' = t.after /\ over' = (t.after <= 0)
  /\ index' = index + 1
  /\ analyzed' = analyzed + 1
  /\ UNCHANGED initial

RunEnds ==
  /\ ~over /\ index = NumCandles - 1
  /\ over' = TRUE
  /\ UNCHANGED <<history, index, initial, balance, trades, analyzed>>

BacktestNext ==
  \/ \E close \in Closes :
       HoldsStill(close) \/ \E d \in {"CALL", "PUT"} : TradesCandle(d, close)
  \/ RunEnds

BacktestSpec == BacktestInit /\ [][BacktestNext]_backtestVars

-----------------------------------------------------------------------------
(* The figures of BacktestRun *)

won   == {k \in DOMAIN trades : trades[k].result = "WIN"}
lost  == {k \in DOMAIN trades : trades[k].result = "LOSS"}

ProfitOf(some) == SumFunctionOnSet([k \in DOMAIN trades |-> trades[k].profit], some)

winning_trades == Cardinality(won)
total_profit   == ProfitOf(DOMAIN trades)

\* Every win, and every loss, is of the same size, so that the averages are exact.
avg_win  == IF won = {} THEN 0 ELSE ProfitOf(won) \div Cardinality(won)
avg_loss == IF lost = {} THEN 0 ELSE -((-ProfitOf(lost)) \div Cardinality(lost))

\* Infinite without a loss, and 0 without a trade; here as the pair it is made of.
profit_factor == <<ProfitOf(won), -ProfitOf(lost)>>

\* The expectancy of a trade, times the number of trades.
expectancy == winning_trades * avg_win + (Len(trades) - winning_trades) * avg_loss

BookBalances == <<initial>> \o [k \in DOMAIN trades |-> trades[k].after]

PeakOfTrades ==   \* variant: the peak starts after the first trade
  LET peak[k \in DOMAIN BookBalances] ==
        IF k <= 2 THEN BookBalances[k] ELSE HigherOf(peak[k - 1], BookBalances[k])
  IN peak

\* np.maximum.accumulate(balances)
Peak == LET peak[k \in DOMAIN BookBalances] ==
              IF k = 1 THEN BookBalances[1] ELSE HigherOf(peak[k - 1], BookBalances[k])
        IN peak

Drawdowns == [k \in DOMAIN BookBalances |-> Peak[k] - BookBalances[k]]

max_drawdown == IF trades = <<>> THEN 0 ELSE Max({Drawdowns[k] : k \in DOMAIN BookBalances})

\* The share of the peak that the deepest of the drawdowns lost, in percent; of two
\* that are as deep argmax takes the first.
max_drawdown_pct ==
  LET deepest == Min({k \in DOMAIN BookBalances : Drawdowns[k] = max_drawdown})
  IN IF trades = <<>> THEN 0 ELSE (Drawdowns[deepest] * 100) \div Peak[deepest]

\* max_consecutive_wins and max_consecutive_losses
StreakOf(result) ==
  LET current[k \in 0 .. Len(trades)] ==
        IF k = 0 \/ trades[k].result # result THEN 0 ELSE current[k - 1] + 1
  IN Max({current[k] : k \in 0 .. Len(trades)})

\* PerformanceAnalyzer.max_drawdown: the peak is taken after each trade, so that the
\* capital of before the first one is none.
JournalDrawdown ==
  LET after[k \in 0 .. Len(trades)] ==
        IF k = 0 THEN JournalCapital ELSE after[k - 1] + trades[k].profit
      peak[k \in 0 .. Len(trades)] == IF k = 0 THEN 0 ELSE HigherOf(peak[k - 1], after[k])
  IN Max({0} \cup {peak[k] - after[k] : k \in DOMAIN trades})

-----------------------------------------------------------------------------
(* Properties *)

\* The state has its types.
BacktestTypeOK ==
  /\ history \in Seq(Closes) /\ Len(history) = index + 1 /\ index \in WindowSize .. NumCandles
  /\ initial \in StartBalances /\ balance \in Int
  /\ trades \in Seq([candle : Nat, result : {"WIN", "LOSS"}, profit : Int, after : Int])
  /\ analyzed \in Nat /\ over \in BOOLEAN

\* run() never trades after ruin: of the balances it books only the last one may be 0
\* or less, and when it is run() has returned.
RuinStops ==
  \A k \in DOMAIN trades : trades[k].after <= 0 => k = Len(trades) /\ over

\* The books agree: the balance is what run() started with and the profits of the
\* trades, the expectancy of BacktestRun counts the same money, to which the
\* profit factor agrees, and each candle was asked about once, those without a trade
\* included.
BooksAgree ==
  /\ balance = initial + total_profit
  /\ expectancy = total_profit
  /\ profit_factor[1] > profit_factor[2] <=> expectancy > 0
  /\ analyzed = index - WindowSize
  /\ \A j, k \in DOMAIN trades : j < k => trades[j].candle < trades[k].candle

\* The drawdown is the deepest fall from one balance to a later one, and the streaks
\* are the longest runs of consecutive trades with one result.  More than the whole
\* peak is lost only by who ends in debt.
FiguresAreRight ==
  /\ max_drawdown = Max({BookBalances[p[1]] - BookBalances[p[2]] : p \in
                           {q \in (DOMAIN BookBalances) \X (DOMAIN BookBalances) : q[1] <= q[2]}})
  /\ \A result \in {"WIN", "LOSS"} :
       StreakOf(result) = Max({0} \cup {p[2] - p[1] + 1 : p \in
         {q \in (DOMAIN trades) \X (DOMAIN trades) :
            q[1] <= q[2] /\ \A k \in q[1] .. q[2] : trades[k].result = result}})
  /\ max_drawdown_pct > 100 => balance < 0

\* The journal's drawdown of the same trades is never more than the engine's, and the
\* same once the first trade was won: a loss right at the start is what it misses.
JournalSeesLess ==
  /\ JournalDrawdown <= max_drawdown
  /\ trades # <<>> /\ trades[1].result = "WIN" => JournalDrawdown = max_drawdown

\* Every figure of a run agrees with the trades that were booked, and none was booked
\* after ruin.
RunIsAccounted == RuinStops /\ BooksAgree /\ FiguresAreRight /\ JournalSeesLess
=============================================================================
