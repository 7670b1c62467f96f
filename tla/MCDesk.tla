------------------------------- MODULE MCDesk -------------------------------
(***************************************************************************)
(* Finite instances of the components that share no state with each other, *)
(* those with threads, timers or a server of their own and those that only *)
(* compute: one run checks them all.  Each behaviour is one of one         *)
(* component, named by part; the others rest.                              *)
(***************************************************************************)
EXTENDS Subscriptions, CandleFeed, TradeRecords, Idempotency, IpRotation, AsyncCalls,
        Monitors, CloseAll, OpenTimes, CircuitBreaker, TokenBucket, Settlement,
        Stakes, Patterns, Votes, Frames, Backtest, Expirations, MultiOrder, Reports, Scanner

CONSTANT Parts   \* the components of a run

VARIABLE part

-----------------------------------------------------------------------------
(* Values of the constants *)

MCMaxdicts == {0, 2}     \* without a bound, and with one
MCMaxlens  == {1, 3}

MCListed   == <<"d1", "m1", "d2">>   \* m1 is a margin position

\* Small enough for an open circuit, and for a drawdown of 10 % from 50 to 45.
MCBalances == {0, 45, 50, 60}
MCStakes   == {1, 4}

MCCost     == [c \in Callers |-> IF c = "t1" THEN 2 ELSE 1]   \* t1 pays twice

MCAsks     == [w \in Waiters |-> IF w = "w1" THEN {"o1"} ELSE Orders]
MCReports  == [o \in Orders |-> IF o = "o1" THEN 2 ELSE 1]
MCOneReport == [o \in Orders |-> 1]

MCAssets   == <<"a", "b">>
Asset(x, y) == [n \in {"a", "b"} |-> IF n = "a" THEN x ELSE y]
Quiet      == Asset("none", "none")
Option(x, y) == [k \in {"binary", "turbo"} |-> IF k = "binary" THEN x ELSE y]
Silent     == [v2 |-> Option(Quiet, Quiet), v1 |-> Option(Quiet, Quiet),
               digital |-> Quiet, ws |-> Quiet]
\* The messages agree, or the first one corrects the second; with and without a list
\* of digital underlyings and of instruments.
MCSources  == {Silent} \cup
  {[v2 |-> two, v1 |-> one, digital |-> list, ws |-> ws] :
     two \in {Option(Asset("open", "shut"), Asset("none", "open")), Option(Quiet, Asset("open", "open"))},
     one \in {Option(Asset("shut", "open"), Quiet), Option(Quiet, Quiet)},
     list \in {Quiet, Asset("shut", "shut"), Asset("open", "shut")},
     ws \in {Quiet, Asset("open", "none")}}

MCStrategies == {"flat", "martingale", "anti_martingale", "fibonacci", "kelly"}
MCGrowth     == [s \in 0 .. 3 |-> 2 ^ s]

Candle(o, c, max, min) == [open |-> o, close |-> c, max |-> max, min |-> min]
\* With each candle the same one upside down: a hammer and a star, two dojis, bodies
\* that engulf others, and two that rise and fall beyond their neighbours.
MCShapes == {Candle(4, 5, 5, 0), Candle(1, 0, 5, 0), Candle(2, 2, 5, 0), Candle(3, 3, 5, 0),
             Candle(2, 3, 4, 1), Candle(3, 2, 4, 1), Candle(1, 4, 5, 0), Candle(4, 1, 5, 0),
             Candle(0, 1, 4, 0), Candle(5, 4, 5, 1)}

\* Almost two minutes behind, in step, and two seconds ahead.
MCSkews == {-119, 0, 2}

\* A draw that was booked as a loss costs nothing.
MCOutcomes == {[result |-> "win", profit |-> 8], [result |-> "loss", profit |-> -10],
               [result |-> "loss", profit |-> 0], [result |-> "draw", profit |-> 0],
               [result |-> "open", profit |-> NoProfit]}

-----------------------------------------------------------------------------
(* One component at a time *)

\* A component that rests has one initial state.
DeskInit ==
  /\ part \in Parts
  /\ SubInit /\ RecordInit /\ IdempotencyInit /\ AsyncInit /\ MonitorInit /\ BreakerInit
  /\ BucketInit /\ PatternsInit /\ FramesInit
  /\ MultiInit /\ ReportInit /\ ScannerInit
  /\ CandleInit     /\ (part # "candles" => maxdict = 0 /\ maxlen = 1)
  /\ RotationInit   /\ (part # "logins" => enabled)
  /\ CloseAllInit   /\ (part # "closing" => ~success /\ ~signal)
  /\ OpenTimeInit   /\ (part # "open times" => source = Silent)
  /\ SettlementInit /\ (part # "settlement" => target = [w \in Waiters |-> "o1"])
  /\ StakeInit      /\ (part # "stakes" => strategy = "flat")
  /\ VotesInit      /\ (part # "votes" => indicators = NoDict)
  /\ BacktestInit   /\ (part # "backtest" => initial = 1000 /\ \A k \in DOMAIN history : history[k] = 1)
  /\ ExpirationInit /\ (part # "expirations" => skew = 0)

Only(p) ==
  /\ part = p /\ UNCHANGED part
  /\ p # "subscriptions" => UNCHANGED subVars
  /\ p # "candles" => UNCHANGED candleVars
  /\ p # "records" => UNCHANGED recordVars
  /\ p # "requests" => UNCHANGED registryVars
  /\ p # "logins" => UNCHANGED rotationVars
  /\ p # "async" => UNCHANGED asyncVars
  /\ p # "monitors" => UNCHANGED monitorVars
  /\ p # "closing" => UNCHANGED closeAllVars
  /\ p # "open times" => UNCHANGED openTimeVars
  /\ p # "breaker" => UNCHANGED breakerVars
  /\ p # "bucket" => UNCHANGED bucketVars
  /\ p # "settlement" => UNCHANGED settlementVars
  /\ p # "stakes" => UNCHANGED stakeVars
  /\ p # "patterns" => UNCHANGED window
  /\ p # "votes" => UNCHANGED voteVars
  /\ p # "frames" => UNCHANGED snapshot
  /\ p # "backtest" => UNCHANGED backtestVars
  /\ p # "expirations" => UNCHANGED expirationVars
  /\ p # "batches" => UNCHANGED multiVars
  /\ p # "reports" => UNCHANGED reportVars
  /\ p # "scanner" => UNCHANGED scannerVars

DeskNext ==
  \/ Only("subscriptions") /\ SubNext
  \/ Only("candles") /\ CandleNext
  \/ Only("records") /\ RecordNext
  \/ Only("requests") /\ IdempotencyNext
  \/ Only("logins") /\ RotationNext
  \/ Only("async") /\ AsyncNext
  \/ Only("monitors") /\ MonitorNext
  \/ Only("closing") /\ CloseAllNext
  \/ Only("open times") /\ OpenTimeNext
  \/ Only("breaker") /\ BreakerNext
  \/ Only("bucket") /\ BucketNext
  \/ Only("settlement") /\ SettlementNext
  \/ Only("stakes") /\ StakeNext
  \/ Only("patterns") /\ PatternsNext
  \/ Only("votes") /\ VotesNext
  \/ Only("frames") /\ FramesNext
  \/ Only("backtest") /\ BacktestNext
  \/ Only("expirations") /\ ExpirationNext
  \/ Only("batches") /\ MultiNext
  \/ Only("reports") /\ ReportNext
  \/ Only("scanner") /\ ScannerNext

deskVars == <<part, subVars, candleVars, recordVars, registryVars, rotationVars, asyncVars,
              monitorVars, closeAllVars, openTimeVars, breakerVars, bucketVars, settlementVars,
              stakeVars, window, voteVars, snapshot, backtestVars, expirationVars,
              multiVars, reportVars, scannerVars>>

DeskSpec == DeskInit /\ [][DeskNext]_deskVars

\* Each component has the fairness of its own specification, while it is the one.
FairDeskSpec ==
  /\ DeskSpec
  /\ WF_deskVars(Only("subscriptions") /\ Dispatches)
  /\ \A i \in Ids : WF_deskVars(Only("records") /\ Recording(i))
  /\ WF_deskVars(Only("async") /\ WorkerTakes)
  /\ \A c \in Calls :
       WF_deskVars(Only("async") /\ WorkerEnds(c)) /\ WF_deskVars(Only("async") /\ Returns(c))
  /\ \A m \in MonitorIds : WF_deskVars(Only("monitors") /\ MonitorSteps(m))
  /\ WF_deskVars(Only("closing") /\ ((\E p \in Held : WorkerStep(p)) \/ ReturnsReport))
  /\ WF_deskVars(Only("bucket") /\ BucketTick)
  /\ \A c \in Callers : WF_deskVars(Only("bucket") /\ phase[c] # "idle" /\ Thread(c))
  /\ \A w \in Waiters : WF_deskVars(Only("settlement") /\ pc[w] # "idle" /\ Caller(w))

-----------------------------------------------------------------------------
(* Properties *)

\* Every component keeps its types.
DeskTypeOK ==
  /\ part \in Parts
  /\ SubTypeOK /\ CandleTypeOK /\ RecordTypeOK /\ IdempotencyTypeOK /\ RotationTypeOK
  /\ AsyncTypeOK /\ MonitorTypeOK /\ CloseAllTypeOK /\ OpenTimeTypeOK
  /\ BreakerTypeOK /\ BucketTypeOK /\ SettlementTypeOK
  /\ StakeTypeOK /\ BacktestTypeOK /\ ExpirationTypeOK /\ MultiTypeOK

\* Whatever waits in one of the small components ends: a request in the queue of the
\* subscription manager, a trade being recorded, an awaited call, a monitor that was
\* stopped, close_all_positions().
EveryThreadEnds ==
  RequestsAreTaken /\ RecordingEnds /\ EveryAwaitEnds /\ StopEndsAll /\ CloseAllEnds
=============================================================================
