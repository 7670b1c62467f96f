-------------------------------- MODULE Scanner --------------------------------
(***************************************************************************)
(* get_best_payout_assets() of asset_scanner.py: a pass over the assets    *)
(* that have a payout.  What is known of each is asked of three others,    *)
(* the open times, the quality monitor and the market regime, each of      *)
(* which may know nothing of it or raise.  The regime only adds a text to  *)
(* the result and is left out.  Payouts and qualities are in percent.      *)
(***************************************************************************)
EXTENDS Integers, Sequences, FiniteSets, Lists

CONSTANTS
  Payouts,     \* payouts that come up; 0 for none of the instrument type
  Qualities,   \* scores of the quality monitor
  MinPayout,   \* min_payout
  TopN,        \* top_n
  NumAssets    \* the assets of profit_data: 1 .. NumAssets

ASSUME ScannerAssumption ==
  /\ Payouts \subseteq 0 .. 100 /\ Qualities \subseteq 0 .. 100
  /\ MinPayout \in 1 .. 100 /\ TopN \in Nat /\ NumAssets \in Nat

\* The monitor is asked for a quality, then whether the spread allows a trade; it is
\* not asked about an asset without an id, and either answer may raise.
Judgements ==
  {[id |-> FALSE, quality |-> 0, tradeable |-> FALSE, raises |-> FALSE]}
    \cup [id : {TRUE}, quality : Qualities, tradeable : BOOLEAN, raises : BOOLEAN]

\* open_time_data has "shut" of an asset, or "open", or nothing.
Facts == [payout : Payouts, listed : {"open", "shut", "nothing"}, judged : Judgements]

VARIABLES
  facts,    \* what the others say of the assets looked at
  results,  \* the assets that are left
  ranking   \* what was returned, <<>> before

scannerVars == <<facts, results, ranking>>

ScannerInit == facts = <<>> /\ results = <<>> /\ ranking = <<>>

-----------------------------------------------------------------------------
\* An answer that raises counts as the best quality, and so does a missing id; an
\* asset the open times do not have counts as open.
QualityOf(j) == IF ~j.id \/ j.raises THEN 100 ELSE j.quality

RankScore(f) == f.payout * QualityOf(f.judged)

Passes(f) ==
  /\ f.payout >= MinPayout
  /\ f.listed # "shut"
  /\ f.judged.id /\ ~f.judged.raises => f.judged.tradeable

LooksAt(f) ==
  /\ Len(facts) < NumAssets
  /\ facts' = Append(facts, f)
  /\ results' = IF Passes(f) THEN Append(results, [asset |-> Len(facts) + 1, rank |-> RankScore(f)])
                ELSE results
  /\ UNCHANGED ranking

Top(s) == SubSeq(s, 1, IF Len(s) < TopN THEN Len(s) ELSE TopN)

RanksFirst ==   \* variant: cut before it is sorted
  /\ Len(facts) = NumAssets /\ ranking = <<>>
  /\ ranking' = SortedBy(Top(results), [i \in DOMAIN Top(results) |-> - results[i].rank])
  /\ UNCHANGED <<facts, results>>

Ranks ==
  /\ Len(facts) = NumAssets /\ ranking = <<>>
  /\ ranking' = Top(SortedBy(results, [i \in DOMAIN results |-> - results[i].rank]))
  /\ UNCHANGED <<facts, results>>

ScannerNext == Ranks \/ \E f \in Facts : LooksAt(f)

ScannerSpec == ScannerInit /\ [][ScannerNext]_scannerVars

-----------------------------------------------------------------------------
\* What the trader is shown is the best there is: no asset that passes is left out
\* for one that ranks lower.  And an asset whose quality cannot be told ranks above
\* all that pay less, whatever their quality: a monitor that fails does not hide it.
BestAreRanked ==
  ranking # <<>> =>
    LET shown == {ranking[i].asset : i \in DOMAIN ranking}
        out   == {a \in DOMAIN facts : Passes(facts[a])} \ shown
        unknown(a) == ~facts[a].judged.id \/ facts[a].judged.raises
    IN /\ \A i, j \in DOMAIN ranking : i < j => ranking[i].rank >= ranking[j].rank
       /\ \A a \in out, i \in DOMAIN ranking : RankScore(facts[a]) <= ranking[i].rank
       /\ out # {} => Len(ranking) = TopN
       /\ \A a \in out, b \in shown : unknown(a) => facts[b].payout >= facts[a].payout
=============================================================================
