-------------------------------- MODULE Votes --------------------------------
(***************************************************************************)
(* strategy/signal_consensus.py: one direction from the opinions of several*)
(* strategies, with a boost if the indicators of the server have the same  *)
(* opinion; and strategy/server_indicator_bridge.py, which reads the same  *)
(* indicators on its own.  Confidences and scores are in percent.          *)
(***************************************************************************)
EXTENDS Integers, FiniteSets, FiniteSetsExt

CONSTANTS
  Advisors,      \* the strategies of the consensus
  Confidences,   \* what they say they are worth, in percent
  MinAgreement,  \* min_agreement, in percent
  MinScore,      \* min_score
  ServerBoost,   \* server_signal_boost
  Indicators     \* keys of the server's dict

ASSUME VotesAssumption ==
  /\ IsFiniteSet(Advisors) /\ IsFiniteSet(Indicators)
  /\ Confidences \subseteq 0 .. 100
  /\ {MinAgreement, MinScore, ServerBoost} \subseteq 0 .. 100

Directions == {"CALL", "PUT", "HOLD"}
Opinions   == [direction : Directions, confidence : Confidences]
Failed     == [direction |-> "raised", confidence |-> 0]   \* analyze() raised
Unheard    == [direction |-> "none", confidence |-> 0]     \* analyze() not yet called

\* What the server says of an indicator; "other" is a value that is no dict.
Said == {"BUY", "SELL", "NEUTRAL", "other"}

\* The dict with the code "no_technical_indicator_available", and None.
ErrorDict == [i \in {"code"} |-> "other"]
NoDict    == [i \in {} |-> "other"]

VARIABLES
  opinions,   \* the signals collected so far
  indicators, \* the server's dict
  verdict,    \* what evaluate() returned, Pending before
  final       \* what evaluate_with_server() returned

voteVars == <<opinions, indicators, verdict, final>>

Result(direction, agreement, score, actionable) ==
  [direction |-> direction, agreement |-> agreement, score |-> score, actionable |-> actionable]
Pending == Result("none", 0, 0, FALSE)
Empty   == Result("HOLD", 0, 0, FALSE)

VotesInit ==
  /\ opinions = [s \in Advisors |-> Unheard]
  /\ indicators \in [Indicators -> Said] \cup {ErrorDict, NoDict}
  /\ verdict = Pending
  /\ final = Pending

-----------------------------------------------------------------------------
(* The consensus. *)

Rounded(a, b) == (2 * a + b) \div (2 * b)   \* round(a / b, 2), in percent
UpTo100(n)    == IF n > 100 THEN 100 ELSE n

Majority(calls, puts) ==
  IF Cardinality(calls) > Cardinality(puts) THEN "CALL"
  ELSE IF Cardinality(puts) > Cardinality(calls) THEN "PUT"
  ELSE "HOLD"

Participating(ops) == {s \in Advisors : ops[s].direction \in Directions}
Voting(ops, d)     == {s \in Advisors : ops[s].direction = d}
Winner(ops)        == Majority(Voting(ops, "CALL"), Voting(ops, "PUT"))
Weight(ops, S)     == SumFunctionOnSet([s \in Advisors |-> ops[s].confidence], S)

\* "HOLD" counts among those who take part.  Agreement times average confidence
\* is the sum of the winners' confidences over all who take part.
Verdict(ops) ==
  LET all == Cardinality(Participating(ops))
      agree == Cardinality(Voting(ops, Winner(ops)))
      weight == Weight(ops, Voting(ops, Winner(ops)))
  IN IF Winner(ops) = "HOLD" THEN Empty
     ELSE Result(Winner(ops), Rounded(100 * agree, all), Rounded(weight, all),
                 100 * agree >= MinAgreement * all /\ weight >= MinScore * all)

\* One strategy of the list after the other, and one that raises is left out.
Analyze(s) ==
  /\ opinions[s] = Unheard
  /\ \E o \in Opinions \cup {Failed} : opinions' = [opinions EXCEPT ![s] = o]
  /\ UNCHANGED <<indicators, verdict, final>>

\* evaluate()
Evaluate ==
  /\ \A s \in Advisors : opinions[s] # Unheard
  /\ verdict = Pending
  /\ verdict' = Verdict(opinions)
  /\ UNCHANGED <<opinions, indicators, final>>

Saying(w) == {i \in DOMAIN indicators : indicators[i] = w}

\* _parse_server_direction()
ParseServerDirection == Majority(Saying("BUY"), Saying("SELL"))

BoostsAgainst ==   \* variant: a server of another opinion takes the boost away
  /\ verdict # Pending /\ final = Pending
  /\ final' =
       LET score == UpTo100(verdict.score - ServerBoost)
       IN IF indicators = NoDict \/ verdict.direction = "HOLD" THEN verdict
          ELSE [verdict EXCEPT !.score = score,
                  !.actionable = verdict.agreement >= MinAgreement /\ score >= MinScore]
  /\ UNCHANGED <<opinions, indicators, verdict>>

\* evaluate_with_server(): the boost, on the rounded numbers, if the server has the
\* same opinion.
Boosts ==
  /\ verdict # Pending /\ final = Pending
  /\ final' =
       LET score == UpTo100(verdict.score + ServerBoost)
       IN IF indicators = NoDict \/ verdict.direction = "HOLD"
             \/ ParseServerDirection # verdict.direction THEN verdict
          ELSE [verdict EXCEPT !.score = score,
                  !.actionable = verdict.agreement >= MinAgreement /\ score >= MinScore]
  /\ UNCHANGED <<opinions, indicators, verdict>>

-----------------------------------------------------------------------------
(* The bridge. *)

IsEmpty == indicators \in {NoDict, ErrorDict}

AvailableIndicators ==
  IF IsEmpty THEN {} ELSE {i \in DOMAIN indicators : indicators[i] # "other"}

GetSignal(i) ==
  IF i \notin AvailableIndicators THEN "None"
  ELSE IF indicators[i] = "BUY" THEN "CALL"
  ELSE IF indicators[i] = "SELL" THEN "PUT"
  ELSE "HOLD"

ConsensusDirection == IF IsEmpty THEN "HOLD" ELSE Majority(Saying("BUY"), Saying("SELL"))

-----------------------------------------------------------------------------
VotesNext == (\E s \in Advisors : Analyze(s)) \/ Evaluate \/ Boosts

VotesSpec == VotesInit /\ [][VotesNext]_voteVars

-----------------------------------------------------------------------------
\* The indicators of the server never turn a verdict or take one back, rounding
\* notwithstanding; they make one actionable only if more of them that can be read
\* one by one are for its direction than for the other.
ServerOnlyHelps ==
  final # Pending =>
    /\ final.direction = verdict.direction
    /\ verdict.actionable => final.actionable
    /\ final.actionable /\ ~verdict.actionable =>
         /\ ConsensusDirection = final.direction
         /\ final.direction = Majority({i \in AvailableIndicators : GetSignal(i) = "CALL"},
                                       {i \in AvailableIndicators : GetSignal(i) = "PUT"})

\* More support does not end an actionable verdict: if a strategy that was of
\* another opinion, or that raised, comes over to the winners, no less confident
\* than they are on average, the order is still placed.
SupportKeeps ==
  verdict.actionable =>
    LET d == verdict.direction
        winners == Voting(opinions, d)
    IN \A s \in Advisors \ winners, c \in Confidences :
         c * Cardinality(winners) >= Weight(opinions, winners) =>
           LET turned == Verdict([opinions EXCEPT ![s] = [direction |-> d, confidence |-> c]])
           IN turned.direction = d /\ turned.actionable

\* The verdict of the consensus is not turned by those who support it.
VerdictStands == ServerOnlyHelps /\ SupportKeeps
=============================================================================
