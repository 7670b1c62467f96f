------------------------------ MODULE MultiOrder ------------------------------
(***************************************************************************)
(* buy_multi() and buy_by_raw_expirations() of orders_mixin.py, one call   *)
(* after the other: several orders are sent before the first answer is     *)
(* there.  Their request ids are their indices, the same ones in each      *)
(* call, and option-opened carries none: its handler takes the request     *)
(* that has waited longest.                                                *)
(*                                                                         *)
(* At most ten orders are placed at once: sorted() takes the indices for   *)
(* text, and "10" comes before "2".  Overlapping calls are the subject of  *)
(* BuyCorrelation.                                                         *)
(***************************************************************************)
EXTENDS Naturals, Sequences, FiniteSets, SequencesExt, Lists

CONSTANTS
  MaxOrders,  \* the orders of a call: 1 .. MaxOrders
  MaxRounds   \* bound: calls

ASSUME MultiAssumption == MaxOrders \in 1 .. 10 /\ MaxRounds \in Nat

RawKey == 0                    \* "raw_exp"
Keys   == 0 .. MaxOrders       \* an order of buy_multi() counts from 1 here

NoId      == <<0, 0>>
Explained == <<0, 1>>          \* an entry that has a text instead of an id
MultiIds  == (1 .. MaxRounds) \X Keys   \* an order: its call, and its place in it

VARIABLES
  round,      \* the number of calls
  multiStage, \* where the caller stands
  placing,    \* the orders of the call
  placed,     \* how many of them are sent
  multi,      \* buy_multi_option: the key's "id", if it has one
  queued,     \* pending_buy_ids
  unanswered, \* orders sent that the broker has not answered
  handed,     \* the ids each call returned
  disturbed   \* history: "no"; "refused" after an order was refused or out of turn;
              \* "late" when a call gave up before all orders were answered

multiVars == <<round, multiStage, placing, placed, multi, queued, unanswered, handed, disturbed>>

MultiInit ==
  /\ round = 0 /\ multiStage = "idle"
  /\ placing = <<>> /\ placed = 0
  /\ multi = << >> /\ queued = <<>>
  /\ unanswered = {} /\ handed = <<>>
  /\ disturbed = "no"

-----------------------------------------------------------------------------
(* The caller. *)

\* The dictionary is emptied; a raw order has an entry from the beginning.
BuyMulti(keys) ==
  /\ multiStage = "idle" /\ round < MaxRounds
  /\ round' = round + 1
  /\ multiStage' = "sending"
  /\ placing' = keys /\ placed' = 0
  /\ multi' = [k \in {RawKey} \cap ToSet(keys) |-> NoId]
  /\ UNCHANGED <<queued, unanswered, handed, disturbed>>

\* buyv3(): the request is queued, and sent.
SendsNext ==
  /\ multiStage = "sending"
  /\ LET k == placing[placed + 1]
     IN queued' = Append(queued, k) /\ unanswered' = unanswered \cup {<<round, k>>}
  /\ placed' = placed + 1
  /\ multiStage' = IF placed' = Len(placing) THEN "waiting" ELSE "sending"
  /\ UNCHANGED <<round, placing, multi, handed, disturbed>>

IdOf(k) == IF multi[k] = Explained THEN NoId ELSE multi[k]

\* All keys of the dictionary in their order, whatever put them there.
Gathered ==
  IF placing = <<RawKey>> THEN <<IdOf(RawKey)>>
  ELSE LET key == [k \in DOMAIN multi |-> k]
       IN [i \in 1 .. Cardinality(DOMAIN multi) |-> IdOf(Ranked(key, i))]

Enough ==
  IF placing = <<RawKey>> THEN multi[RawKey] # NoId ELSE Cardinality(DOMAIN multi) >= Len(placing)

\* A raw order that was answered with an error raises KeyError, and a call that
\* gives up after 30 seconds returns what it has.
Returned(ids) ==
  /\ multiStage = "waiting"
  /\ multiStage' = "idle"
  /\ handed' = Append(handed, ids)
  /\ disturbed' = IF \E o \in unanswered : o[1] = round THEN "late" ELSE disturbed
  /\ UNCHANGED <<round, placing, placed, multi, queued, unanswered>>

GathersIds == Enough /\ Returned(Gathered)
GivesUp    == ~Enough /\ Returned(IF placing = <<RawKey>> THEN <<>> ELSE Gathered)

-----------------------------------------------------------------------------
(* The broker's answers, in any order, and their handlers. *)

InTurn(o) == \A p \in unanswered : p[1] > o[1] \/ (p[1] = o[1] /\ p[2] >= o[2])

Answers(o, regular) ==
  /\ o \in unanswered
  /\ unanswered' = unanswered \ {o}
  /\ disturbed' = IF disturbed = "no" /\ ~(regular /\ InTurn(o)) THEN "refused" ELSE disturbed
  /\ UNCHANGED <<round, multiStage, placing, placed, handed>>

Put(k, v) == multi' = [x \in DOMAIN multi \cup {k} |-> IF x = k THEN v ELSE multi[x]]

OptionOpenedLast(o) ==   \* variant: pop() in place of popleft()
  /\ Answers(o, TRUE)
  /\ IF queued = <<>> THEN UNCHANGED <<multi, queued>>
     ELSE Put(queued[Len(queued)], o) /\ queued' = Front(queued)

\* option_opened()
OptionOpened(o) ==
  /\ Answers(o, TRUE)
  /\ IF queued = <<>> THEN UNCHANGED <<multi, queued>>
     ELSE Put(Head(queued), o) /\ queued' = Tail(queued)

\* result() without success: the request leaves the queue, and gets no entry.
OrderRefused(o) ==
  /\ Answers(o, FALSE)
  /\ queued' = IF \E i \in DOMAIN queued : queued[i] = o[2] THEN RemoveFirst(queued, o[2]) ELSE queued
  /\ UNCHANGED multi

\* OptionClosed with a text instead of an id: an entry, and the request stays in
\* the queue.
OrderExplained(o) ==
  /\ Answers(o, FALSE)
  /\ Put(o[2], Explained)
  /\ UNCHANGED queued

-----------------------------------------------------------------------------
Batches == {<<RawKey>>} \cup {[i \in 1 .. n |-> i] : n \in 1 .. MaxOrders}

MultiNext ==
  \/ \E keys \in Batches : BuyMulti(keys)
  \/ SendsNext \/ GathersIds \/ GivesUp
  \/ \E o \in unanswered : OptionOpened(o) \/ OrderRefused(o) \/ OrderExplained(o)

MultiSpec == MultiInit /\ [][MultiNext]_multiVars

-----------------------------------------------------------------------------
MultiTypeOK ==
  /\ round \in 0 .. MaxRounds
  /\ multiStage \in {"idle", "sending", "waiting"}
  /\ placing \in {<<>>} \cup Batches /\ placed \in 0 .. Len(placing)
  /\ DOMAIN multi \subseteq Keys
  /\ \A i \in DOMAIN queued : queued[i] \in Keys
  /\ unanswered \subseteq MultiIds
  /\ handed \in Seq(Seq(MultiIds \cup {NoId}))
  /\ disturbed \in {"no", "refused", "late"}

\* No order's id is returned twice, whatever the broker refuses or mixes up, and as
\* long as no call gave up early a call returns ids of its own orders only.
IdsAreOwn ==
  LET id(p)  == handed[p[1]][p[2]]
      places == {p \in (1 .. Len(handed)) \X (1 .. MaxOrders + 1) :
                   p[2] \in DOMAIN handed[p[1]] /\ id(p) # NoId}
  IN /\ \A p, q \in places : id(p) = id(q) => p = q
     /\ disturbed # "late" => \A p \in places : id(p)[1] = p[1]

\* Where the broker takes all orders and answers them in turn, before the call gives
\* up, the ids are in the order of the orders, though no answer names its request.
PlacesAreKept ==
  disturbed = "no" =>
    \A c \in DOMAIN handed : \A i \in DOMAIN handed[c] :
      handed[c][i][1] = c /\ handed[c][i][2] \in {i, RawKey}

\* The ids buy_multi() returns are those of its orders, in their places.
IdsAreRight == IdsAreOwn /\ PlacesAreKept
=============================================================================
