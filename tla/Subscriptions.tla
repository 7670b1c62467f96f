----------------------------- MODULE Subscriptions -----------------------------
(***************************************************************************)
(* subscription_manager.py: callers put requests in a queue, a dispatcher  *)
(* thread hands them to the api object one at a time, with a pause after   *)
(* each that succeeded.  A request is taken from the queue under the lock, *)
(* sent without it, and recorded under it again.                           *)
(*                                                                         *)
(* The api object may raise for any request.  (The one it is given in      *)
(* stable_api.py has none of the methods, and raises for all of them.)     *)
(* What a stream is, an asset with a candle size or a kind of instrument,  *)
(* is left open.                                                           *)
(***************************************************************************)
EXTENDS Naturals, Sequences, FiniteSets

CONSTANTS
  Streams,       \* the (active, size) pairs
  Kinds,         \* instrument types
  MaxRequests    \* bound: calls of the subscribe and unsubscribe methods

ASSUME SubscriptionsAssumption ==
  /\ Streams \cap Kinds = {}
  /\ MaxRequests \in Nat

Nothing == [action |-> "none", stream |-> "none"]
Changes == [action : {"subscribe", "unsubscribe"}, stream : Streams]
News ==
  [action : {"subscribe_positions", "subscribe_orders", "subscribe_instruments_realtime"},
   stream : Kinds]
Requests == Changes \cup News

VARIABLES
  subQueue,    \* _sub_queue
  subActive,   \* the keys of _active_subs
  subItem,     \* the request in the hands of the dispatcher
  subPc,       \* where the dispatcher stands
  subStopping, \* _stop_event
  subOwner,    \* the caller of stop(): "free", "joining" or "through"
  subAsked,    \* bound
  lastAsked,   \* history: the last request queued for a stream
  irregular,   \* history: streams with an urgent or a failed request
  lateSends    \* history: requests sent since stop() set the Event

subVars == <<subQueue, subActive, subItem, subPc, subStopping, subOwner, subAsked,
             lastAsked, irregular, lateSends>>
dispatcher == <<subItem, subPc, subActive>>

SubInit ==
  /\ subQueue = <<>>
  /\ subActive = {}
  /\ subItem = Nothing
  /\ subPc = "looking"
  /\ subStopping = FALSE
  /\ subOwner = "free"
  /\ subAsked = 0
  /\ lastAsked = [s \in Streams |-> "unsubscribe"]
  /\ irregular = {}
  /\ lateSends = 0

-----------------------------------------------------------------------------
(* Callers. *)

Enqueues(request, urgent) ==
  /\ subAsked < MaxRequests
  /\ subAsked' = subAsked + 1
  /\ subQueue' = IF urgent THEN <<request>> \o subQueue ELSE Append(subQueue, request)
  /\ UNCHANGED <<dispatcher, subStopping, subOwner, lateSends>>

\* subscribe_candle(); subscribe_candles_batch() calls it for each asset.
SubscribeCandle(s, urgent) ==
  /\ Enqueues([action |-> "subscribe", stream |-> s], urgent)
  /\ lastAsked' = [lastAsked EXCEPT ![s] = "subscribe"]
  /\ irregular' = IF urgent THEN irregular \cup {s} ELSE irregular

UnsubscribeCandle(s) ==
  /\ Enqueues([action |-> "unsubscribe", stream |-> s], FALSE)
  /\ lastAsked' = [lastAsked EXCEPT ![s] = "unsubscribe"]
  /\ UNCHANGED irregular

\* subscribe_positions(), subscribe_orders(), subscribe_instruments_realtime():
\* there is no way back from these.
SubscribeNews(request, urgent) ==
  /\ Enqueues(request, urgent)
  /\ UNCHANGED <<lastAsked, irregular>>

\* stop() joins the dispatcher for a second, and returns then in any case.
StopAsks ==
  /\ subOwner = "free"
  /\ subStopping' = TRUE
  /\ subOwner' = "joining"
  /\ UNCHANGED <<subQueue, dispatcher, subAsked, lastAsked, irregular, lateSends>>

StopReturns ==
  /\ subOwner = "joining"
  /\ subOwner' = "through"
  /\ UNCHANGED <<subQueue, dispatcher, subStopping, subAsked, lastAsked, irregular, lateSends>>

-----------------------------------------------------------------------------
(* The dispatcher. *)

Dispatcher(from, to) ==
  /\ subPc = from
  /\ subPc' = to
  /\ UNCHANGED <<subStopping, subOwner, subAsked, lastAsked>>

LooksWhenIdle ==   \* variant: the Event ends the thread only when nothing is queued
  /\ Dispatcher("looking", IF subStopping /\ subQueue = <<>> THEN "ended" ELSE "taking")
  /\ UNCHANGED <<subQueue, subItem, subActive, irregular, lateSends>>

Looks ==
  /\ Dispatcher("looking", IF subStopping THEN "ended" ELSE "taking")
  /\ UNCHANGED <<subQueue, subItem, subActive, irregular, lateSends>>

TakesLast ==   \* variant: pop() in place of popleft()
  /\ subQueue # <<>>
  /\ Dispatcher("taking", "sending")
  /\ subItem' = subQueue[Len(subQueue)]
  /\ subQueue' = SubSeq(subQueue, 1, Len(subQueue) - 1)
  /\ UNCHANGED <<subActive, irregular, lateSends>>

Takes ==
  /\ subQueue # <<>>
  /\ Dispatcher("taking", "sending")
  /\ subItem' = Head(subQueue)
  /\ subQueue' = Tail(subQueue)
  /\ UNCHANGED <<subActive, irregular, lateSends>>

FindsNothing ==
  /\ subQueue = <<>>
  /\ Dispatcher("taking", "resting")
  /\ UNCHANGED <<subQueue, subItem, subActive, irregular, lateSends>>

Sends ==
  /\ Dispatcher("sending", IF subItem \in Changes THEN "recording" ELSE "resting")
  /\ lateSends' = IF subStopping THEN lateSends + 1 ELSE lateSends
  /\ UNCHANGED <<subQueue, subItem, subActive, irregular>>

\* The request is gone from the queue, and there is no pause.
SendRaises ==
  /\ Dispatcher("sending", "looking")
  /\ irregular' = irregular \cup {s \in Streams : subItem.stream = s}
  /\ subItem' = Nothing
  /\ UNCHANGED <<subQueue, subActive, lateSends>>

Records ==
  /\ Dispatcher("recording", "resting")
  /\ subActive' = IF subItem.action = "subscribe" THEN subActive \cup {subItem.stream}
                                                  ELSE subActive \ {subItem.stream}
  /\ UNCHANGED <<subQueue, subItem, irregular, lateSends>>

\* The pause after a request, or the look at an empty queue every 0.1 s.
Rests ==
  /\ Dispatcher("resting", "looking")
  /\ subItem' = Nothing
  /\ UNCHANGED <<subQueue, subActive, irregular, lateSends>>

-----------------------------------------------------------------------------
Dispatches ==
  Looks \/ Takes \/ FindsNothing \/ Sends \/ SendRaises \/ Records \/ Rests

SubNext ==
  \/ \E urgent \in BOOLEAN :
       \/ \E s \in Streams : SubscribeCandle(s, urgent)
       \/ \E request \in News : SubscribeNews(request, urgent)
  \/ \E s \in Streams : UnsubscribeCandle(s)
  \/ StopAsks \/ StopReturns
  \/ Dispatches

SubSpec == SubInit /\ [][SubNext]_subVars

\* The thread runs, and the api object comes back from each call.
SubFairSpec == SubSpec /\ WF_subVars(Dispatches)

-----------------------------------------------------------------------------
SubTypeOK ==
  /\ subQueue \in Seq(Requests)
  /\ subActive \subseteq Streams
  /\ subItem \in Requests \cup {Nothing}
  /\ subPc \in {"looking", "taking", "sending", "recording", "resting", "ended"}
  /\ subStopping \in BOOLEAN
  /\ subOwner \in {"free", "joining", "through"}
  /\ subAsked \in 0 .. MaxRequests
  /\ lastAsked \in [Streams -> {"subscribe", "unsubscribe"}]
  /\ irregular \subseteq Streams
  /\ lateSends \in Nat

\* When the queue is worked off, the streams on record are those whose last
\* request was to subscribe, however requests of several callers were mixed.
\* Not so for a stream with an urgent request, which overtakes an earlier
\* unsubscription, or with a request that failed.
LastRequestWins ==
  subQueue = <<>> /\ subItem = Nothing =>
    \A s \in Streams \ irregular : s \in subActive <=> lastAsked[s] = "subscribe"

\* stop(): once the Event is set, whether the join timed out or not, at most one
\* more request goes to the server, the one the dispatcher was about to take.
OneLateSend == lateSends <= 1

\* No request stays in the queue for ever, unless the manager is stopped: urgent
\* requests are finitely many.
RequestsAreTaken == (subQueue # <<>>) ~> (subQueue = <<>> \/ subStopping)
=============================================================================
