-------------------------------- MODULE Queries --------------------------------
(***************************************************************************)
(* The methods of the SDK that ask the server a question and wait for the  *)
(* answer.  Each kind of answer has one attribute of the api object, here  *)
(* slot, and one threading.Event, together a channel.  All calls that      *)
(* expect this kind of answer share them, and an answer does not say whose *)
(* it is.                                                                  *)
(*                                                                         *)
(* The methods differ in a few lines: what they do to the slot and to the  *)
(* Event before and after they send, whether they wait for the Event or    *)
(* look at the slot, and what they return when the time is over.  A method *)
(* is therefore a record, and a behaviour is the life of one channel with  *)
(* any of its methods called, one after the other or at the same time.     *)
(* Channels share nothing but the lock of the socket, which a handler      *)
(* holds for a moment.                                                     *)
(***************************************************************************)
CONSTANTS Calls,    \* calls of methods of the channel
          Pushes    \* messages that answer none of these calls: late answers
                    \* to earlier calls, results of other commands, news

ASSUME MessagesAssumption == Calls \cap Pushes = {}

Messages == Calls \cup Pushes    \* an answer is named after its call

-----------------------------------------------------------------------------
(* Channels: the handlers of the answers. *)

\* The common form: the handler writes the message to the slot and sets the Event.
Sets(attribute) == [slot |-> attribute, keyed |-> FALSE, shared |-> FALSE,
                    written |-> TRUE, polled |-> FALSE]

Keyed(h)     == [h EXCEPT !.keyed = TRUE]     \* the slot maps request ids to answers
Shared(h)    == [h EXCEPT !.shared = TRUE]    \* other messages set the Event too
Unwritten(h) == [h EXCEPT !.written = FALSE]  \* nothing writes the slot that is read
Polled(h)    == [h EXCEPT !.polled = TRUE]    \* buy() clears the Event in a loop

positions                         == Sets("positions")
position                          == Sets("position")
result                            == Polled(Sets("result"))
history_positions                 == Sets("position_history_v2")
available_leverages               == Sets("available_leverages")
overnight_fee                     == Sets("overnight_fee")
position_closed                   == Sets("close_position_data")
training_balance_reset            == Sets("training_balance_reset_request")
api_option_init_all_result        == Sets("api_option_init_all_result")
initialization_data               == Sets("api_option_init_all_result_v2")
digital_option_placed             == Keyed(Sets("digital_option_placed_id"))
order_placed_temp                 == Shared(Sets("buy_order_id"))
order_canceled                    == Shared(Sets("order_canceled"))
orders_state                      == Sets("orders_state")
api_game_getoptions_result        == Sets("api_game_getoptions_result")
options                           == Sets("get_options_v2_data")
margin_order_result               == Sets("margin_order_result")
financial_information             == Sets("financial_information")
leaderboard_deals_client          == Sets("leaderboard_deals_client")
instruments                       == Sets("instruments")
balances                          == Sets("balances_raw")
technical_indicators              == Keyed(Sets("technical_indicators"))
underlying_list                   == Unwritten(Sets("underlying_list_data"))
strike_list                       == Sets("strike_list")
marginal_balance                  == Shared(Sets("marginal_balance"))
auto_margin_call_changed          == Sets("auto_margin_call_changed_respond")
tpsl_changed                      == Sets("tpsl_changed_respond")
order_state                       == Shared(Sets("order_data"))
deferred_orders                   == Sets("deferred_orders")
user_profile_client               == Sets("user_profile_client")
leaderboard_userinfo_deals_client == Sets("leaderboard_userinfo_deals_client")
users_availability                == Sets("users_availability")
digital_payout                    == Sets("digital_payout")
position_history                  == Unwritten(Sets("position_history_data"))

-----------------------------------------------------------------------------
(* Methods. *)

\* The common form: clear the Event, send, wait, and read the slot only when
\* the Event came in time.
Ask(ch) == [channel |-> ch, cached |-> FALSE, reset |-> FALSE,
            clear |-> "before", wait |-> "event", late |-> "nothing"]

Afresh(m)     == [m EXCEPT !.reset = TRUE]      \* the slot is set to None first
OrOld(m)      == [m EXCEPT !.late = "slot"]     \* read the slot though time is over
Once(m)       == [m EXCEPT !.cached = TRUE]     \* ask only if the slot is None
ClearLate(m)  == [m EXCEPT !.clear = "after"]   \* clear when the request is sent
ClearNever(m) == [m EXCEPT !.clear = "never"]
Renew(m)      == [m EXCEPT !.clear = "renew"]   \* put a new Event in place of the old
Poll(m)       == [m EXCEPT !.wait = "slot", !.clear = "never", !.late = "slot"]

\* mixins/positions_mixin.py, mixins/management_mixin.py
get_positions           == Ask(positions)
sync_state_on_connect   == Ask(positions)
get_position            == Ask(position)
get_digital_position_by_position_id == Ask(position)
get_position_history    == Afresh(Ask(result))
get_position_history_v2 == Ask(history_positions)
get_available_leverages == Ask(available_leverages)
get_overnight_fee       == Ask(overnight_fee)
close_margin_position   == Afresh(Poll(Ask(position_closed)))
reset_practice_balance  == OrOld(Ask(training_balance_reset))
get_all_init            == Once(OrOld(Ask(api_option_init_all_result)))
get_all_init_v2         == Once(OrOld(Ask(initialization_data)))

\* mixins/orders_mixin.py
buy_digital_spot_v2     == ClearNever(Ask(digital_option_placed))
buy_digital             == Afresh(Ask(result))
buy_blitz               == Afresh(Ask(result))
place_pending_order     == Afresh(Ask(result))
create_price_alert      == Afresh(Ask(result))
delete_price_alert      == Afresh(Ask(result))
modify_margin_tp_sl     == Afresh(Ask(result))
sell_option             == Ask(result)
sell_digital_option     == Ask(result)
close_digital_option    == OrOld(Ask(result))
buy_order               == Afresh(Poll(Ask(order_placed_temp)))
check_cfd_order_capability == Afresh(OrOld(ClearLate(Ask(order_placed_temp))))
cancel_pending_order    == Ask(order_canceled)
cancel_order            == Ask(order_canceled)
get_pending_orders      == Renew(Ask(orders_state))
get_optioninfo          == OrOld(Ask(api_game_getoptions_result))
get_optioninfo_v2       == OrOld(Ask(options))
open_margin_position    == Afresh(Ask(margin_order_result))

\* stable_api.py
get_financial_information == Afresh(Ask(financial_information))
get_leader_board        == Afresh(OrOld(Ask(leaderboard_deals_client)))
get_instruments         == Afresh(OrOld(Ask(instruments)))
get_balances            == Afresh(Ask(balances))
get_technical_indicators == Ask(technical_indicators)
get_digital_underlying_list_data == Afresh(OrOld(ClearNever(Ask(underlying_list))))
get_strike_list         == Ask(strike_list)
get_marginal_balance    == Ask(marginal_balance)
change_auto_margin_call == Ask(auto_margin_call_changed)
change_order            == Afresh(OrOld(ClearLate(Ask(tpsl_changed))))
get_order               == Ask(order_state)
get_pending             == Ask(deferred_orders)
get_user_profile_client == OrOld(Ask(user_profile_client))
request_leaderboard_userinfo_deals_client == OrOld(Ask(leaderboard_userinfo_deals_client))
get_users_availability  == OrOld(Ask(users_availability))
get_digital_payout      == Afresh(OrOld(ClearNever(Ask(digital_payout))))

\* api.py
send_ssid               == ClearLate(Ask(balances))

\* reconciler.py
try_position_history    == Ask(position_history)

Methods ==
  {get_positions, sync_state_on_connect, get_position,
   get_digital_position_by_position_id, get_position_history,
   get_position_history_v2, get_available_leverages, get_overnight_fee,
   close_margin_position, reset_practice_balance, get_all_init,
   get_all_init_v2, buy_digital_spot_v2, buy_digital, buy_blitz,
   place_pending_order, create_price_alert, delete_price_alert,
   modify_margin_tp_sl, sell_option, sell_digital_option,
   close_digital_option, buy_order, check_cfd_order_capability,
   cancel_pending_order, cancel_order, get_pending_orders, get_optioninfo,
   get_optioninfo_v2, open_margin_position, get_financial_information,
   get_leader_board, get_instruments, get_balances,
   get_technical_indicators, get_digital_underlying_list_data,
   get_strike_list, get_marginal_balance, change_auto_margin_call,
   change_order, get_order, get_pending, get_user_profile_client,
   request_leaderboard_userinfo_deals_client, get_users_availability,
   get_digital_payout, send_ssid, try_position_history}

Channels == {m.channel : m \in Methods}

-----------------------------------------------------------------------------
VARIABLES
  channel,    \* the channel this behaviour is about
  method,     \* the method of each call
  pc,         \* where each call stands
  event,      \* the flag of the Event
  slot,       \* the attribute: {} is None, a keyed one may hold several answers
  net,        \* messages that may still arrive; the server need not answer
  handling,   \* the message whose handler has written the slot, not set the Event
  returned,   \* what each call returned: {} is None, False or an exception
  answered,   \* history: messages whose handlers are through
  old,        \* history: what was in answered when a call began
  disturbed   \* history: calls during which another one touched slot or Event

histories == <<answered, old, disturbed>>
vars == <<channel, method, pc, event, slot, net, handling, returned, histories>>

Running(c) == pc[c] \notin {"idle", "done"}

\* Another call has interfered with every call that is under way.
Disturbing(c) == disturbed' = disturbed \cup {d \in Calls \ {c} : Running(d)}

Goes(c, place) == pc' = [pc EXCEPT ![c] = place]

Init ==
  /\ channel \in Channels
  /\ method \in [Calls -> {m \in Methods : m.channel = channel}]
  /\ pc = [c \in Calls |-> "idle"]
  /\ event = FALSE
  /\ slot = {}
  /\ net = Pushes
  /\ handling = {}
  /\ returned = [c \in Calls |-> {}]
  /\ answered = {}
  /\ old = [c \in Calls |-> {}]
  /\ disturbed = {}

-----------------------------------------------------------------------------
(* A call. *)

\* A method that has its answer on record returns it.
ReturnsCached(c) ==
  /\ pc[c] = "idle"
  /\ method[c].cached /\ slot # {}
  /\ Goes(c, "done")
  /\ returned' = [returned EXCEPT ![c] = slot]
  /\ old' = [old EXCEPT ![c] = answered]
  /\ UNCHANGED <<channel, method, event, slot, net, handling, answered, disturbed>>

Begins(c) ==
  /\ pc[c] = "idle"
  /\ ~(method[c].cached /\ slot # {})
  /\ Goes(c, "clear")
  /\ old' = [old EXCEPT ![c] = answered]
  /\ IF method[c].reset
       THEN slot' = {} /\ Disturbing(c)
       ELSE UNCHANGED <<slot, disturbed>>
  /\ UNCHANGED <<channel, method, event, net, handling, returned, answered>>

\* Variant: the Event is not cleared before the request is sent.
ClearsNothing(c) ==
  /\ pc[c] = "clear"
  /\ Goes(c, "send")
  /\ UNCHANGED <<channel, method, event, slot, net, handling, returned, histories>>

Clears(c) ==
  /\ pc[c] = "clear"
  /\ method[c].clear # "renew"
  /\ Goes(c, "send")
  /\ IF method[c].clear = "before"
       THEN event' = FALSE /\ Disturbing(c)
       ELSE UNCHANGED <<event, disturbed>>
  /\ UNCHANGED <<channel, method, slot, net, handling, returned, answered, old>>

\* Who waits for an Event that is replaced waits for its timeout.
Renews(c) ==
  /\ pc[c] = "clear"
  /\ method[c].clear = "renew"
  /\ event' = FALSE
  /\ pc' = [d \in Calls |-> IF d = c THEN "send"
                            ELSE IF pc[d] = "blocked" THEN "stranded" ELSE pc[d]]
  /\ Disturbing(c)
  /\ UNCHANGED <<channel, method, slot, net, handling, returned, answered, old>>

\* Variant: the Event is cleared when the request is on its way.
SendsTooEarly(c) ==
  /\ pc[c] = "send"
  /\ handling = {}
  /\ net' = net \cup {c}
  /\ Goes(c, "clear late")
  /\ UNCHANGED <<channel, method, event, slot, handling, returned, histories>>

\* send_websocket_request() takes the lock that a handler holds.  It may raise.
Sends(c) ==
  /\ pc[c] = "send"
  /\ handling = {}
  /\ \/ /\ net' = net \cup {c}
        /\ Goes(c, IF method[c].clear = "after" THEN "clear late" ELSE "wait")
     \/ Goes(c, "done") /\ UNCHANGED net
  /\ UNCHANGED <<channel, method, event, slot, handling, returned, histories>>

ClearsLate(c) ==
  /\ pc[c] = "clear late"
  /\ event' = FALSE
  /\ Goes(c, "wait")
  /\ Disturbing(c)
  /\ UNCHANGED <<channel, method, slot, net, handling, returned, answered, old>>

\* wait() returns at once if the flag is up.
Waits(c) ==
  /\ pc[c] = "wait"
  /\ method[c].wait = "event"
  /\ Goes(c, IF event THEN "read" ELSE "blocked")
  /\ UNCHANGED <<channel, method, event, slot, net, handling, returned, histories>>

\* A method that polls looks at the slot until it is filled or the time is over.
Polls(c) ==
  /\ pc[c] = "wait"
  /\ method[c].wait = "slot"
  /\ Goes(c, "read")
  /\ UNCHANGED <<channel, method, event, slot, net, handling, returned, histories>>

\* Variant: a wait without a limit.
NeverTimesOut(c) == FALSE /\ UNCHANGED vars

TimesOut(c) ==
  /\ pc[c] \in {"blocked", "stranded"}
  /\ Goes(c, IF method[c].late = "slot" THEN "read" ELSE "done")
  /\ UNCHANGED <<channel, method, event, slot, net, handling, returned, histories>>

Reads(c) ==
  /\ pc[c] = "read"
  /\ returned' = [returned EXCEPT ![c] = IF channel.keyed THEN slot \cap {c} ELSE slot]
  /\ Goes(c, "done")
  /\ UNCHANGED <<channel, method, event, slot, net, handling, histories>>

-----------------------------------------------------------------------------
(* The thread of the WebSocket: a handler writes the slot, then it sets    *)
(* the Event, which wakes all that wait for it.                            *)

Written(m) ==
  IF ~channel.written THEN {slot}
  ELSE IF channel.keyed THEN {slot \cup {m}}
  ELSE {{m}} \cup {s \in {slot} : channel.shared /\ m \in Pushes}

Handles(m) ==
  /\ handling = {}
  /\ m \in net
  /\ net' = net \ {m}
  /\ handling' = {m}
  /\ slot' \in Written(m)
  /\ UNCHANGED <<channel, method, pc, event, returned, histories>>

Notifies ==
  /\ handling # {}
  /\ event' = TRUE
  /\ pc' = [c \in Calls |-> IF pc[c] = "blocked" THEN "read" ELSE pc[c]]
  /\ answered' = answered \cup handling
  /\ handling' = {}
  /\ UNCHANGED <<channel, method, slot, net, returned, old, disturbed>>

\* buy() waits a tenth of a second for the Event of results, and clears it.
BuyClears ==
  /\ channel.polled
  /\ event
  /\ event' = FALSE
  /\ disturbed' = disturbed \cup {c \in Calls : Running(c)}
  /\ UNCHANGED <<channel, method, pc, slot, net, handling, returned, answered, old>>

-----------------------------------------------------------------------------
Proceeds(c) ==
  \/ Clears(c) \/ Renews(c) \/ Sends(c) \/ ClearsLate(c)
  \/ Waits(c) \/ Polls(c) \/ TimesOut(c) \/ Reads(c)

Next ==
  \/ \E c \in Calls : ReturnsCached(c) \/ Begins(c) \/ Proceeds(c)
  \/ \E m \in Messages : Handles(m)
  \/ Notifies
  \/ BuyClears

Spec == Init /\ [][Next]_vars

\* A call that has begun goes on, and a handler that has begun ends.  Nothing
\* is assumed of the server.
FairSpec ==
  /\ Spec
  /\ \A c \in Calls : WF_vars(Proceeds(c))
  /\ WF_vars(Notifies)

-----------------------------------------------------------------------------
(* Properties. *)

TypeOK ==
  /\ channel \in Channels
  /\ method \in [Calls -> {m \in Methods : m.channel = channel}]
  /\ pc \in [Calls -> {"idle", "clear", "send", "clear late", "wait", "blocked",
                       "stranded", "read", "done"}]
  /\ event \in BOOLEAN
  /\ slot \subseteq Messages
  /\ net \subseteq Messages
  /\ handling \subseteq Messages
  /\ returned \in [Calls -> SUBSET Messages]
  /\ answered \subseteq Messages
  /\ old \in [Calls -> SUBSET Messages]
  /\ disturbed \subseteq Calls

\* Methods that set the slot to None, or that clear the Event, read the slot
\* only after it, and have a channel on which the Event announces the slot.
Renewing(m) ==
  /\ ~m.cached
  /\ \/ m.reset
     \/ /\ m.clear \in {"before", "renew", "after"}
        /\ m.wait = "event" /\ m.late = "nothing"
        /\ m.channel.written /\ ~m.channel.shared

\* No call of such a method returns an answer whose handler was through before
\* the call began, whatever other calls of the channel do meanwhile: the query
\* methods do not present old data as new.
AnswerIsNew ==
  \A c \in Calls : Renewing(method[c]) => returned[c] \cap old[c] = {}

\* A call that clears the Event before it sends does not wait for an answer
\* that has come, unless another call has cleared or replaced the Event.
NothingLost ==
  \A c \in Calls \ disturbed :
    /\ method[c].clear \in {"before", "renew"}
    /\ pc[c] \in {"blocked", "stranded"}
    => c \notin answered

\* What buy_digital_spot() says of an order is the answer to that order, unless
\* the time is over: docs/integration.md has it return (success, order_id), and
\* success "if the order was accepted by the server".
DigitalIsAnswered ==
  \A c \in Calls :
    method[c] = buy_digital_spot_v2 /\ pc[c] = "read" => c \in slot

\* Every query that was begun returns.
EveryQueryEnds == \A c \in Calls : Running(c) ~> ~Running(c)
=============================================================================
