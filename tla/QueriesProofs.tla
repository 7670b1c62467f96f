----------------------------- MODULE QueriesProofs -----------------------------
(* Theorems about Queries, for any calls of any methods. *)
EXTENDS Queries, TLAPS

USE DEF Goes

-----------------------------------------------------------------------------
\* The channel begins with values of its types.
LEMMA TypeInit == Init => TypeOK
BY DEF Init, TypeOK, Messages

\* Every step of a call and of a handler keeps them.
LEMMA TypeStep == TypeOK /\ [Next]_vars => TypeOK'
<1> SUFFICES ASSUME TypeOK, [Next]_vars PROVE TypeOK'
  OBVIOUS
<1> USE DEF TypeOK, histories
<1>1. ASSUME NEW c \in Calls, ReturnsCached(c) PROVE TypeOK'
  BY <1>1 DEF ReturnsCached
<1>2. ASSUME NEW c \in Calls, Begins(c) PROVE TypeOK'
  BY <1>2 DEF Begins, Disturbing
<1>3. ASSUME NEW c \in Calls, Proceeds(c) PROVE TypeOK'
  <2>1. CASE Clears(c)
    BY <2>1 DEF Clears, Disturbing
  <2>2. CASE Renews(c)
    BY <2>2 DEF Renews, Disturbing
  <2>3. CASE Sends(c)
    BY <2>3 DEF Sends, Messages
  <2>4. CASE ClearsLate(c)
    BY <2>4 DEF ClearsLate, Disturbing
  <2>5. CASE Waits(c) \/ Polls(c) \/ TimesOut(c)
    BY <2>5 DEF Waits, Polls, TimesOut
  <2>6. CASE Reads(c)
    BY <2>6 DEF Reads
  <2> QED
    BY <1>3, <2>1, <2>2, <2>3, <2>4, <2>5, <2>6 DEF Proceeds
<1>4. ASSUME NEW m \in Messages, Handles(m) PROVE TypeOK'
  <2>1. Written(m) \subseteq SUBSET Messages
    BY DEF Written
  <2> QED
    BY <1>4, <2>1 DEF Handles
<1>5. CASE Notifies
  BY <1>5 DEF Notifies
<1>6. CASE BuyClears
  BY <1>6 DEF BuyClears
<1>7. CASE UNCHANGED vars
  BY <1>7 DEF vars
<1> QED
  BY <1>1, <1>2, <1>3, <1>4, <1>5, <1>6, <1>7 DEF Next

\* Type correctness of the channels, for any set of calls and messages.
THEOREM TypeCorrect == Spec => []TypeOK
BY TypeInit, TypeStep, PTL DEF Spec

-----------------------------------------------------------------------------
(* Answers are new. *)

\* A message is in one place, and the answer to a request comes after it.
Placed ==
  /\ net \cap handling = {} /\ net \cap answered = {} /\ handling \cap answered = {}
  /\ \A c \in Calls : pc[c] \in {"idle", "clear", "send"} =>
       c \notin net \cup handling \cup answered

\* What was there when a call began is not its own answer.
Earlier == \A c \in Calls : old[c] \subseteq answered /\ c \notin old[c]

\* On a channel where the Event announces the slot, a handler that is about to
\* set the Event has written the slot, though a call may have reset it since.
Announced == ~channel.keyed /\ ~channel.shared /\ channel.written /\ handling # {}
             => slot \subseteq handling

\* The call has cleared the Event.
PastClear(c) ==
  \/ pc[c] \in {"wait", "blocked", "stranded", "read"}
  \/ pc[c] = "send" /\ method[c].clear \in {"before", "renew"}

\* The slot that a call is about to trust holds nothing old.
Trusts(c) ==
  /\ Renewing(method[c])
  /\ ~channel.keyed
  /\ \/ method[c].reset /\ Running(c)
     \/ PastClear(c) /\ (event \/ pc[c] = "read")

\* Where a call trusts the slot nothing in it is from before the call; only a call that
\* is done has returned something.
New ==
  /\ \A c \in Calls : Trusts(c) => slot \cap old[c] = {}
  /\ \A c \in Calls : pc[c] # "done" => returned[c] = {}

\* AnswerIsNew with what makes it inductive.
AnswerInv == TypeOK /\ Placed /\ Earlier /\ Announced /\ New /\ AnswerIsNew

\* At the start nothing is answered.
LEMMA AnswerInit == Init => AnswerInv
<1> SUFFICES ASSUME Init PROVE AnswerInv
  OBVIOUS
<1>1. TypeOK
  BY TypeInit
<1>2. Placed /\ Earlier /\ Announced
  BY MessagesAssumption DEF Init, Placed, Earlier, Announced
<1>3. New /\ AnswerIsNew
  BY DEF Init, New, Trusts, Running, PastClear, AnswerIsNew
<1> QED
  BY <1>1, <1>2, <1>3 DEF AnswerInv

\* No step puts a message in two places, or makes an answer older than it is.
LEMMA PlacedStep == TypeOK /\ Placed /\ Earlier /\ [Next]_vars => Placed' /\ Earlier'
<1> SUFFICES ASSUME TypeOK, Placed, Earlier, [Next]_vars PROVE Placed' /\ Earlier'
  OBVIOUS
<1> USE DEF TypeOK, Placed, Earlier, histories
<1>1. ASSUME NEW c \in Calls, ReturnsCached(c) \/ Begins(c) PROVE Placed' /\ Earlier'
  <2>1. /\ pc[c] = "idle" /\ old' = [old EXCEPT ![c] = answered]
        /\ \E place \in {"done", "clear"} : pc' = [pc EXCEPT ![c] = place]
        /\ UNCHANGED <<net, handling, answered>>
    BY <1>1 DEF ReturnsCached, Begins
  <2>2. Placed'
    BY <2>1
  <2>3. Earlier'
    BY <2>1
  <2> QED
    BY <2>2, <2>3
<1>2. ASSUME NEW c \in Calls, Proceeds(c) PROVE Placed' /\ Earlier'
  <2>1. CASE Clears(c) \/ Renews(c)
    BY <2>1 DEF Clears, Renews
  <2>2. CASE Sends(c)
    <3>1. /\ pc[c] = "send" /\ net' \subseteq net \cup {c}
          /\ \E place \in {"clear late", "wait", "done"} : pc' = [pc EXCEPT ![c] = place]
          /\ UNCHANGED <<handling, answered, old>>
      BY <2>2 DEF Sends
    <3>2. \A d \in Calls : pc'[d] \in {"idle", "clear", "send"} =>
            d # c /\ pc[d] = pc'[d]
      BY <3>1
    <3>3. c \notin handling \cup answered
      BY <3>1
    <3>4. net' \cap handling' = {} /\ net' \cap answered' = {} /\ handling' \cap answered' = {}
      <4>1. \A x \in net' : x \notin handling /\ x \notin answered
        BY <3>1, <3>3
      <4> QED
        BY <3>1, <4>1
    <3>5. \A d \in Calls : pc'[d] \in {"idle", "clear", "send"} =>
            d \notin net' \cup handling' \cup answered'
      BY <3>1, <3>2
    <3>6. Earlier'
      BY <3>1
    <3> QED
      BY <3>4, <3>5, <3>6
  <2>3. CASE ClearsLate(c) \/ Waits(c) \/ Polls(c) \/ TimesOut(c) \/ Reads(c)
    BY <2>3 DEF ClearsLate, Waits, Polls, TimesOut, Reads
  <2> QED
    BY <1>2, <2>1, <2>2, <2>3 DEF Proceeds
<1>3. ASSUME NEW m \in Messages, Handles(m) PROVE Placed' /\ Earlier'
  BY <1>3 DEF Handles
<1>4. CASE Notifies
  BY <1>4 DEF Notifies
<1>5. CASE BuyClears \/ UNCHANGED vars
  BY <1>5 DEF BuyClears, vars
<1> QED
  BY <1>1, <1>2, <1>3, <1>4, <1>5 DEF Next

\* What is in the slot is still to be announced, or has been.
LEMMA AnnouncedStep == TypeOK /\ Announced /\ [Next]_vars => Announced'
<1> SUFFICES ASSUME TypeOK, Announced, [Next]_vars PROVE Announced'
  OBVIOUS
<1> USE DEF TypeOK, Announced, histories
<1>1. ASSUME NEW c \in Calls, ReturnsCached(c) \/ Begins(c) \/ Proceeds(c)
      PROVE Announced'
  BY <1>1 DEF ReturnsCached, Begins, Proceeds, Clears, Renews, Sends, ClearsLate, Waits,
    Polls, TimesOut, Reads
<1>2. ASSUME NEW m \in Messages, Handles(m) PROVE Announced'
  BY <1>2 DEF Handles, Written
<1>3. CASE Notifies \/ BuyClears \/ UNCHANGED vars
  BY <1>3 DEF Notifies, BuyClears, vars
<1> QED
  BY <1>1, <1>2, <1>3 DEF Next

\* No step puts something old where a call trusts, and none returns it.
LEMMA NewStep ==
  AnswerInv /\ [Next]_vars => New' /\ AnswerIsNew'
<1> SUFFICES ASSUME AnswerInv, [Next]_vars PROVE New' /\ AnswerIsNew'
  OBVIOUS
<1>0. TypeOK /\ Placed /\ Earlier /\ Announced /\ New /\ AnswerIsNew
  BY DEF AnswerInv
<1> USE <1>0 DEF TypeOK, New, Trusts, PastClear, Running, AnswerIsNew, histories
<1>1. ASSUME NEW c \in Calls, ReturnsCached(c) PROVE New' /\ AnswerIsNew'
  BY ZenonT(30), <1>1 DEF ReturnsCached, Renewing
<1>2. ASSUME NEW c \in Calls, Begins(c) PROVE New' /\ AnswerIsNew'
  BY <1>2 DEF Begins
<1>3. ASSUME NEW c \in Calls, Proceeds(c) PROVE New' /\ AnswerIsNew'
  <2>1. CASE Clears(c)
    <3>1. CASE method[c].clear = "before"
      <4>1. /\ pc' = [pc EXCEPT ![c] = "send"] /\ ~event' /\ pc[c] = "clear"
            /\ UNCHANGED <<channel, method, slot, returned, old>>
        BY <2>1, <3>1 DEF Clears
      <4>2. \A d \in Calls : Trusts(d)' => Trusts(d)
        BY <4>1
      <4>3. \A d \in Calls : pc'[d] # "done" => pc[d] # "done"
        BY <4>1
      <4> QED
        BY <4>1, <4>2, <4>3
    <3>2. CASE method[c].clear # "before"
      BY ZenonT(30), <2>1, <3>2 DEF Clears, Renewing
    <3> QED
      BY <3>1, <3>2
  <2>2. CASE Renews(c)
    BY <2>2 DEF Renews
  <2>3. CASE Sends(c)
    <3>1. CASE method[c].clear = "after"
      BY <2>3, <3>1 DEF Sends
    <3>2. CASE method[c].clear # "after"
      <4>1. /\ \/ pc' = [pc EXCEPT ![c] = "wait"]
               \/ pc' = [pc EXCEPT ![c] = "done"]
            /\ pc[c] = "send"
            /\ UNCHANGED <<channel, method, event, slot, returned, old>>
        BY <2>3, <3>2 DEF Sends
      <4>2. \A d \in Calls : Trusts(d)' => Trusts(d)
        BY ZenonT(30), <3>2, <4>1 DEF Renewing
      <4>3. \A d \in Calls : pc'[d] # "done" => pc[d] # "done"
        BY <4>1
      <4> QED
        BY <4>1, <4>2, <4>3
    <3> QED
      BY <3>1, <3>2
  <2>4. CASE ClearsLate(c)
    BY <2>4 DEF ClearsLate
  <2>5. CASE Waits(c)
    BY <2>5 DEF Waits
  <2>6. CASE Polls(c)
    BY <2>6 DEF Polls, Renewing
  <2>7. CASE TimesOut(c)
    BY ZenonT(30), <2>7 DEF TimesOut, Renewing
  <2>8. CASE Reads(c)
    BY <2>8 DEF Reads, Earlier
  <2> QED
    BY <1>3, <2>1, <2>2, <2>3, <2>4, <2>5, <2>6, <2>7, <2>8 DEF Proceeds
<1>4. ASSUME NEW m \in Messages, Handles(m) PROVE New' /\ AnswerIsNew'
  <2>1. \A c \in Calls : m \notin old[c]
    BY <1>4 DEF Handles, Placed, Earlier
  <2> QED
    BY <1>4, <2>1 DEF Handles, Written
<1>5. CASE Notifies
  <2>1. ASSUME NEW c \in Calls, Trusts(c)' PROVE slot \cap old[c] = {}
    <3>1. CASE method[c].reset
      BY <1>5, <2>1, <3>1 DEF Notifies
    <3>2. CASE ~method[c].reset
      <4>1. ~channel.keyed /\ ~channel.shared /\ channel.written
        BY <1>5, <2>1, <3>2 DEF Notifies, Renewing
      <4> QED
        BY <1>5, <4>1 DEF Notifies, Announced, Placed, Earlier
    <3> QED
      BY <3>1, <3>2
  <2> QED
    BY <1>5, <2>1 DEF Notifies
<1>6. CASE BuyClears
  BY <1>6 DEF BuyClears
<1>7. CASE UNCHANGED vars
  BY <1>7 DEF vars
<1> QED
  BY <1>1, <1>2, <1>3, <1>4, <1>5, <1>6, <1>7 DEF Next

\* A query that resets its slot, or clears its Event and waits for it, never
\* returns an answer that was handled before it began, however many calls share
\* the channel and whatever other messages arrive on it.
THEOREM AnswersAreNew == Spec => []AnswerIsNew
<1>1. AnswerInv /\ [Next]_vars => AnswerInv'
  BY TypeStep, PlacedStep, AnnouncedStep, NewStep DEF AnswerInv
<1>2. AnswerInv => AnswerIsNew
  BY DEF AnswerInv
<1> QED
  BY AnswerInit, <1>1, <1>2, PTL DEF Spec

-----------------------------------------------------------------------------
(* Answers are not lost. *)

\* The Event is down while a call is blocked, a stranded call was disturbed, only
\* a method that clears late does so, and for a call that nobody has disturbed the
\* Event is up as soon as its answer is there.
Kept ==
  /\ \A c \in Calls : pc[c] = "blocked" => ~event
  /\ \A c \in Calls : pc[c] = "stranded" => c \in disturbed
  /\ \A c \in Calls : pc[c] = "clear late" => method[c].clear = "after"
  /\ \A c \in Calls \ disturbed :
       method[c].clear \in {"before", "renew"} /\ c \in answered
       => event \/ pc[c] \in {"read", "done"}

\* Kept, with what is known of the answers.
KeptInv == TypeOK /\ Placed /\ Earlier /\ Kept

\* No step takes the set Event from a call whose answer is through.
LEMMA KeptStep == KeptInv /\ [Next]_vars => Kept'
<1> SUFFICES ASSUME KeptInv, [Next]_vars PROVE Kept'
  OBVIOUS
<1> USE DEF KeptInv, TypeOK, Kept, Running, histories
<1>1. ASSUME NEW c \in Calls, ReturnsCached(c) PROVE Kept'
  BY <1>1 DEF ReturnsCached
<1>2. ASSUME NEW c \in Calls, Begins(c) PROVE Kept'
  BY <1>2 DEF Begins, Disturbing
<1>3. ASSUME NEW c \in Calls, Proceeds(c) PROVE Kept'
  <2>1. CASE Clears(c)
    BY <2>1 DEF Clears, Disturbing, Placed
  <2>2. CASE Renews(c)
    BY <2>2 DEF Renews, Disturbing, Placed
  <2>3. CASE Sends(c)
    BY <2>3 DEF Sends
  <2>4. CASE ClearsLate(c)
    BY <2>4 DEF ClearsLate, Disturbing, Placed
  <2>5. CASE Waits(c)
    BY <2>5 DEF Waits
  <2>6. CASE Polls(c) \/ Reads(c)
    <3>1. /\ pc' = [pc EXCEPT ![c] = "read"] \/ pc' = [pc EXCEPT ![c] = "done"]
          /\ pc[c] \in {"wait", "read"}
          /\ UNCHANGED <<method, event, answered, disturbed>>
      BY <2>6 DEF Polls, Reads
    <3> QED
      BY <3>1
  <2>7. CASE TimesOut(c)
    BY <2>7 DEF TimesOut
  <2> QED
    BY <1>3, <2>1, <2>2, <2>3, <2>4, <2>5, <2>6, <2>7 DEF Proceeds
<1>4. ASSUME NEW m \in Messages, Handles(m) PROVE Kept'
  BY <1>4 DEF Handles
<1>5. CASE Notifies
  BY <1>5 DEF Notifies
<1>6. CASE BuyClears
  BY <1>6 DEF BuyClears, Placed
<1>7. CASE UNCHANGED vars
  BY <1>7 DEF vars
<1> QED
  BY <1>1, <1>2, <1>3, <1>4, <1>5, <1>6, <1>7 DEF Next

\* A call that clears its Event before it sends, and that no other call disturbs,
\* is never left waiting for an answer that has come.
THEOREM NoAnswerIsLost == Spec => []NothingLost
<1>1. Init => KeptInv
  BY AnswerInit DEF KeptInv, AnswerInv, Kept, Init
<1>2. KeptInv /\ [Next]_vars => KeptInv'
  BY TypeStep, PlacedStep, KeptStep DEF KeptInv
<1>3. KeptInv => NothingLost
  BY DEF KeptInv, Kept, NothingLost
<1> QED
  BY <1>1, <1>2, <1>3, PTL DEF Spec
=============================================================================
