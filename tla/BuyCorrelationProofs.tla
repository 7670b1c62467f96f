------------------------ MODULE BuyCorrelationProofs ------------------------
(***************************************************************************)
(* Type correctness of BuyCorrelation and OneOwner, for every set of calls *)
(* and of request ids.  OneOwner is not inductive by itself: the handler   *)
(* gives order o away, so an undelivered "option-opened" of o must mean    *)
(* that nobody holds o yet (Undelivered); and a call may only draw its     *)
(* request id, or send, while it holds nothing (Fresh, Drawn).             *)
(***************************************************************************)
EXTENDS BuyCorrelation, TLAPS, WellFoundedInduction, SequenceTheorems

\* The message that gives order o its id.
Opened(o) == [kind |-> "option-opened", call |-> o]

\* An option-opened in flight belongs to an accepted order that nobody holds yet.
Undelivered ==
  \A o \in Calls : Opened(o) \in net => served[o] = "accepted" /\ Holders(o) = {}

\* A call holds no order before it is registered, and the server none of its before it
\* is sent.
Fresh ==
  \A c \in Calls :
    /\ pc[c] \in {"idle", "cleared"} => got[c] = NoOrder
    /\ pc[c] \in {"idle", "cleared", "listed"} => served[c] = "none"

\* A call in the queue has drawn its request id.
Drawn == \A c \in Calls : pc[c] \in {"listed", "waiting"} => req[c] \in ReqIds

\* OneOwner with what makes it inductive.
IInv == TypeOK /\ OneOwner /\ Undelivered /\ Fresh /\ Drawn

-----------------------------------------------------------------------------
(* Sequences: api.remove_pending_buy_id drops the first copy of an id. *)

\* The numbers in their order, as a relation.
Less == {p \in Nat \X Nat : p[1] < p[2]}

\* A set of numbers that is not empty has a least one.
LEMMA LeastNumber ==
  ASSUME NEW T, T \subseteq Nat, T # {}
  PROVE  \E x \in T : \A y \in T : x <= y
<1>1. IsWellFoundedOn(Less, Nat)
  BY NatLessThanWellFounded DEF OpToRel, Less
<1>2. PICK x \in T : \A y \in T : <<y, x>> \notin Less
  BY <1>1, WFMin
<1>3. ASSUME NEW y \in T, y < x PROVE FALSE
  <2>1. <<y, x>> \in Nat \X Nat /\ <<y, x>>[1] < <<y, x>>[2]
    BY <1>3
  <2>2. QED
    BY <1>2, <2>1 DEF Less
<1>4. QED
  BY <1>3

\* Taking the first copy of an element out leaves a sequence of the same set.
LEMMA RemoveFirstType ==
  ASSUME NEW S, NEW q \in Seq(S), NEW e
  PROVE  RemoveFirst(q, e) \in Seq(S)
<1> DEFINE I == {i \in 1 .. Len(q) : q[i] = e}
           least == CHOOSE i \in I : \A j \in I : i <= j
<1>1. Len(q) \in Nat /\ \A i \in 1 .. Len(q) : q[i] \in S
  BY LenProperties, ElementOfSeq
<1>2. CASE I = {}
  BY <1>2 DEF RemoveFirst
<1>3. CASE I # {}
  <2>1. I \subseteq Nat
    BY <1>1
  <2>2. \E i \in I : \A j \in I : i <= j
    BY <1>3, <2>1, LeastNumber
  <2>3. least \in 1 .. Len(q)
    BY <2>2
  <2>4. RemoveFirst(q, e) = SubSeq(q, 1, least - 1) \o SubSeq(q, least + 1, Len(q))
    BY <1>3 DEF RemoveFirst, RemoveAt, SelectInSeq, Min
  <2> HIDE DEF least
  <2>5. /\ SubSeq(q, 1, least - 1) \in Seq(S)
        /\ SubSeq(q, least + 1, Len(q)) \in Seq(S)
    BY <1>1, <2>3, SubSeqProperties
  <2>6. QED
    BY <2>4, <2>5, ConcatProperties
<1>4. QED
  BY <1>2, <1>3

-----------------------------------------------------------------------------
(* Type correctness. *)

\* Before the first call every variable has its type.
LEMMA InitTypeOK == Init => TypeOK
BY EmptySeq DEF Init, TypeOK, Flag, Entry, Absent, Message

\* result() keeps the types of the three variables it writes.
LEMMA ApplyResultType ==
  ASSUME TypeOK, NEW ok \in {"yes", "no"}, NEW r, ApplyResult(ok, r)
  PROVE  /\ result' \in Flag
         /\ entries' \in [ReqIds -> Entry \cup {Absent}]
         /\ pending' \in Seq(ReqIds)
<1>1. result' \in Flag
  BY DEF ApplyResult, Flag
<1>2. entries' \in [ReqIds -> Entry \cup {Absent}]
  <2>1. CASE Present(r) /\ r \in ReqIds
    <3>1. entries[r] \in Entry
      BY <2>1 DEF Present, TypeOK
    <3>2. [entries[r] EXCEPT !.ok = ok] \in Entry
      BY <3>1 DEF Entry, Flag
    <3>3. entries' = [entries EXCEPT ![r] = [entries[r] EXCEPT !.ok = ok]]
      BY <2>1 DEF ApplyResult
    <3>4. QED
      BY <3>2, <3>3 DEF TypeOK
  <2>2. CASE ~Present(r)
    BY <2>2 DEF ApplyResult, TypeOK
  <2>3. CASE r \notin ReqIds
    BY <2>3 DEF ApplyResult, TypeOK
  <2>4. QED
    BY <2>1, <2>2, <2>3
<1>3. pending' \in Seq(ReqIds)
  BY RemoveFirstType DEF ApplyResult, TypeOK
<1>4. QED
  BY <1>1, <1>2, <1>3

\* Every step of a caller, the server or a handler keeps the types.
LEMMA NextTypeOK == IInv /\ [Next]_vars => TypeOK'
<1> SUFFICES ASSUME IInv, [Next]_vars PROVE TypeOK'
  OBVIOUS
<1> USE DEF TypeOK, callVars, serverVars
<1>0. TypeOK /\ Drawn
  BY DEF IInv
<1>1. ASSUME NEW c \in Calls, BuyRefused(c) PROVE TypeOK'
  BY <1>0, <1>1 DEF BuyRefused, Flag
<1>2. ASSUME NEW c \in Calls, BuyReset(c) PROVE TypeOK'
  BY <1>0, <1>2 DEF BuyReset
<1>3. ASSUME NEW c \in Calls, NEW r \in ReqIds, BuyRegister(c, r) PROVE TypeOK'
  BY <1>0, <1>3, AppendProperties DEF BuyRegister, Entry, Blank, Flag
<1>4. ASSUME NEW c \in Calls, BuySend(c) PROVE TypeOK'
  BY <1>0, <1>4, AppendProperties DEF BuySend, Drawn
<1>5. ASSUME NEW c \in Calls, NEW id \in Calls \cup {NoOrder}, Leave(c, id)
      PROVE  TypeOK'
  BY <1>0, <1>5 DEF Leave
<1>6. ASSUME NEW c \in Calls, BuyTakesId(c) PROVE TypeOK'
  <2>1. entries[req[c]].id \in Calls \cup {NoOrder}
    BY <1>0, <1>6 DEF BuyTakesId, Drawn, Entry, Absent
  <2>2. QED
    BY <1>5, <1>6, <2>1 DEF BuyTakesId
<1>7. ASSUME NEW c \in Calls, BuySeesFailure(c) \/ BuyTimesOut(c) PROVE TypeOK'
  BY <1>5, <1>7 DEF BuySeesFailure, BuyTimesOut
<1>8. ASSUME NEW c \in Calls, BuyReturns(c) PROVE TypeOK'
  BY <1>0, <1>8 DEF BuyReturns, Flag
<1>9. ASSUME NEW c \in Calls, Server(c) PROVE TypeOK'
  BY <1>0, <1>9 DEF Server, ServerAccepts, ServerRejects, Message, Kind
<1>10. ASSUME NEW c \in Calls, HandleResult(c) PROVE TypeOK'
  <2>1. \E ok \in {"yes", "no"} : ApplyResult(ok, req[c])
    BY <1>10 DEF HandleResult
  <2>2. /\ result' \in Flag
        /\ entries' \in [ReqIds -> Entry \cup {Absent}]
        /\ pending' \in Seq(ReqIds)
    BY <1>0, <2>1, ApplyResultType
  <2>3. QED
    BY <1>0, <1>10, <2>2 DEF HandleResult, Take
<1>11. ASSUME NEW ok \in {"yes", "no"}, HandleOtherResult(ok) PROVE TypeOK'
  <2>1. CASE \E r \in OtherIds : ApplyResult(ok, r)
    <3>1. /\ result' \in Flag
          /\ entries' \in [ReqIds -> Entry \cup {Absent}]
          /\ pending' \in Seq(ReqIds)
      BY <1>0, <2>1, ApplyResultType
    <3>2. QED
      BY <1>0, <1>11, <3>1 DEF HandleOtherResult
  <2>2. CASE result' = ok /\ UNCHANGED <<entries, pending>>
    BY <1>0, <1>11, <2>2 DEF HandleOtherResult, Flag
  <2>3. QED
    BY <1>11, <2>1, <2>2 DEF HandleOtherResult
<1>12. ASSUME NEW c \in Calls, HandleOptionError(c) PROVE TypeOK'
  BY <1>0, <1>12 DEF HandleOptionError, Take, Entry, Blank, Flag
<1>13. ASSUME NEW o \in Calls, HandleOptionOpened(o) PROVE TypeOK'
  <2>1. CASE pending = <<>>
    BY <1>0, <1>13, <2>1 DEF HandleOptionOpened, Take
  <2>2. CASE pending # <<>>
    <3>1. Head(pending) \in ReqIds /\ Tail(pending) \in Seq(ReqIds)
      BY <1>0, <2>2, HeadTailProperties
    <3>2. entries' \in [ReqIds -> Entry \cup {Absent}]
      BY SMTT(30), <1>0, <1>13, <2>2, <3>1
      DEF HandleOptionOpened, Present, Entry, Absent, Flag
    <3>3. QED
      BY <1>0, <1>13, <2>2, <3>1, <3>2 DEF HandleOptionOpened, Take
  <2>3. QED
    BY <2>1, <2>2
<1>14. CASE UNCHANGED vars
  BY <1>0, <1>14 DEF vars
<1>15. QED
  BY <1>1, <1>2, <1>3, <1>4, <1>6, <1>7, <1>8, <1>9, <1>10, <1>11, <1>12, <1>13,
     <1>14 DEF Next, Caller, Handler

-----------------------------------------------------------------------------
(* Nobody holds an order twice. *)

\* Before the first call no order has an owner and no request is drawn.
LEMMA InitIInv == Init => IInv
<1> SUFFICES ASSUME Init PROVE IInv
  OBVIOUS
<1>1. \A o \in Calls : Holders(o) = {}
  BY CallsAssumption DEF Init, Holders, Absent
<1>2. QED
  BY <1>1, InitTypeOK DEF Init, IInv, OneOwner, Undelivered, Fresh, Drawn

\* Most steps hand out no order: every set of holders stays or shrinks, no order
\* loses its acceptance and no "option-opened" comes up.
LEMMA NothingHandedOut ==
  ASSUME OneOwner, Undelivered,
         \A o \in Calls : Holders(o)' \subseteq Holders(o),
         \A o \in Calls : served[o] = "accepted" => served'[o] = "accepted",
         \A o \in Calls : Opened(o) \in net' => Opened(o) \in net
  PROVE  OneOwner' /\ Undelivered'
<1>1. OneOwner'
  <2>1. ASSUME NEW o \in Calls
        PROVE  /\ \A r1, r2 \in Holders(o)' : r1 = r2
               /\ Holders(o)' # {} => served'[o] = "accepted"
    BY DEF OneOwner
  <2>2. QED
    BY <2>1 DEF OneOwner
<1>2. Undelivered'
  <2>1. ASSUME NEW o \in Calls, Opened(o) \in net'
        PROVE  served'[o] = "accepted" /\ Holders(o)' = {}
    BY <2>1 DEF Undelivered
  <2>2. QED
    BY <2>1 DEF Undelivered, Opened
<1>3. QED
  BY <1>1, <1>2

\* Steps that change neither req nor got may only lose holders in the dict.
LEMMA FewerEntries ==
  ASSUME UNCHANGED <<req, got>>,
         NEW o \in Calls,
         \A r \in ReqIds : entries'[r].id = o => entries[r].id = o
  PROVE  Holders(o)' \subseteq Holders(o)
BY DEF Holders

\* Only "option-opened" gives an order away, and it uses its message up.
LEMMA NextOneOwner == IInv /\ [Next]_vars => OneOwner' /\ Undelivered'
<1> SUFFICES ASSUME IInv, [Next]_vars PROVE OneOwner' /\ Undelivered'
  OBVIOUS
<1> USE CallsAssumption DEF callVars, serverVars
<1>0. TypeOK /\ OneOwner /\ Undelivered /\ Fresh /\ Drawn
  BY DEF IInv
<1>1. ASSUME NEW c \in Calls,
             BuyRefused(c) \/ BuySeesFailure(c) \/ BuyTimesOut(c) \/ BuyReturns(c)
      PROVE  OneOwner' /\ Undelivered'
  <2>1. /\ UNCHANGED <<req, entries, served, net>>
        /\ \A d \in Calls : got'[d] \in {got[d], NoOrder}
    BY <1>0, <1>1
    DEF BuyRefused, BuySeesFailure, BuyTimesOut, BuyReturns, Leave, TypeOK
  <2>2. \A o \in Calls : Holders(o)' \subseteq Holders(o)
    BY <2>1 DEF Holders
  <2>3. QED
    BY <1>0, <2>1, <2>2, NothingHandedOut
<1>2. ASSUME NEW c \in Calls, BuyReset(c) PROVE OneOwner' /\ Undelivered'
  <2>1. UNCHANGED <<req, got, served, net>> /\ \A r \in ReqIds : entries'[r] = Absent
    BY <1>2 DEF BuyReset
  <2>2. \A o \in Calls : Holders(o)' \subseteq Holders(o)
    BY <2>1, FewerEntries DEF Absent
  <2>3. QED
    BY <1>0, <2>1, <2>2, NothingHandedOut
<1>3. ASSUME NEW c \in Calls, NEW r \in ReqIds, BuyRegister(c, r)
      PROVE  OneOwner' /\ Undelivered'
  <2>1. /\ UNCHANGED <<got, served, net>>
        /\ got[c] = NoOrder
        /\ \A d \in Calls \ {c} : req'[d] = req[d]
    BY <1>0, <1>3 DEF BuyRegister, Fresh, TypeOK
  <2>2. \A q \in ReqIds : entries'[q] = entries[q] \/ entries'[q] = Blank
    BY <1>0, <1>3 DEF BuyRegister, TypeOK
  <2>3. \A o \in Calls : Holders(o)' \subseteq Holders(o)
    BY <2>1, <2>2 DEF Holders, Blank
  <2>4. QED
    BY <1>0, <2>1, <2>3, NothingHandedOut
<1>4. ASSUME NEW c \in Calls, BuySend(c) PROVE OneOwner' /\ Undelivered'
  <2>1. UNCHANGED <<req, got, entries, net>> /\ served[c] = "none"
    BY <1>0, <1>4 DEF BuySend, Fresh
  <2>2. \A o \in Calls : served[o] = "accepted" => served'[o] = "accepted"
    BY <1>0, <1>4, <2>1 DEF BuySend, TypeOK
  <2>3. QED
    BY <1>0, <2>1, <2>2, NothingHandedOut DEF Holders
<1>5. ASSUME NEW c \in Calls, BuyTakesId(c) PROVE OneOwner' /\ Undelivered'
  <2>1. /\ UNCHANGED <<req, entries, served, net>>
        /\ got' = [got EXCEPT ![c] = entries[req[c]].id]
        /\ req[c] \in ReqIds
    BY <1>0, <1>5 DEF BuyTakesId, Leave, Drawn
  <2>2. \A o \in Calls : Holders(o)' \subseteq Holders(o)
    <3>1. ASSUME NEW o \in Calls, NEW d \in Calls, got'[d] = o
          PROVE  req[d] \in Holders(o)
      <4>1. CASE d = c
        BY <1>0, <2>1, <3>1, <4>1 DEF Holders, TypeOK
      <4>2. CASE d # c
        BY <1>0, <2>1, <3>1, <4>2 DEF Holders, TypeOK
      <4>3. QED
        BY <4>1, <4>2
    <3>2. QED
      BY <2>1, <3>1 DEF Holders
  <2>3. QED
    BY <1>0, <2>1, <2>2, NothingHandedOut
<1>6. ASSUME NEW c \in Calls, ServerAccepts(c) PROVE OneOwner' /\ Undelivered'
  <2>1. /\ UNCHANGED <<req, got, entries>>
        /\ served' = [served EXCEPT ![c] = "accepted"]
        /\ served[c] = "sent"
        /\ \A o \in Calls : Opened(o) \in net' => o = c \/ Opened(o) \in net
    BY <1>0, <1>6 DEF ServerAccepts, Opened
  <2>2. \A o \in Calls : Holders(o)' = Holders(o)
    BY <2>1 DEF Holders
  <2>3. Holders(c) = {}
    BY <1>0, <2>1 DEF OneOwner
  <2>4. OneOwner'
    BY <1>0, <2>1, <2>2 DEF OneOwner, TypeOK
  <2>5. Undelivered'
    BY <1>0, <2>1, <2>2, <2>3 DEF Undelivered, Opened, TypeOK
  <2>6. QED
    BY <2>4, <2>5
<1>7. ASSUME NEW c \in Calls, ServerRejects(c) PROVE OneOwner' /\ Undelivered'
  <2>1. /\ UNCHANGED <<req, got, entries>>
        /\ \A o \in Calls : served[o] = "accepted" => served'[o] = "accepted"
        /\ \A o \in Calls : Opened(o) \in net' => Opened(o) \in net
    BY <1>0, <1>7 DEF ServerRejects, TypeOK, Opened
  <2>2. QED
    BY <1>0, <2>1, NothingHandedOut DEF Holders
<1>8. ASSUME NEW c \in Calls, HandleResult(c) \/ HandleOptionError(c)
      PROVE  OneOwner' /\ Undelivered'
  <2>1. UNCHANGED <<req, got, served>> /\ net' \subseteq net
    BY <1>8 DEF HandleResult, HandleOptionError, Take
  <2>2. \A r \in ReqIds : entries'[r].id \in {entries[r].id, NoOrder}
    BY <1>0, <1>8
    DEF HandleResult, HandleOptionError, ApplyResult, TypeOK, Entry, Absent, Blank
  <2>3. \A o \in Calls : Holders(o)' \subseteq Holders(o)
    BY <2>1, <2>2, FewerEntries
  <2>4. QED
    BY <1>0, <2>1, <2>3, NothingHandedOut
<1>9. ASSUME NEW ok \in {"yes", "no"}, HandleOtherResult(ok)
      PROVE  OneOwner' /\ Undelivered'
  <2>1. UNCHANGED <<req, got, served, net>>
    BY <1>9 DEF HandleOtherResult
  <2>2. \A r \in ReqIds : entries'[r].id = entries[r].id
    BY <1>0, <1>9 DEF HandleOtherResult, ApplyResult, TypeOK, Entry, Absent
  <2>3. \A o \in Calls : Holders(o)' \subseteq Holders(o)
    BY <2>1, <2>2, FewerEntries
  <2>4. QED
    BY <1>0, <2>1, <2>3, NothingHandedOut
<1>10. ASSUME NEW o \in Calls, HandleOptionOpened(o) PROVE OneOwner' /\ Undelivered'
  <2>1. /\ UNCHANGED <<req, got, served>>
        /\ Opened(o) \in net
        /\ net' = net \ {Opened(o)}
    BY <1>10 DEF HandleOptionOpened, Take, Opened
  <2>2. served[o] = "accepted" /\ Holders(o) = {}
    BY <1>0, <2>1 DEF Undelivered
  <2>3. \A r \in ReqIds :
          (entries'[r].id = o /\ r = Head(pending)) \/ entries'[r] = entries[r]
    BY <1>0, <1>10 DEF HandleOptionOpened, TypeOK
  <2>4. ASSUME NEW p \in Calls \ {o} PROVE Holders(p)' \subseteq Holders(p)
    BY <2>1, <2>3, <2>4 DEF Holders
  <2>5. Holders(o)' \subseteq {Head(pending)}
    BY <2>1, <2>2, <2>3 DEF Holders
  <2>6. OneOwner'
    BY <1>0, <2>1, <2>2, <2>4, <2>5 DEF OneOwner
  <2>7. Undelivered'
    <3>1. ASSUME NEW p \in Calls, Opened(p) \in net'
          PROVE  served'[p] = "accepted" /\ Holders(p)' = {}
      <4>1. p # o /\ Opened(p) \in net
        BY <2>1, <3>1
      <4>2. QED
        BY <1>0, <2>1, <2>4, <4>1 DEF Undelivered
    <3>2. QED
      BY <3>1 DEF Undelivered, Opened
  <2>8. QED
    BY <2>6, <2>7
<1>11. CASE UNCHANGED vars
  BY <1>0, <1>11 DEF vars, OneOwner, Undelivered, Holders
<1>12. QED
  BY <1>1, <1>2, <1>3, <1>4, <1>5, <1>6, <1>7, <1>8, <1>9, <1>10, <1>11
  DEF Next, Caller, Server, Handler

\* A call that has not begun has drawn and sent nothing, and stays that way
\* until it begins.
LEMMA NextFresh == IInv /\ [Next]_vars => Fresh' /\ Drawn'
<1> SUFFICES ASSUME IInv, [Next]_vars PROVE Fresh' /\ Drawn'
  OBVIOUS
<1> USE DEF callVars, serverVars, Fresh, Drawn, TypeOK
<1>0. TypeOK /\ Fresh /\ Drawn
  BY DEF IInv
<1>1. ASSUME NEW c \in Calls, Caller(c) PROVE Fresh' /\ Drawn'
  BY <1>0, <1>1
  DEF Caller, Begins, BuyRefused, BuyReset, BuyRegister, BuySend, BuyTakesId,
      BuySeesFailure, BuyTimesOut, BuyReturns, Leave
<1>2. ASSUME NEW c \in Calls, Server(c) PROVE Fresh' /\ Drawn'
  BY <1>0, <1>2 DEF Server, ServerAccepts, ServerRejects
<1>3. CASE Handler
  BY <1>0, <1>3
  DEF Handler, HandleResult, HandleOtherResult, HandleOptionError, HandleOptionOpened
<1>4. CASE UNCHANGED vars
  BY <1>0, <1>4 DEF vars
<1>5. QED
  BY <1>1, <1>2, <1>3, <1>4 DEF Next

\* The invariant is inductive.
LEMMA NextIInv == IInv /\ [Next]_vars => IInv'
BY NextTypeOK, NextOneOwner, NextFresh DEF IInv

\* Every variable of the order correlation keeps its type.
THEOREM TypeCorrect == Spec => []TypeOK
<1>1. IInv => TypeOK
  BY DEF IInv
<1>2. QED
  BY <1>1, InitIInv, NextIInv, PTL DEF Spec

\* No order id is handed to two requests, and none before the server accepted
\* the order, for every number of calls and request ids and every interleaving
\* of buy() with the handlers of its answers.
THEOREM OrdersHaveOneOwner == Spec => []OneOwner
<1>1. IInv => OneOwner
  BY DEF IInv
<1>2. QED
  BY <1>1, InitIInv, NextIInv, PTL DEF Spec
=============================================================================
