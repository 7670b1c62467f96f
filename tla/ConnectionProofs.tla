--------------------------- MODULE ConnectionProofs ---------------------------
(***************************************************************************)
(* Connection for any number of reconnect threads, attempts and failures:  *)
(* its types, and StormBounded.  The tries since the last success or rest  *)
(* are paid for: each has failed and is counted by the breaker, or is      *)
(* under way in a thread.  Whoever has begun to connect finds an object in *)
(* self.api, which the types of the callbacks depend on.                   *)
(***************************************************************************)
EXTENDS Connection, FiniteSetTheorems, TLAPS

\* The stages of connect().
Trying == {"replacing", "opening", "syncing", "finishing"}

\* The reconnections under way.
UnderWay == {r \in Reconnectors : pc[r] \in Trying}

\* Who has made the api object, and goes on with it, has one.
HasObject == \A c \in Callers : pc[c] \in {"opening", "syncing", "finishing"} => api # NoApi

\* Each attempt since the last success or rest has failed and is counted, or is under
\* way.
Paid ==
  /\ breaker = "CLOSED" => failures < MaxFailures /\ tries <= failures + Cardinality(UnderWay)
  /\ breaker = "HALF"   => failures = MaxFailures /\ tries <= Cardinality(UnderWay)
  /\ breaker = "OPEN"   => failures = MaxFailures /\ tries <= StormBound

\* Types, and the payment.
IInv == TypeOK /\ HasObject /\ Paid

-----------------------------------------------------------------------------
\* Reconnections under way are as many as threads at most, and a thread that comes
\* or goes is one more or one less.
LEMMA UnderWayCounted ==
  /\ Cardinality(Reconnectors) \in Nat /\ Cardinality(UnderWay) \in Nat
  /\ Cardinality(UnderWay) <= Cardinality(Reconnectors)
  /\ \A r \in UnderWay : Cardinality(UnderWay \ {r}) = Cardinality(UnderWay) - 1
  /\ \A r \in Reconnectors \ UnderWay :
       /\ Cardinality(UnderWay \cup {r}) = Cardinality(UnderWay) + 1
       /\ Cardinality(UnderWay) < Cardinality(Reconnectors)
<1>1. IsFiniteSet(Reconnectors) /\ UnderWay \subseteq Reconnectors
  BY ConnectionAssumption DEF UnderWay
<1>2. /\ IsFiniteSet(UnderWay) /\ Cardinality(UnderWay) <= Cardinality(Reconnectors)
      /\ Cardinality(UnderWay) = Cardinality(Reconnectors) => UnderWay = Reconnectors
  BY <1>1, FS_Subset
<1>3. Cardinality(Reconnectors) \in Nat /\ Cardinality(UnderWay) \in Nat
  BY <1>1, <1>2, FS_CardinalityType
<1>4. \A r \in UnderWay : Cardinality(UnderWay \ {r}) = Cardinality(UnderWay) - 1
  BY <1>2, FS_RemoveElement
<1>5. ASSUME NEW r \in Reconnectors \ UnderWay
      PROVE  /\ Cardinality(UnderWay \cup {r}) = Cardinality(UnderWay) + 1
             /\ Cardinality(UnderWay) < Cardinality(Reconnectors)
  <2>1. Cardinality(UnderWay \cup {r}) = Cardinality(UnderWay) + 1
    BY <1>2, FS_AddElement
  <2>2. Cardinality(UnderWay) # Cardinality(Reconnectors)
    BY <1>2
  <2> QED
    BY <1>2, <1>3, <2>1, <2>2
<1> QED
  BY <1>2, <1>3, <1>4, <1>5

\* The bound leaves room for the threads, and for the failures before the last.
LEMMA BoundIsRoomy ==
  /\ StormBound \in Nat
  /\ Cardinality(Reconnectors) <= StormBound
  /\ \A n \in Nat : n < MaxFailures => n + Cardinality(Reconnectors) <= StormBound
BY UnderWayCounted, ConnectionAssumption DEF StormBound

\* The tries that are paid for are within the bound.
LEMMA PaidIsBounded == TypeOK /\ Paid => StormBounded
<1> SUFFICES ASSUME TypeOK, Paid PROVE tries <= StormBound
  BY DEF StormBounded
<1>1. tries \in Nat /\ failures \in Nat /\ StormBound \in Nat
  BY BoundIsRoomy, ConnectionAssumption DEF TypeOK
<1>2. CASE breaker = "CLOSED"
  BY <1>1, <1>2, UnderWayCounted, BoundIsRoomy DEF Paid
<1>3. CASE breaker = "HALF"
  BY <1>1, <1>3, UnderWayCounted, BoundIsRoomy DEF Paid
<1>4. CASE breaker = "OPEN"
  BY <1>4 DEF Paid
<1> QED
  BY <1>2, <1>3, <1>4 DEF TypeOK

-----------------------------------------------------------------------------
(* Types. *)

\* Before the first connect() there is no object.
LEMMA InitIInv == Init => IInv
<1> SUFFICES ASSUME Init PROVE IInv
  OBVIOUS
<1>1. TypeOK
  <2>1. 0 \in 0 .. MaxAttempts + 1 /\ 0 \in 0 .. MaxFailures /\ 0 \in 0 .. MaxDisturbed
        /\ 0 \in 0 .. StormBound + 1
    BY ConnectionAssumption, BoundIsRoomy
  <2> QED
    BY <2>1 DEF Init, TypeOK
<1>2. HasObject
  BY DEF Init, HasObject
<1>3. Paid
  BY UnderWayCounted, ConnectionAssumption DEF Init, Paid
<1> QED
  BY <1>1, <1>2, <1>3 DEF IInv

\* Every step keeps the types, and self.api is never taken away.
LEMMA NextTypes == TypeOK /\ HasObject /\ Paid /\ [Next]_vars => TypeOK' /\ HasObject'
<1> SUFFICES ASSUME TypeOK, HasObject, Paid, [Next]_vars PROVE TypeOK' /\ HasObject'
  OBVIOUS
<1> USE ConnectionAssumption, BoundIsRoomy
<1>0. /\ NoApi \notin Apis /\ Owner \in Callers /\ Worker \in Callers
      /\ Reconnectors \subseteq Callers /\ tries <= StormBound
  BY PaidIsBounded DEF NoApi, Apis, Callers, StormBounded
<1>1. CASE OwnerConnects
  <2>1. {established, watching, closed}' \subseteq BOOLEAN
    BY <1>1 DEF OwnerConnects, TypeOK
  <2>2. pc' = [pc EXCEPT ![Owner] = "replacing"] /\ disturbed' \in 0 .. MaxDisturbed
    BY <1>1 DEF OwnerConnects, Disturbs, Goes, TypeOK
  <2> QED
    BY <1>0, <1>1, <2>1, <2>2 DEF OwnerConnects, linkVars, policyVars, TypeOK, HasObject
<1>2. CASE OwnerCloses
  <2>1. {established, watching, closed}' \subseteq BOOLEAN
    BY <1>2 DEF OwnerCloses, TypeOK
  <2>2. disturbed' \in 0 .. MaxDisturbed
    BY <1>2 DEF OwnerCloses, Disturbs, TypeOK
  <2>3. link' = link \/ link' = [link EXCEPT ![api] = "closing"]
    BY <1>2 DEF OwnerCloses
  <2> QED
    BY <1>0, <1>2, <2>1, <2>2, <2>3 DEF OwnerCloses, policyVars, TypeOK, HasObject
<1>3. CASE TokenRefresh
  BY <1>0, <1>3 DEF TokenRefresh, Disturbs, Goes, linkVars, policyVars, history, TypeOK, HasObject
<1>4. CASE Rests
  BY <1>0, <1>4 DEF Rests, linkVars, TypeOK, HasObject
<1>5. ASSUME NEW r \in Reconnectors, WatchdogForces(r) PROVE TypeOK' /\ HasObject'
  BY <1>0, <1>5 DEF WatchdogForces, Spawns, Disturbs, Goes, linkVars, policyVars, history, TypeOK, HasObject
<1>6. ASSUME NEW c \in Callers, Replace(c) PROVE TypeOK' /\ HasObject'
  <2>1. PICK a \in Apis : api' = a /\ link' = [b \in Apis |-> IF b = api /\ Online THEN "closing" ELSE link[b]]
    BY <1>6 DEF Replace
  <2>2. called' \in SUBSET Apis
    BY <1>6 DEF Replace, Kept, TypeOK
  <2> QED
    BY <1>0, <1>6, <2>1, <2>2 DEF Replace, Goes, policyVars, history, TypeOK, HasObject
<1>7. ASSUME NEW c \in Callers, Open(c) PROVE TypeOK' /\ HasObject'
  BY <1>0, <1>7 DEF Open, Online, Goes, policyVars, history, TypeOK, HasObject
<1>8. ASSUME NEW c \in Callers, Register(c) PROVE TypeOK' /\ HasObject'
  BY <1>0, <1>8 DEF Register, Goes, history, TypeOK, HasObject
<1>9. ASSUME NEW c \in Callers, Finish(c) PROVE TypeOK' /\ HasObject'
  BY <1>0, <1>9 DEF Finish, Goes, linkVars, policyVars, TypeOK, HasObject
<1>10. ASSUME NEW c \in Callers, Fails(c) PROVE TypeOK' /\ HasObject'
  <2>1. failures' \in 0 .. MaxFailures /\ breaker' \in {"CLOSED", "OPEN", "HALF"}
    BY <1>10 DEF Fails, RecordFailure, TypeOK
  <2> QED
    BY <1>0, <1>10, <2>1 DEF Fails, Goes, linkVars, history, TypeOK, HasObject
<1>11. ASSUME NEW r \in Reconnectors, Check(r) PROVE TypeOK' /\ HasObject'
  BY <1>0, <1>11 DEF Check, Goes, linkVars, TypeOK, HasObject
<1>12. ASSUME NEW r \in Reconnectors, GiveUp(r) PROVE TypeOK' /\ HasObject'
  BY <1>0, <1>12 DEF GiveUp, Goes, linkVars, policyVars, TypeOK, HasObject
<1>13. ASSUME NEW r \in Reconnectors, Exhausted(r) PROVE TypeOK' /\ HasObject'
  <2>1. failures' \in 0 .. MaxFailures /\ breaker' \in {"CLOSED", "OPEN", "HALF"}
    BY <1>13 DEF Exhausted, RecordFailure, TypeOK
  <2> QED
    BY <1>0, <1>13, <2>1 DEF Exhausted, Goes, linkVars, TypeOK, HasObject
<1>14. ASSUME NEW r \in Reconnectors, NEW a \in Apis, OnClose(a, r) PROVE TypeOK' /\ HasObject'
  <2>1. called' \in SUBSET Apis
    BY <1>14 DEF OnClose, Kept, TypeOK
  <2>2. disturbed' \in 0 .. MaxDisturbed
    BY <1>14 DEF OnClose, Disturbs, TypeOK
  <2>3. pc' = pc \/ pc' = [pc EXCEPT ![r] = "checking"]
    BY <1>14 DEF OnClose, Spawns, Goes
  <2> QED
    BY <1>0, <1>14, <2>1, <2>2, <2>3 DEF OnClose, policyVars, history, TypeOK, HasObject
<1>15. ASSUME NEW r \in Reconnectors, NEW a \in Apis, OrphanCloses(a, r) PROVE TypeOK' /\ HasObject'
  <2>1. called' \in SUBSET Apis
    BY <1>15 DEF OrphanCloses, Kept, TypeOK
  <2>2. pc' = pc \/ pc' = [pc EXCEPT ![r] = "checking"]
    BY <1>15 DEF OrphanCloses, Spawns, Goes
  <2> QED
    BY <1>0, <1>15, <2>1, <2>2 DEF OrphanCloses, policyVars, history, TypeOK, HasObject
<1>16. CASE UNCHANGED vars
  BY <1>16 DEF vars, linkVars, policyVars, history, TypeOK, HasObject
<1> QED
  BY <1>1, <1>2, <1>3, <1>4, <1>5, <1>6, <1>7, <1>8, <1>9, <1>10, <1>11, <1>12, <1>13, <1>14, <1>15, <1>16
  DEF Next, Connects, Reconnects, OpenFails, SyncFails, FinishRaises

-----------------------------------------------------------------------------
(* The tries. *)

\* A step with no reconnection that begins or ends, and without the breaker.
LEMMA PaidUndisturbed ==
  ASSUME Paid, UnderWay' = UnderWay, UNCHANGED <<breaker, failures, tries>>
  PROVE  Paid'
BY DEF Paid, StormBound

\* A failure is counted while a thread is free, or becomes free with it.
LEMMA PaidFailure ==
  ASSUME TypeOK, Paid, NEW r \in Reconnectors, RecordFailure, tries' = tries,
         \/ r \in UnderWay /\ UnderWay' = UnderWay \ {r}
         \/ r \notin UnderWay /\ UnderWay' = UnderWay
  PROVE  Paid'
<1> DEFINE n == Cardinality(UnderWay)
<1>1. /\ tries \in Nat /\ failures \in 0 .. MaxFailures /\ MaxFailures \in Nat \ {0}
      /\ n \in Nat /\ Cardinality(Reconnectors) \in Nat /\ n <= Cardinality(Reconnectors)
      /\ StormBound = MaxFailures + Cardinality(Reconnectors) - 1
  BY UnderWayCounted, BoundIsRoomy, ConnectionAssumption DEF TypeOK, StormBound
<1>2. /\ Cardinality(UnderWay') \in Nat
      /\ \/ Cardinality(UnderWay') = n - 1
         \/ Cardinality(UnderWay') = n /\ n < Cardinality(Reconnectors)
  <2>1. ASSUME r \in UnderWay, UnderWay' = UnderWay \ {r} PROVE Cardinality(UnderWay') = n - 1
    BY <2>1, UnderWayCounted
  <2>2. ASSUME r \notin UnderWay, UnderWay' = UnderWay
        PROVE  Cardinality(UnderWay') = n /\ n < Cardinality(Reconnectors)
    BY <2>2, UnderWayCounted
  <2>3. n - 1 \in Nat \/ r \notin UnderWay
    <3>1. ASSUME r \in UnderWay PROVE n # 0
      <4>1. IsFiniteSet(UnderWay)
        BY ConnectionAssumption, FS_Subset DEF UnderWay
      <4> QED
        BY <3>1, <4>1, FS_EmptySet
    <3> QED
      BY <1>1, <3>1
  <2> QED
    BY <1>1, <2>1, <2>2, <2>3
<1>3. StormBound' = StormBound
  BY DEF StormBound
<1> HIDE DEF n
<1>4. CASE breaker = "CLOSED"
  <2>1. failures < MaxFailures /\ tries <= failures + n /\ failures' = failures + 1
        /\ breaker' = IF failures + 1 = MaxFailures THEN "OPEN" ELSE "CLOSED"
    BY <1>4 DEF Paid, RecordFailure, n
  <2>2. CASE failures + 1 = MaxFailures
    BY <1>1, <1>2, <1>3, <2>1, <2>2 DEF Paid
  <2>3. CASE failures + 1 # MaxFailures
    BY <1>1, <1>2, <1>3, <2>1, <2>3 DEF Paid
  <2> QED
    BY <2>2, <2>3
<1>5. CASE breaker # "CLOSED"
  <2>1. failures = MaxFailures /\ tries <= StormBound
    BY <1>1, <1>5, UnderWayCounted, BoundIsRoomy DEF Paid, TypeOK, n
  <2>2. failures' = MaxFailures /\ breaker' = "OPEN"
    BY <1>1, <2>1 DEF RecordFailure
  <2> QED
    BY <1>3, <2>1, <2>2 DEF Paid
<1> QED
  BY <1>4, <1>5

\* No step leaves a try unpaid.
LEMMA NextPaid == TypeOK /\ HasObject /\ Paid /\ [Next]_vars => Paid'
<1> SUFFICES ASSUME TypeOK, HasObject, Paid, [Next]_vars PROVE Paid'
  OBVIOUS
<1> USE ConnectionAssumption
<1>0. /\ Owner \notin Reconnectors /\ Worker \notin Reconnectors
      /\ pc \in [Callers -> {"idle", "checking", "replacing", "opening", "syncing", "finishing"}]
      /\ Reconnectors \subseteq Callers
  BY DEF Callers, TypeOK
<1>1. CASE OwnerConnects \/ OwnerCloses \/ TokenRefresh
  <2>1. UnderWay' = UnderWay
    BY <1>0, <1>1 DEF OwnerConnects, OwnerCloses, TokenRefresh, Goes, UnderWay, Callers
  <2> QED
    BY <1>1, <2>1, PaidUndisturbed DEF OwnerConnects, OwnerCloses, TokenRefresh, policyVars, history
<1>2. CASE Rests
  <2>1. UnderWay' = UnderWay
    BY <1>2 DEF Rests, UnderWay
  <2> QED
    BY <1>2, <2>1, UnderWayCounted DEF Rests, Paid
<1>3. ASSUME NEW r \in Reconnectors, WatchdogForces(r) PROVE Paid'
  <2>1. UnderWay' = UnderWay
    BY <1>0, <1>3 DEF WatchdogForces, Spawns, Goes, UnderWay, Trying
  <2> QED
    BY <1>3, <2>1, PaidUndisturbed DEF WatchdogForces, policyVars, history
<1>4. ASSUME NEW c \in Callers, Replace(c) \/ Open(c) \/ Register(c) PROVE Paid'
  <2>1. UnderWay' = UnderWay
    BY <1>0, <1>4 DEF Replace, Open, Register, Goes, UnderWay, Trying
  <2> QED
    BY <1>4, <2>1, PaidUndisturbed DEF Replace, Open, Register, policyVars, history
<1>5. ASSUME NEW c \in Callers, Finish(c) PROVE Paid'
  <2>1. CASE c \in Reconnectors
    <3>1. UnderWay' \subseteq Reconnectors /\ IsFiniteSet(Reconnectors)
      BY DEF UnderWay
    <3>2. Cardinality(UnderWay') \in Nat
      BY <3>1, FS_Subset, FS_CardinalityType
    <3> QED
      BY <1>5, <2>1, <3>2 DEF Finish, Paid
  <2>2. CASE c \notin Reconnectors
    <3>1. UnderWay' = UnderWay
      BY <1>0, <1>5, <2>2 DEF Finish, Goes, UnderWay
    <3>2. /\ UNCHANGED <<breaker, failures>> /\ tries' = 0 /\ failures \in Nat
          /\ StormBound' = StormBound
      BY <1>5, <2>2 DEF Finish, policyVars, TypeOK, StormBound
    <3> QED
      BY <3>1, <3>2, UnderWayCounted, BoundIsRoomy DEF Paid
  <2> QED
    BY <2>1, <2>2
<1>6. ASSUME NEW c \in Callers, Fails(c), pc[c] \in Trying PROVE Paid'
  <2>1. CASE c \in Reconnectors
    <3>1. c \in UnderWay /\ UnderWay' = UnderWay \ {c}
      BY <1>0, <1>6, <2>1 DEF Fails, Goes, UnderWay, Trying
    <3>2. RecordFailure /\ tries' = tries
      BY <1>6, <2>1 DEF Fails, history
    <3> QED
      BY <2>1, <3>1, <3>2, PaidFailure
  <2>2. CASE c \notin Reconnectors
    <3>1. UnderWay' = UnderWay
      BY <1>0, <1>6, <2>2 DEF Fails, Goes, UnderWay
    <3> QED
      BY <1>6, <2>2, <3>1, PaidUndisturbed DEF Fails, history
  <2> QED
    BY <2>1, <2>2
<1>7. ASSUME NEW r \in Reconnectors, Check(r) PROVE Paid'
  <2>1. r \in Reconnectors \ UnderWay /\ UnderWay' = UnderWay \cup {r}
    BY <1>0, <1>7 DEF Check, Goes, UnderWay, Trying
  <2>2. Cardinality(UnderWay') = Cardinality(UnderWay) + 1
    BY <2>1, UnderWayCounted
  <2>3. tries' = tries + 1 /\ UNCHANGED <<breaker, failures>> /\ breaker # "OPEN"
    BY <1>7, PaidIsBounded, BoundIsRoomy DEF Check, StormBounded, TypeOK
  <2>4. tries \in Nat /\ failures \in Nat
    BY BoundIsRoomy DEF TypeOK
  <2> QED
    BY <2>2, <2>3, <2>4, UnderWayCounted DEF Paid
<1>8. ASSUME NEW r \in Reconnectors, GiveUp(r) PROVE Paid'
  <2>1. UnderWay' = UnderWay
    BY <1>0, <1>8 DEF GiveUp, Goes, UnderWay, Trying
  <2> QED
    BY <1>8, <2>1, PaidUndisturbed DEF GiveUp, policyVars
<1>9. ASSUME NEW r \in Reconnectors, Exhausted(r) PROVE Paid'
  <2>1. r \notin UnderWay /\ UnderWay' = UnderWay
    BY <1>0, <1>9 DEF Exhausted, Goes, UnderWay, Trying
  <2> QED
    BY <1>9, <2>1, PaidFailure DEF Exhausted
<1>10. ASSUME NEW r \in Reconnectors, NEW a \in Apis, OnClose(a, r) \/ OrphanCloses(a, r) PROVE Paid'
  <2>1. UnderWay' = UnderWay
    BY <1>0, <1>10 DEF OnClose, OrphanCloses, Spawns, Goes, UnderWay, Trying
  <2> QED
    BY <1>10, <2>1, PaidUndisturbed DEF OnClose, OrphanCloses, policyVars, history
<1>11. CASE UNCHANGED vars
  <2>1. UnderWay' = UnderWay
    BY <1>11 DEF vars, UnderWay
  <2> QED
    BY <1>11, <2>1, PaidUndisturbed DEF vars, policyVars, history
<1> QED
  BY <1>1, <1>2, <1>3, <1>4, <1>5, <1>6, <1>7, <1>8, <1>9, <1>10, <1>11
  DEF Next, Connects, Reconnects, OpenFails, SyncFails, FinishRaises, Trying

-----------------------------------------------------------------------------
\* The invariant holds in every state the connection reaches.
LEMMA Invariance == Spec => []IInv
<1>1. IInv /\ [Next]_vars => IInv'
  BY NextTypes, NextPaid DEF IInv
<1> QED
  BY InitIInv, <1>1, PTL DEF Spec

\* The attributes that the threads share, and the place of each thread, have their
\* types, however many threads connect at once.
THEOREM TypeCorrect == Spec => []TypeOK
<1>1. IInv => TypeOK
  BY DEF IInv
<1> QED
  BY <1>1, Invariance, PTL

\* For any number of reconnect threads: until one succeeds or the breaker has rested
\* they try no more often than the failures it allows and the other threads together.
THEOREM StormsAreBounded == Spec => []StormBounded
<1>1. IInv => StormBounded
  BY PaidIsBounded DEF IInv
<1> QED
  BY <1>1, Invariance, PTL
=============================================================================
