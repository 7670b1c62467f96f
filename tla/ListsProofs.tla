------------------------------ MODULE ListsProofs ------------------------------
(***************************************************************************)
(* What sorted() and a comprehension with a condition return (Lists), and  *)
(* the invariants of the components that keep lists, for all values of     *)
(* their constants: the buffer of candle_cache.py, the report of           *)
(* close_all_positions(), the table of get_all_open_time(), the ids        *)
(* buy_multi() returns and the ranking of asset_scanner.py.                *)
(***************************************************************************)
EXTENDS CandleFeed, CloseAll, OpenTimes, MultiOrder, Scanner,
        FiniteSetTheorems, SequenceTheorems, WellFoundedInduction, TLAPS

-----------------------------------------------------------------------------
(* Lists *)

\* j is i, or stands before it.
Before(key, j, i) == key[j] < key[i] \/ (key[j] = key[i] /\ j <= i)

\* The n-th by a key is the n-th: each one has a place, no two have the same, and those
\* before another have a smaller key, or the same one and a smaller number.
LEMMA RankedInOrder ==
  ASSUME NEW D, D \subseteq Int, IsFiniteSet(D), NEW key \in [D -> Int]
  PROVE  /\ Cardinality(D) \in Nat
         /\ \A n \in 1 .. Cardinality(D) :
              Ranked(key, n) \in D /\ Place(key, Ranked(key, n)) = n
         /\ \A i \in D : \E n \in 1 .. Cardinality(D) : Ranked(key, n) = i
         /\ \A m, n \in 1 .. Cardinality(D) : m < n =>
              /\ Ranked(key, m) # Ranked(key, n)
              /\ key[Ranked(key, m)] <= key[Ranked(key, n)]
              /\ key[Ranked(key, m)] = key[Ranked(key, n)] => Ranked(key, m) < Ranked(key, n)
<1> DEFINE N == Cardinality(D)
           Up(i) == {j \in D : key[j] < key[i] \/ (key[j] = key[i] /\ j <= i)}
           place == [i \in D |-> Cardinality(Up(i))]
<1>1. N \in Nat
  BY FS_CardinalityType
<1>2. ASSUME NEW i \in D
      PROVE  IsFiniteSet(Up(i)) /\ Cardinality(Up(i)) \in 1 .. N
  <2>1. Up(i) \in SUBSET D /\ i \in Up(i)
    OBVIOUS
  <2>2. IsFiniteSet(Up(i)) /\ Cardinality(Up(i)) <= N
    BY <2>1, FS_Subset
  <2>3. Cardinality(Up(i)) \in Nat /\ Cardinality(Up(i)) # 0
    BY <2>1, <2>2, FS_CardinalityType, FS_EmptySet
  <2> QED
    BY <2>2, <2>3, <1>1
<1>3. ASSUME NEW i \in D, NEW j \in D, ~ Before(key, i, j)
      PROVE  Cardinality(Up(j)) < Cardinality(Up(i))
  <2>1. i \in Int /\ j \in Int /\ key[i] \in Int /\ key[j] \in Int
    OBVIOUS
  <2>2. \A k \in D : k \in Int /\ key[k] \in Int
    OBVIOUS
  <2>3. key[j] < key[i] \/ (key[j] = key[i] /\ j < i)
    BY <1>3, <2>1 DEF Before
  <2>4. ASSUME NEW k \in Up(j) PROVE k \in Up(i)
    <3>1. k \in D /\ k \in Int /\ key[k] \in Int /\ (key[k] < key[j] \/ (key[k] = key[j] /\ k <= j))
      BY <2>2
    <3>2. key[k] < key[i] \/ (key[k] = key[i] /\ k <= i)
      BY <2>3, <2>1, <3>1
    <3> QED
      BY <3>1, <3>2
  <2>5. i \in Up(i)
    BY <2>1
  <2>6. i \notin Up(j)
    BY <2>1, <2>3
  <2>7. Up(j) \subseteq Up(i) /\ i \in Up(i) /\ i \notin Up(j)
    <3> HIDE DEF Up
    <3> QED BY <2>4, <2>5, <2>6
  <2>8. Up(j) \in SUBSET Up(i) /\ Up(j) # Up(i)
    BY <2>7
  <2>9. IsFiniteSet(Up(i)) /\ Cardinality(Up(i)) \in 1 .. N /\ Cardinality(Up(j)) \in 1 .. N
    BY <1>2
  <2>10. Cardinality(Up(j)) <= Cardinality(Up(i)) /\ Cardinality(Up(j)) # Cardinality(Up(i))
    BY <2>8, <2>9, FS_Subset
  <2> QED
    BY <2>9, <2>10, <1>1
<1>4. \A i, j \in D : Cardinality(Up(i)) = Cardinality(Up(j)) => i = j
  <2> SUFFICES ASSUME NEW i \in D, NEW j \in D, i # j
               PROVE  Cardinality(Up(i)) # Cardinality(Up(j))
    OBVIOUS
  <2>1. i \in Int /\ j \in Int /\ key[i] \in Int /\ key[j] \in Int
    OBVIOUS
  <2>2. ~ Before(key, i, j) \/ ~ Before(key, j, i)
    BY <2>1 DEF Before
  <2>3. Cardinality(Up(i)) \in 1 .. N /\ Cardinality(Up(j)) \in 1 .. N
    BY <1>2
  <2> HIDE DEF Up
  <2> QED
    BY <2>2, <2>3, <1>1, <1>3
<1>5. place \in Surjection(D, 1 .. N)
  <2> HIDE DEF Up
  <2>1. place \in [D -> 1 .. N]
    BY <1>2
  <2>2. place \in Injection(D, 1 .. N)
    BY <2>1, <1>4 DEF Injection, IsInjective
  <2>3. IsFiniteSet(1 .. N) /\ Cardinality(1 .. N) = N
    BY <1>1, FS_Interval
  <2> QED
    BY <2>2, <2>3, FS_Injection
<1>6. ASSUME NEW n \in 1 .. N
      PROVE  /\ Ranked(key, n) \in D /\ Cardinality(Up(Ranked(key, n))) = n
             /\ Place(key, Ranked(key, n)) = n
  <2>1. \A i \in D : Place(key, i) = Cardinality(Up(i))
    BY DEF Place
  <2>2. \E i \in D : Cardinality(Up(i)) = n
    <3> HIDE DEF Up
    <3> QED BY <1>5 DEF Surjection
  <2>3. Ranked(key, n) = CHOOSE i \in D : Place(key, i) = n
    BY DEF Ranked
  <2> HIDE DEF Up
  <2>4. \E i \in D : Place(key, i) = n
    BY <2>1, <2>2
  <2>5. Ranked(key, n) \in D /\ Place(key, Ranked(key, n)) = n
    BY <2>3, <2>4
  <2> QED
    BY <2>1, <2>5
<1>7. ASSUME NEW m \in 1 .. N, NEW n \in 1 .. N, m < n
      PROVE  /\ Ranked(key, m) # Ranked(key, n)
             /\ key[Ranked(key, m)] <= key[Ranked(key, n)]
             /\ key[Ranked(key, m)] = key[Ranked(key, n)] => Ranked(key, m) < Ranked(key, n)
  <2> DEFINE i == Ranked(key, m)
             j == Ranked(key, n)
  <2> HIDE DEF Up, i, j
  <2>1. i \in D /\ j \in D /\ Cardinality(Up(i)) = m /\ Cardinality(Up(j)) = n
    BY <1>6 DEF i, j
  <2>2. i # j
    BY <2>1, <1>7, <1>1
  <2>3. Before(key, i, j)
    BY <2>1, <1>3, <1>7, <1>1
  <2>4. i \in Int /\ j \in Int /\ key[i] \in Int /\ key[j] \in Int
    BY <2>1
  <2>5. key[i] <= key[j] /\ (key[i] = key[j] => i < j)
    BY <2>2, <2>3, <2>4 DEF Before
  <2> QED
    BY <2>2, <2>5 DEF i, j
<1>8. ASSUME NEW i \in D
      PROVE  \E n \in 1 .. N : Ranked(key, n) = i
  <2> HIDE DEF Up
  <2>1. Cardinality(Up(i)) \in 1 .. N
    BY <1>2
  <2>2. Ranked(key, Cardinality(Up(i))) = i
    BY <2>1, <1>4, <1>6
  <2> QED
    BY <2>1, <2>2
<1> HIDE DEF Up
<1> QED
  BY <1>1, <1>6, <1>7, <1>8

\* How many numbers there are from a to b.
LEMMA IntervalCount ==
  ASSUME NEW a \in Int, NEW b \in Int, a <= b + 1
  PROVE  IsFiniteSet(a .. b) /\ Cardinality(a .. b) = b - a + 1
<1>1. IsFiniteSet(a .. b) /\ Cardinality(a .. b) = IF a > b THEN 0 ELSE b - a + 1
  BY FS_Interval
<1> QED
  BY <1>1

\* A comprehension keeps the elements at the places asked for, each once, in their order.
LEMMA ThoseInOrder ==
  ASSUME NEW S, NEW s \in Seq(S), NEW places, places \subseteq DOMAIN s
  PROVE  /\ Cardinality(places) \in Nat /\ Cardinality(places) <= Len(s)
         /\ Those(s, places) \in Seq(S)
         /\ Len(Those(s, places)) = Cardinality(places)
         /\ \E at \in [1 .. Cardinality(places) -> places] :
              /\ \A n \in 1 .. Cardinality(places) : Those(s, places)[n] = s[at[n]]
              /\ \A m, n \in 1 .. Cardinality(places) : m < n => at[m] < at[n]
              /\ \A i \in places : \E n \in 1 .. Cardinality(places) : at[n] = i
<1> DEFINE N == Cardinality(places)
           key == [i \in places |-> i]
           at == [n \in 1 .. N |-> Ranked(key, n)]
<1>1. IsFiniteSet(places) /\ places \subseteq Int /\ N \in Nat /\ N <= Len(s)
  <2>1. DOMAIN s = 1 .. Len(s) /\ Len(s) \in Nat
    BY LenProperties
  <2>2. IsFiniteSet(1 .. Len(s)) /\ Cardinality(1 .. Len(s)) = Len(s)
    BY <2>1, IntervalCount
  <2> QED
    BY <2>1, <2>2, FS_Subset, FS_CardinalityType
<1>2. key \in [places -> Int]
  BY <1>1
<1>3. /\ \A n \in 1 .. N : Ranked(key, n) \in places
      /\ \A i \in places : \E n \in 1 .. N : Ranked(key, n) = i
      /\ \A m, n \in 1 .. N : m < n =>
              /\ Ranked(key, m) # Ranked(key, n)
              /\ key[Ranked(key, m)] <= key[Ranked(key, n)]
  <2> HIDE DEF key
  <2> QED BY <1>1, <1>2, RankedInOrder
<1>4. at \in [1 .. N -> places]
  BY <1>3
<1>5. \A n \in 1 .. N : at[n] = Ranked(key, n)
  OBVIOUS
<1>6. \A m, n \in 1 .. N : m < n => at[m] < at[n]
  <2> SUFFICES ASSUME NEW m \in 1 .. N, NEW n \in 1 .. N, m < n
               PROVE  at[m] < at[n]
    OBVIOUS
  <2>1. at[m] # at[n] /\ key[at[m]] <= key[at[n]] /\ at[m] \in places /\ at[n] \in places
    <3> HIDE DEF key
    <3> QED BY <1>3
  <2>2. at[m] # at[n] /\ at[m] <= at[n] /\ at[m] \in Int /\ at[n] \in Int
    <3> HIDE DEF at
    <3> QED BY <2>1, <1>1
  <2> HIDE DEF at
  <2> QED
    BY <2>2
<1>7. Those(s, places) = [n \in 1 .. N |-> s[at[n]]]
  BY DEF Those
<1>8. \A n \in 1 .. N : s[at[n]] \in S
  <2> HIDE DEF at
  <2> QED BY <1>4, LenProperties, ElementOfSeq
<1>9. \A i \in places : \E n \in 1 .. N : at[n] = i
  <2> HIDE DEF key
  <2> QED BY <1>3, <1>5
<1> HIDE DEF at
<1>10. /\ Those(s, places) \in Seq(S)
       /\ Len(Those(s, places)) = N
       /\ \A n \in 1 .. N : Those(s, places)[n] = s[at[n]]
  BY <1>1, <1>7, <1>8
<1> QED
  BY <1>1, <1>4, <1>6, <1>9, <1>10

\* The elements of a comprehension.
LEMMA ThoseElements ==
  ASSUME NEW S, NEW s \in Seq(S), NEW places, places \subseteq DOMAIN s
  PROVE  /\ ToSet(Those(s, places)) = {s[i] : i \in places}
         /\ Those(s, places) # <<>> <=> places # {}
<1> DEFINE N == Cardinality(places)
           t == Those(s, places)
<1>1. /\ N \in Nat /\ t \in Seq(S) /\ Len(t) = N
      /\ \E at \in [1 .. N -> places] :
           /\ \A n \in 1 .. N : t[n] = s[at[n]]
           /\ \A i \in places : \E n \in 1 .. N : at[n] = i
  BY ThoseInOrder
<1> HIDE DEF N, t
<1>2. PICK at \in [1 .. N -> places] :
           /\ \A n \in 1 .. N : t[n] = s[at[n]]
           /\ \A i \in places : \E n \in 1 .. N : at[n] = i
  BY <1>1
<1>3. DOMAIN t = 1 .. N
  BY <1>1
<1>4. ToSet(t) = {s[i] : i \in places}
  BY <1>2, <1>3 DEF ToSet
<1>5. t # <<>> <=> 1 .. N # {}
  <2>1. t # <<>> <=> N # 0
    BY <1>1, EmptySeq
  <2>2. 1 .. N # {} <=> N # 0
    <3>1. N = 0 => 1 .. N = {}
      OBVIOUS
    <3>2. N # 0 => 1 \in 1 .. N
      BY <1>1
    <3> QED
      BY <3>1, <3>2
  <2> QED
    BY <2>1, <2>2
<1>6. 1 .. N # {} <=> places # {}
  BY <1>2
<1> QED
  BY <1>4, <1>5, <1>6 DEF t

\* The numbers in their order, as a relation.
LessThan == {p \in Nat \X Nat : p[1] < p[2]}

\* A set of numbers that is not empty has a least one.
LEMMA LeastNumber ==
  ASSUME NEW T, T \subseteq Nat, T # {}
  PROVE  \E x \in T : \A y \in T : x <= y
<1>1. IsWellFoundedOn(LessThan, Nat)
  BY NatLessThanWellFounded DEF OpToRel, LessThan
<1>2. PICK x \in T : \A y \in T : <<y, x>> \notin LessThan
  BY <1>1, WFMin
<1>3. ASSUME NEW y \in T, y < x PROVE FALSE
  <2>1. <<y, x>> \in Nat \X Nat /\ <<y, x>>[1] < <<y, x>>[2]
    BY <1>3
  <2> QED
    BY <1>2, <2>1 DEF LessThan
<1> QED
  BY <1>3

\* Taking the first copy of an element out leaves a sequence of the same set.
LEMMA RemoveFirstType ==
  ASSUME NEW S, NEW q \in Seq(S), NEW e
  PROVE  RemoveFirst(q, e) \in Seq(S)
<1> DEFINE I == {i \in 1 .. Len(q) : q[i] = e}
           least == CHOOSE i \in I : \A j \in I : i <= j
<1>1. Len(q) \in Nat /\ \A i \in 1 .. Len(q) : q[i] \in S
  BY LenProperties, ElementOfSeq
<1>2. CASE I = {}
  BY <1>2 DEF RemoveFirst
<1>3. CASE I # {}
  <2>1. I \subseteq Nat
    BY <1>1
  <2>2. \E i \in I : \A j \in I : i <= j
    BY <1>3, <2>1, LeastNumber
  <2>3. least \in 1 .. Len(q)
    BY <2>2
  <2>4. RemoveFirst(q, e) = SubSeq(q, 1, least - 1) \o SubSeq(q, least + 1, Len(q))
    BY <1>3 DEF RemoveFirst, RemoveAt, SelectInSeq, Min
  <2> HIDE DEF least
  <2>5. /\ SubSeq(q, 1, least - 1) \in Seq(S)
        /\ SubSeq(q, least + 1, Len(q)) \in Seq(S)
    BY <1>1, <2>3, SubSeqProperties
  <2> QED
    BY <2>4, <2>5, ConcatProperties
<1> QED
  BY <1>2, <1>3

-----------------------------------------------------------------------------
(* CandleFeed *)

\* A candle of the buffer: the message it came with, and its time.
BufferEntries == [message : 1 .. MaxMessages, ts : 0 .. MaxClock]

\* The newest candle is the first.
Descending(s) == \A i, j \in DOMAIN s : i < j => s[i].message > s[j].message
\* Every candle came with a message.
Sent(s)       == \A i \in DOMAIN s : s[i].message <= messages
\* Every candle is newer than the cutoff.
After(s)      == \A i \in DOMAIN s : s[i].ts > cutoff

\* A sweep keeps what it scanned: the candles it stores are as old as those of the
\* buffer were, in their order, and newer than the cutoff.
CandleIInv ==
  /\ CandleTypeOK
  /\ scanned \in Seq(BufferEntries) /\ scannedMax \in Maxlens /\ Len(scanned) <= scannedMax
  /\ cutoff \in Int /\ cutoff < clock
  /\ opened <= messages
  /\ Sent(buffer) /\ Sent(scanned)
  /\ NewestFirst /\ Descending(scanned)
  /\ SweptIsGone /\ (sweep = "storing" => After(scanned))
  /\ LiveIsRecent

\* An element of a list of candles is a candle.
LEMMA EntryType ==
  ASSUME NEW s \in Seq(BufferEntries)
  PROVE  \A i \in DOMAIN s : s[i] \in BufferEntries /\ s[i].message \in Nat /\ s[i].ts \in Nat
<1>1. \A i \in DOMAIN s : s[i] \in BufferEntries
  BY ElementOfSeq, LenProperties
<1>2. \A e \in BufferEntries : e.message \in Nat /\ e.ts \in Nat
  BY CandlesAssumption DEF BufferEntries
<1> QED
  BY <1>1, <1>2

\* The last maxdict of n candles.
Lasts(n) == {f \in 1 .. n : f > n - maxdict}

\* With a new candle, the last ones are those before without the oldest, and the new one.
LEMMA LastCandlesMove ==
  ASSUME maxdict \in Nat \ {0}, opened \in Nat, DOMAIN live = Lasts(opened),
         NEW from \in {opened, opened + 1} \ {0}, NEW v, QueueAdd(from, v)
  PROVE  DOMAIN live' = Lasts(from)
<1>1. CASE from = opened
  BY <1>1 DEF QueueAdd, With, Lasts
<1>2. CASE from = opened + 1 /\ opened < maxdict
  <2>1. Lasts(opened) = 1 .. opened /\ Lasts(from) = 1 .. opened + 1
    BY <1>2 DEF Lasts
  <2>2. Cardinality(DOMAIN live) < maxdict
    <3>1. Cardinality(1 .. opened) = opened
      BY IntervalCount
    <3> QED
      BY <1>2, <2>1, <3>1
  <2> QED
    BY <1>2, <2>1, <2>2 DEF QueueAdd, With
<1>3. CASE from = opened + 1 /\ opened >= maxdict
  <2> DEFINE low == opened - maxdict + 1
  <2>1. Lasts(opened) = low .. opened /\ Lasts(from) = low + 1 .. opened + 1
    BY <1>3 DEF Lasts
  <2>2. ~ (Cardinality(DOMAIN live) < maxdict)
    <3>1. Cardinality(low .. opened) = maxdict
      BY <1>3, IntervalCount
    <3> QED
      BY <1>3, <2>1, <3>1
  <2>3. (CHOOSE f \in DOMAIN live : \A g \in DOMAIN live : f <= g) = low
    <3>1. low \in DOMAIN live /\ \A g \in DOMAIN live : low <= g
      BY <1>3, <2>1
    <3>2. low \in Int /\ \A f \in DOMAIN live : f \in Int /\ low <= f
      BY <1>3, <2>1
    <3>3. \A f \in DOMAIN live : (\A g \in DOMAIN live : f <= g) => f = low
      <4> HIDE DEF low
      <4> QED BY <3>2, <3>1
    <3> HIDE DEF low
    <3> QED
      BY <3>1, <3>3
  <2>4. from \notin DOMAIN live
    BY <1>3, <2>1
  <2>5. live' = With(Without(live, low), from, v)
    <3> HIDE DEF low
    <3> QED BY <2>2, <2>3, <2>4 DEF QueueAdd
  <2>6. DOMAIN live' = ((DOMAIN live) \ {low}) \cup {from}
    BY <2>5 DEF With, Without
  <2>7. (low .. opened) \ {low} = low + 1 .. opened
    BY <1>3
  <2> QED
    BY <1>3, <2>1, <2>6, <2>7
<1> QED
  BY <1>1, <1>2, <1>3

\* Nothing is stored before the first message.
LEMMA CandleInitial == CandleInit => CandleIInv
<1> SUFFICES ASSUME CandleInit PROVE CandleIInv
  OBVIOUS
<1> USE CandlesAssumption
<1>1. CandleTypeOK
  BY DEF CandleInit, CandleTypeOK
<1>2. scanned \in Seq(BufferEntries) /\ scannedMax \in Maxlens /\ Len(scanned) <= scannedMax
  BY DEF CandleInit
<1>3. cutoff \in Int /\ cutoff < clock /\ opened <= messages
  BY DEF CandleInit
<1>4. Sent(buffer) /\ Sent(scanned) /\ NewestFirst /\ Descending(scanned) /\ SweptIsGone
      /\ (sweep = "storing" => After(scanned))
  BY DEF CandleInit, Sent, NewestFirst, Descending, SweptIsGone, After
<1>5. LiveIsRecent
  BY DEF CandleInit, LiveIsRecent
<1> QED
  BY <1>1, <1>2, <1>3, <1>4, <1>5 DEF CandleIInv

\* add_candle() puts the newest candle in front.
LEMMA CandleAdded ==
  ASSUME CandleIInv, messages < MaxMessages, messages' = messages + 1, AddCandle(messages + 1),
         UNCHANGED <<maxlen, clock, cutoff, sweep>>
  PROVE  /\ buffer' \in Seq(BufferEntries) /\ Len(buffer') <= maxlen
         /\ Sent(buffer)' /\ NewestFirst' /\ SweptIsGone'
<1> USE CandlesAssumption
<1> DEFINE e == [message |-> messages + 1, ts |-> clock]
           longer == <<e>> \o buffer
<1>1. /\ buffer \in Seq(BufferEntries) /\ maxlen \in Nat \ {0} /\ Len(buffer) <= maxlen /\ e \in BufferEntries
      /\ messages \in Nat /\ clock \in Nat /\ cutoff < clock /\ cutoff \in Int
      /\ Sent(buffer) /\ NewestFirst /\ SweptIsGone
  BY DEF CandleIInv, CandleTypeOK, BufferEntries
<1> HIDE DEF e
<1>2. /\ longer \in Seq(BufferEntries) /\ Len(longer) = Len(buffer) + 1 /\ longer[1] = e
      /\ \A i \in 2 .. Len(longer) : longer[i] = buffer[i - 1]
  BY <1>1
<1> DEFINE n == IF Len(longer) > maxlen THEN maxlen ELSE Len(longer)
<1>3. n \in 1 .. Len(longer) /\ n <= maxlen
  BY <1>1, <1>2
<1>4. buffer' = SubSeq(longer, 1, n)
  BY DEF AddCandle, First, e
<1> HIDE DEF longer, n
<1>5. \A i \in 1 .. n : longer[i] \in BufferEntries
  BY <1>2, <1>3
<1>6. buffer' \in Seq(BufferEntries) /\ Len(buffer') = n /\ \A i \in 1 .. n : buffer'[i] = longer[i]
  BY <1>2, <1>3, <1>4, <1>5
<1>7. DOMAIN buffer' = 1 .. n /\ DOMAIN buffer = 1 .. Len(buffer)
  BY <1>1, <1>6
<1>8. \A i \in 1 .. n : /\ i = 1 => buffer'[i] = e
                        /\ i # 1 => i - 1 \in DOMAIN buffer /\ buffer'[i] = buffer[i - 1]
  BY <1>1, <1>2, <1>3, <1>6, <1>7
<1>9. e.message = messages + 1 /\ e.ts = clock
  BY DEF e
<1>10. Sent(buffer)'
  <2> SUFFICES ASSUME NEW i \in 1 .. n PROVE buffer'[i].message <= messages + 1
    BY <1>7 DEF Sent
  <2>1. CASE i = 1
    BY <2>1, <1>8, <1>9, <1>1
  <2>2. CASE i # 1
    <3>1. buffer[i - 1].message \in Nat /\ buffer[i - 1].message <= messages
      BY <2>2, <1>1, <1>8, EntryType DEF Sent
    <3> QED
      BY <3>1, <2>2, <1>8, <1>1
  <2> QED
    BY <2>1, <2>2
<1>11. NewestFirst'
  <2> SUFFICES ASSUME NEW i \in 1 .. n, NEW j \in 1 .. n, i < j
               PROVE  buffer'[i].message > buffer'[j].message
    BY <1>7 DEF NewestFirst
  <2>1. j # 1 /\ j - 1 \in DOMAIN buffer /\ buffer'[j] = buffer[j - 1]
    BY <1>8
  <2>2. buffer[j - 1].message \in Nat /\ buffer[j - 1].message <= messages
    BY <2>1, <1>1, EntryType DEF Sent
  <2>3. CASE i = 1
    BY <2>1, <2>2, <2>3, <1>8, <1>9, <1>1
  <2>4. CASE i # 1
    BY <2>1, <2>4, <1>8, <1>1 DEF NewestFirst
  <2> QED
    BY <2>3, <2>4
<1>12. SweptIsGone'
  <2> SUFFICES ASSUME sweep = "resting", NEW i \in 1 .. n PROVE buffer'[i].ts > cutoff
    BY <1>7 DEF SweptIsGone
  <2> QED
    BY <1>1, <1>8, <1>9 DEF SweptIsGone
<1> QED
  BY <1>3, <1>6, <1>10, <1>11, <1>12

\* A message of a candle keeps the newest ones in both stores.
LEMMA CandleGeneratedKeeps ==
  ASSUME CandleIInv, NEW from \in 1 .. MaxMessages, CandleGenerated(from)
  PROVE  CandleIInv'
<1> USE CandlesAssumption
<1>1. /\ messages \in Nat /\ opened \in Nat /\ maxdict \in Nat /\ from \in {opened, opened + 1} \ {0}
      /\ messages < MaxMessages /\ messages' = messages + 1 /\ opened' = from
      /\ UNCHANGED <<maxdict, maxlen, clock, sweepVars>>
  BY DEF CandleIInv, CandleTypeOK, CandleGenerated
<1>2. opened' <= messages' /\ opened' \in 0 .. MaxMessages /\ messages' \in 0 .. MaxMessages
  BY <1>1 DEF CandleIInv, CandleTypeOK
<1>3. Sent(scanned)'
  <2>1. \A i \in DOMAIN scanned : scanned[i].message \in Nat /\ scanned[i].message <= messages
    BY EntryType DEF CandleIInv, Sent
  <2> QED
    BY <1>1, <2>1 DEF Sent, sweepVars
<1>4. /\ scanned' \in Seq(BufferEntries) /\ scannedMax' \in Maxlens /\ Len(scanned') <= scannedMax'
      /\ cutoff' \in Int /\ cutoff' < clock' /\ Descending(scanned)'
      /\ (sweep = "storing" => After(scanned))'
  BY <1>1 DEF CandleIInv, sweepVars, Descending, After
<1>5. CASE from \in DOMAIN live \/ maxdict > 0
  <2>1. QueueAdd(from, messages + 1) /\ AddCandle(messages + 1)
    BY <1>5 DEF CandleGenerated
  <2>2. /\ buffer' \in Seq(BufferEntries) /\ Len(buffer') <= maxlen
        /\ Sent(buffer)' /\ NewestFirst' /\ SweptIsGone'
    BY <1>1, <2>1, CandleAdded DEF sweepVars
  <2> DEFINE LiveType == /\ DOMAIN live' \subseteq 1 .. MaxMessages
                         /\ \A f \in DOMAIN live' : live'[f] \in 1 .. MaxMessages
  <2>3. LiveType
    <3>1. CASE live' = With(live, from, messages + 1)
      BY <3>1, <1>1 DEF With, CandleIInv, CandleTypeOK
    <3>2. ASSUME NEW k, live' = With(Without(live, k), from, messages + 1)
          PROVE  LiveType
      BY <3>2, <1>1 DEF With, Without, CandleIInv, CandleTypeOK
    <3> HIDE DEF LiveType
    <3> QED
      BY <2>1, <3>1, <3>2 DEF QueueAdd
  <2>4. LiveIsRecent'
    <3>1. CASE maxdict > 0
      <4>1. DOMAIN live = Lasts(opened)
        BY <3>1 DEF CandleIInv, LiveIsRecent, Lasts
      <4>2. DOMAIN live' = Lasts(from)
        BY <3>1, <4>1, <2>1, <1>1, LastCandlesMove
      <4> QED
        BY <4>2, <1>1 DEF LiveIsRecent, Lasts
    <3>2. CASE ~ (maxdict > 0)
      BY <3>2, <1>1 DEF LiveIsRecent
    <3> QED
      BY <3>1, <3>2
  <2>5. hit' \in {"no", "extended", "replaced"}
    BY <2>1 DEF AddCandle, CandleIInv, CandleTypeOK
  <2>6. CandleTypeOK'
    BY <1>1, <1>2, <2>2, <2>3, <2>5 DEF CandleIInv, CandleTypeOK, sweepVars, BufferEntries
  <2> QED
    BY <1>2, <1>3, <1>4, <2>2, <2>4, <2>6 DEF CandleIInv
<1>6. CASE ~ (from \in DOMAIN live \/ maxdict > 0)
  <2>1. UNCHANGED <<live, buffer, hit>>
    BY <1>6 DEF CandleGenerated
  <2>2. CandleTypeOK'
    BY <1>1, <1>2, <2>1 DEF CandleIInv, CandleTypeOK, sweepVars
  <2>3. Sent(buffer)'
    <3>1. \A i \in DOMAIN buffer : buffer[i].message \in Nat /\ buffer[i].message <= messages
      BY EntryType DEF CandleIInv, CandleTypeOK, Sent, BufferEntries
    <3> QED
      BY <1>1, <2>1, <3>1 DEF Sent
  <2>4. NewestFirst' /\ SweptIsGone' /\ LiveIsRecent'
    BY <1>1, <1>6, <2>1 DEF CandleIInv, NewestFirst, SweptIsGone, LiveIsRecent, sweepVars
  <2> QED
    BY <1>2, <1>3, <1>4, <2>2, <2>3, <2>4 DEF CandleIInv
<1> QED
  BY <1>5, <1>6

\* A buffer that gets smaller keeps the newest candles.
LEMMA ResizedKeeps ==
  ASSUME CandleIInv, NEW m \in Maxlens, SetMaxlen(m)
  PROVE  CandleIInv'
<1> USE CandlesAssumption
<1>1. /\ buffer \in Seq(BufferEntries) /\ m \in Nat \ {0} /\ maxlen' = m /\ buffer' = Final(buffer, m)
      /\ UNCHANGED <<feedVars, sweepVars>>
  BY DEF CandleIInv, CandleTypeOK, BufferEntries, SetMaxlen
<1> DEFINE d == IF Len(buffer) > m THEN Len(buffer) - m ELSE 0
<1>2. d \in Nat /\ d <= Len(buffer) /\ Len(buffer) - d <= m
  BY <1>1
<1>3. buffer' = SubSeq(buffer, 1 + d, Len(buffer))
  BY <1>1 DEF Final
<1> HIDE DEF d
<1>4. \A i \in 1 + d .. Len(buffer) : buffer[i] \in BufferEntries
  BY <1>1, <1>2
<1>5. /\ buffer' \in Seq(BufferEntries) /\ Len(buffer') = Len(buffer) - d
      /\ \A i \in 1 .. Len(buffer) - d : buffer'[i] = buffer[i + d]
  BY <1>1, <1>2, <1>3, <1>4
<1>6. /\ DOMAIN buffer' = 1 .. Len(buffer) - d /\ DOMAIN buffer = 1 .. Len(buffer)
      /\ \A i \in DOMAIN buffer' : i + d \in DOMAIN buffer /\ i \in Nat
  BY <1>1, <1>2, <1>5
<1>7. CandleTypeOK'
  BY <1>1, <1>2, <1>5 DEF CandleIInv, CandleTypeOK, SetMaxlen, feedVars, sweepVars, BufferEntries
<1>8. Sent(buffer)' /\ SweptIsGone'
  BY <1>1, <1>5, <1>6 DEF CandleIInv, Sent, SweptIsGone, feedVars, sweepVars
<1>9. NewestFirst'
  <2> SUFFICES ASSUME NEW i \in DOMAIN buffer', NEW j \in DOMAIN buffer', i < j
               PROVE  buffer'[i].message > buffer'[j].message
    BY DEF NewestFirst
  <2>1. i + d < j + d
    BY <1>2, <1>6
  <2> QED
    BY <2>1, <1>5, <1>6 DEF CandleIInv, NewestFirst
<1>10. /\ scanned' \in Seq(BufferEntries) /\ scannedMax' \in Maxlens /\ Len(scanned') <= scannedMax'
       /\ cutoff' \in Int /\ cutoff' < clock' /\ Descending(scanned)' /\ opened' <= messages'
       /\ (sweep = "storing" => After(scanned))' /\ LiveIsRecent' /\ Sent(scanned)'
  BY <1>1 DEF CandleIInv, feedVars, sweepVars, Descending, After, LiveIsRecent, Sent
<1> QED
  BY <1>7, <1>8, <1>9, <1>10 DEF CandleIInv

\* The sweep takes the candles after its cutoff, in their order.
LEMMA FilteredKeeps == CandleIInv /\ SweepFilters => CandleIInv'
<1> SUFFICES ASSUME CandleIInv, SweepFilters PROVE CandleIInv'
  OBVIOUS
<1> USE CandlesAssumption
<1> DEFINE young == {i \in DOMAIN scanned : scanned[i].ts > cutoff}
           N == Cardinality(young)
<1>1. /\ scanned \in Seq(BufferEntries) /\ scannedMax \in Nat /\ Len(scanned) <= scannedMax
      /\ scanned' = Those(scanned, young) /\ young \subseteq DOMAIN scanned
      /\ UNCHANGED <<feedVars, buffer, maxlen, scannedMax, cutoff, hit>>
      /\ sweep' = "storing"
  BY DEF CandleIInv, SweepFilters
<1>2. /\ N \in Nat /\ N <= Len(scanned) /\ scanned' \in Seq(BufferEntries) /\ Len(scanned') = N
      /\ \E at \in [1 .. N -> young] :
           /\ \A n \in 1 .. N : scanned'[n] = scanned[at[n]]
           /\ \A m, n \in 1 .. N : m < n => at[m] < at[n]
  <2> HIDE DEF young
  <2> QED BY <1>1, ThoseInOrder
<1>3. PICK at \in [1 .. N -> young] :
           /\ \A n \in 1 .. N : scanned'[n] = scanned[at[n]]
           /\ \A m, n \in 1 .. N : m < n => at[m] < at[n]
  BY <1>2
<1>4. DOMAIN scanned' = 1 .. N /\ \A n \in 1 .. N : at[n] \in DOMAIN scanned /\ scanned[at[n]].ts > cutoff
  <2> HIDE DEF N
  <2> QED BY <1>2
<1> HIDE DEF N, young
<1>5. Descending(scanned)' /\ Sent(scanned)' /\ After(scanned)'
  BY <1>1, <1>3, <1>4 DEF CandleIInv, Descending, Sent, After, feedVars
<1>6. Len(scanned') <= scannedMax'
  BY <1>1, <1>2
<1>7. CandleTypeOK' /\ Sent(buffer)' /\ NewestFirst' /\ SweptIsGone' /\ LiveIsRecent'
  BY <1>1 DEF CandleIInv, CandleTypeOK, Sent, NewestFirst, SweptIsGone, LiveIsRecent, feedVars
<1> QED
  BY <1>1, <1>2, <1>5, <1>6, <1>7 DEF CandleIInv, feedVars

\* Every message and every step of a sweep keep the invariant.
LEMMA CandleInductive == CandleIInv /\ [CandleNext]_candleVars => CandleIInv'
<1> SUFFICES ASSUME CandleIInv, [CandleNext]_candleVars PROVE CandleIInv'
  OBVIOUS
<1> USE CandlesAssumption
<1>1. ASSUME NEW from \in 1 .. MaxMessages, CandleGenerated(from) PROVE CandleIInv'
  BY <1>1, CandleGeneratedKeeps
<1>2. ASSUME NEW m \in Maxlens, SetMaxlen(m) PROVE CandleIInv'
  BY <1>2, ResizedKeeps
<1>3. CASE SweepBegins
  <2>1. CandleTypeOK' /\ LiveIsRecent' /\ Sent(buffer)' /\ Sent(scanned)' /\ NewestFirst'
    BY <1>3 DEF CandleIInv, CandleTypeOK, SweepBegins, feedVars, LiveIsRecent, Sent, NewestFirst
  <2>2. scanned' \in Seq(BufferEntries) /\ scannedMax' \in Maxlens /\ Len(scanned') <= scannedMax'
    BY <1>3 DEF CandleIInv, CandleTypeOK, SweepBegins, BufferEntries
  <2>3. cutoff' \in Int /\ cutoff' < clock' /\ opened' <= messages'
    BY <1>3 DEF CandleIInv, CandleTypeOK, SweepBegins, feedVars
  <2>4. Descending(scanned)' /\ SweptIsGone' /\ (sweep = "storing" => After(scanned))'
    BY <1>3 DEF CandleIInv, SweepBegins, Descending, SweptIsGone, NewestFirst
  <2> QED
    BY <2>1, <2>2, <2>3, <2>4 DEF CandleIInv
<1>4. CASE SweepRaises
  BY <1>4 DEF CandleIInv, CandleTypeOK, SweepRaises, feedVars, LiveIsRecent, Sent, NewestFirst,
              Descending, SweptIsGone, After
<1>5. CASE SweepFilters
  BY <1>5, FilteredKeeps
<1>6. CASE SweepStores
  <2>1. /\ scanned \in Seq(BufferEntries) /\ scannedMax \in Maxlens /\ Len(scanned) <= scannedMax
        /\ After(scanned) /\ Sent(scanned) /\ Descending(scanned)
        /\ buffer' = scanned /\ maxlen' = scannedMax /\ scanned' = <<>> /\ scannedMax' = scannedMax
        /\ UNCHANGED <<feedVars, cutoff>> /\ sweep' = "resting" /\ hit' = "no"
    BY <1>6 DEF CandleIInv, SweepStores
  <2>2. CandleTypeOK' /\ LiveIsRecent'
    BY <2>1 DEF CandleIInv, CandleTypeOK, feedVars, LiveIsRecent, BufferEntries
  <2>3. Sent(buffer)' /\ NewestFirst' /\ SweptIsGone'
    BY <2>1 DEF Sent, NewestFirst, Descending, After, SweptIsGone, feedVars
  <2>4. scanned' \in Seq(BufferEntries) /\ Len(scanned') <= scannedMax' /\ Sent(scanned)' /\ Descending(scanned)'
    BY <2>1 DEF Sent, Descending
  <2> QED
    BY <2>1, <2>2, <2>3, <2>4 DEF CandleIInv, feedVars
<1>7. CASE ClockTicks
  <2>1. clock' \in 0 .. MaxClock /\ cutoff' \in Int /\ cutoff' < clock'
    BY <1>7 DEF CandleIInv, CandleTypeOK, ClockTicks, sweepVars
  <2> QED
    BY <1>7, <2>1 DEF CandleIInv, CandleTypeOK, ClockTicks, sweepVars, LiveIsRecent, Sent, NewestFirst,
              Descending, SweptIsGone, After
<1>8. CASE UNCHANGED candleVars
  BY <1>8 DEF CandleIInv, CandleTypeOK, candleVars, LiveIsRecent, Sent, NewestFirst,
              Descending, SweptIsGone, After
<1> QED
  BY <1>1, <1>2, <1>3, <1>4, <1>5, <1>6, <1>7, <1>8 DEF CandleNext

\* CandlesAreRecent: both stores of candle_cache.py and of the feed keep the newest
\* candles, whatever the limits are, and whenever a sweep runs.
THEOREM CandlesStayRecent == CandleSpec => [](CandleTypeOK /\ CandlesAreRecent)
<1>1. CandleIInv => CandleTypeOK /\ CandlesAreRecent
  BY DEF CandleIInv, CandlesAreRecent
<1> QED
  BY CandleInitial, CandleInductive, <1>1, PTL DEF CandleSpec

-----------------------------------------------------------------------------
(* CloseAll *)

\* A worker is past its request.
Past     == {"waits", "woken", "closed", "failed"}
\* The positions whose request has been answered.
Answered == {p \in Held : job[p] \in Past} \ asked

\* The flag success is the last answer's, and who sees it as true has seen an answer: if
\* some position was closed then one of the answers was a success, and if some close
\* failed one was a failure, unless an answer was late.
CloseAllIInv ==
  /\ CloseAllTypeOK
  /\ wanted \in Seq(Held)
  /\ \A p \in Held : job[p] # "none" <=> p \in ToSet(wanted)
  /\ \A p \in asked : job[p] \in Past
  /\ really \subseteq Answered
  /\ signal /\ (\E p \in Held : job[p] \in Past \cup {"cleared"}) => Answered # {}
  /\ Answered # {} => IF success THEN really # {} ELSE Answered \ really # {}
  /\ ~late => \A p \in Held :
       /\ job[p] \in {"woken", "closed", "failed"} => Answered # {}
       /\ job[p] = "closed" => really # {}
       /\ job[p] = "failed" => Answered \ really # {}
  /\ report.outcome = "returned" =>
       /\ wanted # <<>>
       /\ \A p \in ToSet(wanted) : job[p] \in {"closed", "failed"}
       /\ report.closed # <<>> <=> \E p \in ToSet(wanted) : job[p] = "closed"
       /\ report.failed # <<>> <=> \E p \in ToSet(wanted) : job[p] = "failed"

\* No position is asked for before the call.
LEMMA CloseAllInitial == CloseAllInit => CloseAllIInv
<1> SUFFICES ASSUME CloseAllInit PROVE CloseAllIInv
  OBVIOUS
<1> USE CloseAllAssumption
<1>1. wanted = <<>> /\ ToSet(<<>>) = {} /\ report = Unreported
  BY DEF CloseAllInit, ToSet
<1>2. CloseAllTypeOK /\ wanted \in Seq(Held) /\ ToSet(wanted) = {} /\ report.outcome # "returned"
  <2>1. report.outcome = "none"
    BY <1>1 DEF Unreported
  <2>2. wanted \in Seq(Held) /\ ToSet(wanted) = {}
    BY <1>1
  <2>3. job \in [Held -> {"none"}] /\ asked = {} /\ really = {} /\ late = FALSE
        /\ success \in BOOLEAN /\ signal \in BOOLEAN
    BY DEF CloseAllInit
  <2> QED
    BY <2>1, <2>2, <2>3 DEF CloseAllTypeOK
<1>3. \A p \in Held : job[p] = "none"
  BY DEF CloseAllInit
<1>4. asked = {} /\ really = {} /\ Answered = {}
  BY <1>3 DEF CloseAllInit, Answered, Past
<1> QED
  BY <1>2, <1>3, <1>4 DEF CloseAllIInv, Past

\* Every step of a worker, of the broker and of the caller keeps the invariant.
LEMMA CloseAllInductive == CloseAllIInv /\ [CloseAllNext]_closeAllVars => CloseAllIInv'
<1> SUFFICES ASSUME CloseAllIInv, [CloseAllNext]_closeAllVars PROVE CloseAllIInv'
  OBVIOUS
<1> USE CloseAllAssumption
<1>1. ASSUME NEW some \in SUBSET Held, CloseAllPositions(some) PROVE CloseAllIInv'
  <2> DEFINE places == {i \in DOMAIN Listed : Listed[i] \in some}
  <2>1. /\ wanted' = Those(Listed, places) /\ some # {} /\ wanted = <<>>
        /\ Listed \in Seq(Held) /\ places \subseteq DOMAIN Listed
        /\ UNCHANGED <<asked, success, signal, really, late, report>>
        /\ job' = [p \in Held |-> IF p \in some THEN "queued" ELSE "none"]
    BY <1>1 DEF CloseAllPositions, Held
  <2>2. {Listed[i] : i \in places} = some
    BY DEF Held, ToSet
  <2>3. wanted' \in Seq(Held) /\ ToSet(wanted') = some
    <3> HIDE DEF places
    <3>1. wanted' \in Seq(Held)
      BY <2>1, ThoseInOrder
    <3>2. ToSet(Those(Listed, places)) = {Listed[i] : i \in places}
      BY <2>1, ThoseElements
    <3> QED BY <2>1, <2>2, <3>1, <3>2
  <2>4. \A p \in Held : job[p] = "none"
    BY <2>1 DEF CloseAllIInv, ToSet
  <2>5. asked = {} /\ really = {} /\ Answered' = {}
    BY <2>1, <2>4 DEF CloseAllIInv, CloseAllTypeOK, Answered, Past
  <2>6. report'.outcome # "returned"
    BY <2>1 DEF CloseAllIInv
  <2>7. CloseAllTypeOK'
    BY <2>1, <2>3 DEF CloseAllIInv, CloseAllTypeOK
  <2> HIDE DEF places
  <2> QED
    BY <2>1, <2>3, <2>5, <2>6, <2>7 DEF CloseAllIInv, Past
<1> DEFINE Moves(p, stages) ==
             /\ \A q \in Held \ {p} : job'[q] = job[q]
             /\ job'[p] \in stages /\ job' \in [Held -> {"none", "queued", "starts", "cleared", "waits",
                                      "woken", "closed", "failed", "raised"}]
<1>2. ASSUME NEW p \in Held, StartsJob(p) \/ RaisesClosing(p) PROVE CloseAllIInv'
  <2>1. /\ Moves(p, {"starts", "raised"}) /\ job[p] \in {"queued", "starts"}
        /\ UNCHANGED <<wanted, asked, success, signal, really, late, report>>
    BY <1>2 DEF StartsJob, RaisesClosing, Goes, CloseAllIInv, CloseAllTypeOK
  <2>2. Answered' = Answered
    BY <2>1 DEF Answered, Past, CloseAllIInv, CloseAllTypeOK
  <2>3. report.outcome # "returned"
    BY <2>1 DEF CloseAllIInv
  <2> QED
    BY <2>1, <2>2, <2>3 DEF CloseAllIInv, CloseAllTypeOK, Past
<1>3. ASSUME NEW p \in Held, Clears(p) PROVE CloseAllIInv'
  <2>1. /\ Moves(p, {"cleared"}) /\ job[p] = "starts" /\ signal' = FALSE
        /\ UNCHANGED <<wanted, asked, success, really, late, report>>
    BY <1>3 DEF Clears, Goes, CloseAllIInv, CloseAllTypeOK
  <2>2. Answered' = Answered
    BY <2>1 DEF Answered, Past, CloseAllIInv, CloseAllTypeOK
  <2>3. report.outcome # "returned"
    BY <2>1 DEF CloseAllIInv
  <2> QED
    BY ZenonT(30), <2>1, <2>2, <2>3 DEF CloseAllIInv, CloseAllTypeOK, Past
<1>4. ASSUME NEW p \in Held, AsksToClose(p) PROVE CloseAllIInv'
  <2>1. /\ Moves(p, {"waits"}) /\ job[p] = "cleared" /\ asked' = asked \cup {p}
        /\ UNCHANGED <<wanted, success, signal, really, late, report>>
    BY <1>4 DEF AsksToClose, Goes, CloseAllIInv, CloseAllTypeOK
  <2>2. Answered' = Answered
    BY <2>1 DEF Answered, Past, CloseAllIInv, CloseAllTypeOK
  <2>3. report.outcome # "returned"
    BY <2>1 DEF CloseAllIInv
  <2> QED
    BY <2>1, <2>2, <2>3 DEF CloseAllIInv, CloseAllTypeOK, Past
<1>5. ASSUME NEW p \in Held, NEW ok \in BOOLEAN, AnswersClose(p, ok) PROVE CloseAllIInv'
  <2>1. /\ p \in asked /\ asked' = asked \ {p} /\ success' = ok /\ signal' = TRUE
        /\ really' = IF ok THEN really \cup {p} ELSE really
        /\ \A q \in Held : job'[q] = IF job[q] = "waits" THEN "woken" ELSE job[q]
        /\ job' = [q \in Held |-> IF job[q] = "waits" THEN "woken" ELSE job[q]]
        /\ UNCHANGED <<wanted, late, report>>
    BY <1>5 DEF AnswersClose
  <2>2. p \notin Answered /\ p \notin really /\ job[p] \in Past
    BY <2>1 DEF Answered, CloseAllIInv
  <2>3. Answered' = Answered \cup {p}
    BY <2>1, <2>2 DEF Answered, Past
  <2>4. CloseAllTypeOK' /\ really' \subseteq Answered'
    BY <2>1, <2>3 DEF CloseAllIInv, CloseAllTypeOK
  <2>5. IF success' THEN really' # {} ELSE Answered' \ really' # {}
    BY <2>1, <2>2, <2>3
  <2>6. ~late' => \A q \in Held :
          /\ job'[q] = "closed" => really' # {}
          /\ job'[q] = "failed" => Answered' \ really' # {}
    BY <2>1, <2>2, <2>3 DEF CloseAllIInv
  <2>7. \A q \in Held : job'[q] # "none" <=> q \in ToSet(wanted')
    BY <2>1 DEF CloseAllIInv
  <2>8. \A q \in asked' : job'[q] \in Past
    BY <2>1 DEF CloseAllIInv, CloseAllTypeOK, Past
  <2>9. (report.outcome = "returned" =>
       /\ wanted # <<>>
       /\ \A q \in ToSet(wanted) : job[q] \in {"closed", "failed"}
       /\ report.closed # <<>> <=> \E q \in ToSet(wanted) : job[q] = "closed"
       /\ report.failed # <<>> <=> \E q \in ToSet(wanted) : job[q] = "failed")'
    <3>1. ToSet(wanted) \subseteq Held
      BY DEF CloseAllIInv, CloseAllTypeOK
    <3> QED
      BY <3>1, <2>1 DEF CloseAllIInv
  <2>10. Answered' # {}
    BY <2>3
  <2> QED
    BY <2>1, <2>4, <2>5, <2>6, <2>7, <2>8, <2>9, <2>10 DEF CloseAllIInv
<1>6. ASSUME NEW p \in Held, GoesOn(p) PROVE CloseAllIInv'
  <2>1. /\ Moves(p, {"woken"}) /\ job[p] = "waits" /\ late' = (late \/ ~signal)
        /\ UNCHANGED <<wanted, asked, success, signal, really, report>>
    BY <1>6 DEF GoesOn, Goes, CloseAllIInv, CloseAllTypeOK
  <2>2. Answered' = Answered
    BY <2>1 DEF Answered, Past, CloseAllIInv, CloseAllTypeOK
  <2>3. report.outcome # "returned"
    BY <2>1 DEF CloseAllIInv
  <2>4. ~late' => Answered # {}
    BY <2>1 DEF CloseAllIInv, Past, CloseAllTypeOK
  <2> QED
    BY <2>1, <2>2, <2>3, <2>4 DEF CloseAllIInv, CloseAllTypeOK, Past
<1>7. ASSUME NEW p \in Held, ReadsResult(p) PROVE CloseAllIInv'
  <2>1. /\ Moves(p, {IF success THEN "closed" ELSE "failed"}) /\ job[p] = "woken"
        /\ UNCHANGED <<wanted, asked, success, signal, really, late, report>>
    BY <1>7 DEF ReadsResult, Goes, CloseAllIInv, CloseAllTypeOK
  <2>2. Answered' = Answered
    BY <2>1 DEF Answered, Past, CloseAllIInv, CloseAllTypeOK
  <2>3. report.outcome # "returned"
    BY <2>1 DEF CloseAllIInv
  <2>4. ~late => IF success THEN really # {} ELSE Answered \ really # {}
    BY <2>1 DEF CloseAllIInv
  <2>5. CloseAllTypeOK'
    BY <2>1 DEF CloseAllIInv, CloseAllTypeOK
  <2>6. ~late' => \A q \in Held :
          /\ job'[q] \in {"woken", "closed", "failed"} => Answered' # {}
          /\ job'[q] = "closed" => really' # {}
          /\ job'[q] = "failed" => Answered' \ really' # {}
    BY <2>1, <2>2, <2>4 DEF CloseAllIInv
  <2>7. \A q \in Held : job'[q] # "none" <=> q \in ToSet(wanted')
    BY <2>1 DEF CloseAllIInv
  <2>8. \A q \in asked' : job'[q] \in Past
    BY <2>1 DEF CloseAllIInv, CloseAllTypeOK, Past
  <2>9. signal' /\ (\E q \in Held : job'[q] \in Past \cup {"cleared"}) => Answered' # {}
    BY <2>1, <2>2 DEF CloseAllIInv, Past
  <2>10. really' \subseteq Answered' /\ (Answered' # {} => IF success' THEN really' # {} ELSE Answered' \ really' # {})
    BY <2>1, <2>2 DEF CloseAllIInv
  <2>11. report'.outcome # "returned" /\ wanted' \in Seq(Held)
    BY <2>1, <2>3 DEF CloseAllIInv
  <2> QED
    BY <2>5, <2>6, <2>7, <2>8, <2>9, <2>10, <2>11 DEF CloseAllIInv
<1>8. CASE ReturnsReport
  <2>1. UNCHANGED <<wanted, job, asked, success, signal, really, late>> /\ wanted \in Seq(Held) /\ wanted # <<>>
    BY <1>8 DEF ReturnsReport, CloseAllIInv
  <2>2. Answered' = Answered
    BY <2>1 DEF Answered
  <2> DEFINE at(w) == {i \in DOMAIN wanted : job[wanted[i]] = w}
  <2>3. CASE \E p \in ToSet(wanted) : job[p] = "raised"
    <3>1. report'.outcome = "raised"
      BY <1>8, <2>3 DEF ReturnsReport, Unreported
    <3> QED
      BY <3>1, <2>1, <2>2 DEF CloseAllIInv, CloseAllTypeOK
  <2>4. CASE ~ \E p \in ToSet(wanted) : job[p] = "raised"
    <3>1. /\ report' = [outcome |-> "returned", closed |-> Those(wanted, at("closed")),
                        failed |-> Those(wanted, at("failed"))]
          /\ \A p \in ToSet(wanted) : job[p] \in {"closed", "failed"}
      BY <1>8, <2>4 DEF ReturnsReport
    <3>2. \A w : at(w) \subseteq DOMAIN wanted
      OBVIOUS
    <3>3. \A w : at(w) # {} <=> \E p \in ToSet(wanted) : job[p] = w
      BY DEF ToSet
    <3> HIDE DEF at
    <3>4. /\ report'.closed # <<>> <=> \E p \in ToSet(wanted) : job[p] = "closed"
          /\ report'.failed # <<>> <=> \E p \in ToSet(wanted) : job[p] = "failed"
          /\ report'.outcome = "returned"
      BY <3>1, <3>2, <3>3, <2>1, ThoseElements
    <3> QED
      BY <3>1, <3>4, <2>1, <2>2 DEF CloseAllIInv, CloseAllTypeOK
  <2> QED
    BY <2>3, <2>4
<1>9. CASE UNCHANGED closeAllVars
  BY <1>9 DEF closeAllVars, CloseAllIInv, CloseAllTypeOK, Answered
<1> QED
  BY <1>1, <1>2, <1>3, <1>4, <1>5, <1>6, <1>7, <1>8, <1>9 DEF CloseAllNext, WorkerStep

\* The report was made of the workers' results.
LEMMA CloseAllImplies == CloseAllIInv => ReportIsBacked
<1> SUFFICES ASSUME CloseAllIInv PROVE ReportIsBacked
  OBVIOUS
<1>1. Answered \subseteq ToSet(wanted)
  BY DEF CloseAllIInv, Answered, Past
<1>2. AloneIsTrue
  <2> SUFFICES ASSUME report.outcome = "returned", Len(wanted) = 1, ~late
               PROVE  (report.closed # <<>>) = (ToSet(wanted) \subseteq really)
    BY DEF AloneIsTrue
  <2>1. ToSet(wanted) = {wanted[1]} /\ wanted[1] \in Held
    BY DEF CloseAllIInv, ToSet
  <2>2. job[wanted[1]] \in {"closed", "failed"}
    BY <2>1 DEF CloseAllIInv
  <2>3. CASE job[wanted[1]] = "closed"
    BY <2>1, <2>3, <1>1 DEF CloseAllIInv
  <2>4. CASE job[wanted[1]] = "failed"
    BY <2>1, <2>4, <1>1 DEF CloseAllIInv
  <2> QED
    BY <2>2, <2>3, <2>4
<1>3. SuccessIsSomebodys
  BY <1>1 DEF CloseAllIInv, CloseAllTypeOK, SuccessIsSomebodys
<1> QED
  BY <1>2, <1>3 DEF ReportIsBacked

\* ReportIsBacked: what close_all_positions() reports closed has an answer behind it,
\* for any list of positions and any pool of workers.
THEOREM ReportStaysBacked == CloseAllSpec => [](CloseAllTypeOK /\ ReportIsBacked)
<1>1. CloseAllIInv => CloseAllTypeOK
  BY DEF CloseAllIInv
<1> QED
  BY CloseAllInitial, CloseAllInductive, CloseAllImplies, <1>1, PTL DEF CloseAllSpec

-----------------------------------------------------------------------------
(* OpenTimes *)

\* The number of assets.
Amount == Len(Assets)

\* Where the elements of two lists are in the two of them joined.
LEMMA Concatenated ==
  ASSUME NEW S, NEW s \in Seq(S), NEW t \in Seq(S)
  PROVE  /\ s \o t \in Seq(S) /\ Len(s \o t) = Len(s) + Len(t)
         /\ \A i \in 1 .. Len(s) : (s \o t)[i] = s[i]
         /\ \A i \in 1 .. Len(t) : (s \o t)[Len(s) + i] = t[i]
<1> DEFINE u == s \o t
<1>1. Len(s) \in Nat /\ Len(t) \in Nat
  BY LenProperties
<1>2. /\ u \in Seq(S) /\ Len(u) = Len(s) + Len(t)
      /\ \A i \in 1 .. Len(s) + Len(t) : u[i] = IF i <= Len(s) THEN s[i] ELSE t[i - Len(s)]
  BY ConcatProperties
<1> HIDE DEF u
<1>3. \A i \in 1 .. Len(s) : u[i] = s[i]
  BY <1>1, <1>2
<1>4. \A i \in 1 .. Len(t) : u[Len(s) + i] = t[i]
  <2> SUFFICES ASSUME NEW i \in 1 .. Len(t) PROVE u[Len(s) + i] = t[i]
    OBVIOUS
  <2>1. /\ Len(s) + i \in 1 .. Len(s) + Len(t) /\ ~ (Len(s) + i <= Len(s))
        /\ Len(s) + i - Len(s) = i
    BY <1>1
  <2> QED
    BY <1>2, <2>1
<1> QED
  BY <1>2, <1>3, <1>4 DEF u

\* The entries are written kind after kind, the second version's first.
LEMMA EntriesInOrder ==
  /\ Amount \in Nat /\ DOMAIN Assets = 1 .. Amount /\ \A i \in 1 .. Amount : Assets[i] \in Named
  /\ Len(Entries) = 4 * Amount
  /\ \A i \in 1 .. Amount :
       /\ Entries[i] = [v |-> "v2", kind |-> "binary", asset |-> Assets[i]]
       /\ Entries[Amount + i] = [v |-> "v2", kind |-> "turbo", asset |-> Assets[i]]
       /\ Entries[2 * Amount + i] = [v |-> "v1", kind |-> "binary", asset |-> Assets[i]]
       /\ Entries[3 * Amount + i] = [v |-> "v1", kind |-> "turbo", asset |-> Assets[i]]
<1> DEFINE E == [v : {"v1", "v2"}, kind : OptionKinds, asset : Named]
           of(v, kind) == [i \in DOMAIN Assets |-> [v |-> v, kind |-> kind, asset |-> Assets[i]]]
<1>1. Amount \in Nat /\ DOMAIN Assets = 1 .. Amount /\ \A i \in 1 .. Amount : Assets[i] \in Named
  BY SourcesAssumption, LenProperties, ElementOfSeq DEF Amount
<1>2. ASSUME NEW v \in {"v1", "v2"}, NEW kind \in OptionKinds
      PROVE  /\ of(v, kind) \in Seq(E) /\ Len(of(v, kind)) = Amount
             /\ \A i \in 1 .. Amount : of(v, kind)[i] = [v |-> v, kind |-> kind, asset |-> Assets[i]]
  BY <1>1
<1> DEFINE a == of("v2", "binary")
           b == of("v2", "turbo")
           c == of("v1", "binary")
           d == of("v1", "turbo")
<1>3. Entries = ((a \o b) \o c) \o d
  BY DEF Entries
<1>4. /\ a \in Seq(E) /\ b \in Seq(E) /\ c \in Seq(E) /\ d \in Seq(E)
      /\ Len(a) = Amount /\ Len(b) = Amount /\ Len(c) = Amount /\ Len(d) = Amount
      /\ \A i \in 1 .. Amount :
           /\ a[i] = [v |-> "v2", kind |-> "binary", asset |-> Assets[i]]
           /\ b[i] = [v |-> "v2", kind |-> "turbo", asset |-> Assets[i]]
           /\ c[i] = [v |-> "v1", kind |-> "binary", asset |-> Assets[i]]
           /\ d[i] = [v |-> "v1", kind |-> "turbo", asset |-> Assets[i]]
  <2> HIDE DEF of
  <2> QED BY <1>2 DEF OptionKinds
<1> HIDE DEF a, b, c, d, E
<1>5. /\ a \o b \in Seq(E) /\ Len(a \o b) = 2 * Amount
      /\ \A i \in 1 .. Amount : (a \o b)[i] = a[i] /\ (a \o b)[Amount + i] = b[i]
  <2>1. a \in Seq(E) /\ b \in Seq(E)
    BY <1>4
  <2>2. /\ a \o b \in Seq(E) /\ Len(a \o b) = Len(a) + Len(b)
        /\ \A i \in 1 .. Len(a) : (a \o b)[i] = a[i]
        /\ \A i \in 1 .. Len(b) : (a \o b)[Len(a) + i] = b[i]
    BY <2>1, Concatenated
  <2> QED
    BY <2>2, <1>1, <1>4
<1> DEFINE ab == a \o b
<1> HIDE DEF ab
<1>6. /\ ab \o c \in Seq(E) /\ Len(ab \o c) = 3 * Amount
      /\ \A i \in 1 .. Amount : (ab \o c)[2 * Amount + i] = c[i]
      /\ \A i \in 1 .. 2 * Amount : (ab \o c)[i] = ab[i]
  <2>1. c \in Seq(E)
    BY <1>4
  <2>2. ab \in Seq(E) /\ Len(ab) = 2 * Amount
    BY <1>5 DEF ab
  <2>3. ab \in Seq(E)
    BY <2>2
  <2>4. /\ ab \o c \in Seq(E) /\ Len(ab \o c) = Len(ab) + Len(c)
        /\ \A i \in 1 .. Len(ab) : (ab \o c)[i] = ab[i]
        /\ \A i \in 1 .. Len(c) : (ab \o c)[Len(ab) + i] = c[i]
    BY <2>1, <2>3, Concatenated
  <2> QED
    BY <2>2, <2>4, <1>1, <1>4
<1> DEFINE abc == ab \o c
<1> HIDE DEF abc
<1>7. /\ Len(abc \o d) = 4 * Amount
      /\ \A i \in 1 .. Amount : (abc \o d)[3 * Amount + i] = d[i]
      /\ \A i \in 1 .. 3 * Amount : (abc \o d)[i] = abc[i]
  <2>1. d \in Seq(E)
    BY <1>4
  <2>2. abc \in Seq(E) /\ Len(abc) = 3 * Amount
    BY <1>6 DEF abc
  <2>3. abc \in Seq(E)
    BY <2>2
  <2>4. /\ abc \o d \in Seq(E) /\ Len(abc \o d) = Len(abc) + Len(d)
        /\ \A i \in 1 .. Len(abc) : (abc \o d)[i] = abc[i]
        /\ \A i \in 1 .. Len(d) : (abc \o d)[Len(abc) + i] = d[i]
    BY <2>1, <2>3, Concatenated
  <2> QED
    BY <2>2, <2>4, <1>1, <1>4
<1>8. Entries = abc \o d
  BY <1>3 DEF ab, abc
<1>9. ASSUME NEW i \in 1 .. Amount
      PROVE  /\ Entries[i] = a[i] /\ Entries[Amount + i] = b[i]
             /\ Entries[2 * Amount + i] = c[i] /\ Entries[3 * Amount + i] = d[i]
  <2>1. i \in 1 .. 3 * Amount /\ Amount + i \in 1 .. 3 * Amount /\ 2 * Amount + i \in 1 .. 3 * Amount
    BY <1>1
  <2>2. i \in 1 .. 2 * Amount /\ Amount + i \in 1 .. 2 * Amount
    BY <1>1
  <2> QED
    BY <2>1, <2>2, <1>5, <1>6, <1>7, <1>8 DEF ab, abc
<1> QED
  BY <1>1, <1>4, <1>7, <1>8, <1>9

\* The entry of a version, a kind and an asset is written.
Written(v, k, a) == \E i \in 1 .. entry : Entries[i] = [v |-> v, kind |-> k, asset |-> a]

\* What the entries written so far say of an asset, the first version over the second.
WordSoFar(k, a) ==
  IF Written("v1", k, a) /\ Says(source.v1[k][a]) THEN source.v1[k][a]
  ELSE IF Written("v2", k, a) THEN source.v2[k][a] ELSE "none"

\* Some digital underlying is listed as open.
OpenListed == \E a \in Named : StandsOpen(source.digital[a])

\* Something the server said stands behind an open digital option.
Backed(a) ==
  \/ StandsOpen(source.digital[a])
  \/ /\ ~ OpenListed
     /\ \E k \in OptionKinds : StandsOpen(source.v2[k][a]) \/ StandsOpen(source.v1[k][a])

\* The table is a function of the entries written so far and of what the threads of
\* digital options and of instruments have done, whatever their order.
OpenTimeIInv ==
  /\ OpenTimeTypeOK
  /\ \A k \in OptionKinds, a \in Named : table[k][a] = WordSoFar(k, a)
  /\ digital = "asks" => table["digital"] = NoWord
  /\ digital # "asks" => \A a \in Named : table["digital"][a] \in {source.digital[a], "open"}
  /\ digital # "asks" /\ OpenListed => digital = "done" /\ table["digital"] = source.digital
  /\ \A a \in Named : StandsOpen(table["digital"][a]) => Backed(a)
  /\ other = "done" => table["ins"] = get_instruments
  /\ joined => entry = Len(Entries) /\ digital \in {"done", "dead"} /\ other = "done"

\* Which entry stands where, the second version's before the first's.
LEMMA EntryAt ==
  ASSUME NEW i \in 1 .. Len(Entries)
  PROVE  /\ Entries[i] \in [v : {"v1", "v2"}, kind : OptionKinds, asset : Named]
         /\ Entries[i].v = "v2" <=> i <= 2 * Amount
<1>1. Amount \in Nat /\ i \in 1 .. 4 * Amount
  BY EntriesInOrder
<1>2. CASE i <= Amount
  <2>1. i \in 1 .. Amount /\ i <= 2 * Amount
    BY <1>1, <1>2
  <2>2. Entries[i] = [v |-> "v2", kind |-> "binary", asset |-> Assets[i]] /\ Assets[i] \in Named
    BY <2>1, EntriesInOrder
  <2> QED
    BY <1>2, <2>1, <2>2 DEF OptionKinds
<1>3. CASE Amount < i /\ i <= 2 * Amount
  <2>1. i - Amount \in 1 .. Amount /\ Amount + (i - Amount) = i
    BY <1>1, <1>3
  <2>2. Entries[i] = [v |-> "v2", kind |-> "turbo", asset |-> Assets[i - Amount]] /\ Assets[i - Amount] \in Named
    BY <2>1, EntriesInOrder
  <2> QED
    BY <1>3, <2>1, <2>2 DEF OptionKinds
<1>4. CASE 2 * Amount < i /\ i <= 3 * Amount
  <2>1. i - 2 * Amount \in 1 .. Amount /\ 2 * Amount + (i - 2 * Amount) = i /\ ~ (i <= 2 * Amount)
    BY <1>1, <1>4
  <2>2. Entries[i] = [v |-> "v1", kind |-> "binary", asset |-> Assets[i - 2 * Amount]] /\ Assets[i - 2 * Amount] \in Named
    BY <2>1, EntriesInOrder
  <2> QED
    BY <1>4, <2>1, <2>2 DEF OptionKinds
<1>5. CASE 3 * Amount < i
  <2>1. i - 3 * Amount \in 1 .. Amount /\ 3 * Amount + (i - 3 * Amount) = i /\ ~ (i <= 2 * Amount)
    BY <1>1, <1>5
  <2>2. Entries[i] = [v |-> "v1", kind |-> "turbo", asset |-> Assets[i - 3 * Amount]] /\ Assets[i - 3 * Amount] \in Named
    BY <2>1, EntriesInOrder
  <2> QED
    BY <1>5, <2>1, <2>2 DEF OptionKinds
<1> QED
  BY <1>1, <1>2, <1>3, <1>4, <1>5

\* Each version has an entry for each kind and asset.
LEMMA EveryEntry ==
  ASSUME NEW v \in {"v1", "v2"}, NEW k \in OptionKinds, NEW a \in Named
  PROVE  \E i \in 1 .. Len(Entries) : Entries[i] = [v |-> v, kind |-> k, asset |-> a]
<1>1. PICK j \in 1 .. Amount : Assets[j] = a
  BY EntriesInOrder DEF Named, ToSet
<1>2. /\ Amount \in Nat
      /\ j \in 1 .. 4 * Amount /\ Amount + j \in 1 .. 4 * Amount
      /\ 2 * Amount + j \in 1 .. 4 * Amount /\ 3 * Amount + j \in 1 .. 4 * Amount
  BY <1>1, EntriesInOrder
<1> QED
  BY <1>1, <1>2, EntriesInOrder DEF OptionKinds

\* What the server says of an asset is a word.
LEMMA SourceType ==
  ASSUME NEW s \in Sources
  PROVE  /\ \A k \in OptionKinds : s.v1[k] \in [Named -> Words] /\ s.v2[k] \in [Named -> Words]
         /\ s.digital \in [Named -> Words] /\ s.ws \in [Named -> Words]
         /\ \A k \in OptionKinds, a \in Named : s.v1[k][a] \in Words /\ s.v2[k][a] \in Words
         /\ \A a \in Named : s.digital[a] \in Words
BY SourcesAssumption

\* Whatever comes first, of an instrument there is a word.
LEMMA InstrumentsType ==
  ASSUME source \in Sources
  PROVE  get_instruments \in [Named -> Words]
<1>1. NoWord \in [Named -> Words]
  BY DEF NoWord, Words
<1>2. InitInstruments("v1") \in [Named -> Words] /\ InitInstruments("v2") \in [Named -> Words]
  <2>1. \A k \in OptionKinds, a \in Named : source["v1"][k][a] \in Words /\ source["v2"][k][a] \in Words
    BY SourceType
  <2> QED
    BY <2>1 DEF InitInstruments, OptionKinds
<1>3. source.ws \in [Named -> Words]
  BY SourceType
<1> QED
  BY <1>1, <1>2, <1>3 DEF get_instruments, FirstThatSays

\* The table is empty before the first entry.
LEMMA OpenTimeInitial == OpenTimeInit => OpenTimeIInv
<1> SUFFICES ASSUME OpenTimeInit PROVE OpenTimeIInv
  OBVIOUS
<1>1. Len(Entries) \in Nat
  BY EntriesInOrder
<1>2. OpenTimeTypeOK
  BY <1>1 DEF OpenTimeInit, OpenTimeTypeOK, NoWord, Words
<1>3. \A k \in OptionKinds, a \in Named : table[k][a] = WordSoFar(k, a)
  BY DEF OpenTimeInit, WordSoFar, Written, NoWord
<1>4. table["digital"] = NoWord /\ \A a \in Named : ~ StandsOpen(table["digital"][a])
  BY DEF OpenTimeInit, NoWord, StandsOpen
<1> QED
  BY <1>2, <1>3, <1>4 DEF OpenTimeIInv, OpenTimeInit

\* Writing an entry keeps the table at the words written so far.
LEMMA EntryWritten ==
  ASSUME OpenTimeIInv, WritesEntry
  PROVE  OpenTimeIInv'
<1> DEFINE e == Entries[entry + 1]
<1>1. /\ entry \in Nat /\ entry + 1 \in 1 .. Len(Entries) /\ entry' = entry + 1 /\ Len(Entries) \in Nat
      /\ UNCHANGED <<source, digital, other, joined>> /\ source \in Sources
      /\ table' = IF Says(Word(e)) THEN [table EXCEPT ![e.kind][e.asset] = Word(e)] ELSE table
  BY EntriesInOrder DEF OpenTimeIInv, OpenTimeTypeOK, WritesEntry
<1>2. /\ e.v \in {"v1", "v2"} /\ e.kind \in OptionKinds /\ e.asset \in Named
      /\ e = [v |-> e.v, kind |-> e.kind, asset |-> e.asset]
      /\ e.v = "v2" <=> entry + 1 <= 2 * Amount
  <2>1. e \in [v : {"v1", "v2"}, kind : OptionKinds, asset : Named]
    BY <1>1, EntryAt
  <2>2. e.v = "v2" <=> entry + 1 <= 2 * Amount
    BY <1>1, EntryAt
  <2> HIDE DEF e
  <2> QED
    BY <2>1, <2>2
<1>3. /\ e.v = "v1" => Word(e) = source.v1[e.kind][e.asset]
      /\ e.v = "v2" => Word(e) = source.v2[e.kind][e.asset]
  <2> HIDE DEF e
  <2> QED BY DEF Word
<1>4. Word(e) \in Words
  <2> HIDE DEF e
  <2> QED BY <1>1, <1>2, <1>3, SourceType
<1>5. \A v, k, a : Written(v, k, a)' <=> Written(v, k, a) \/ e = [v |-> v, kind |-> k, asset |-> a]
  <2>1. 1 .. entry + 1 = 1 .. entry \cup {entry + 1}
    BY <1>1
  <2>2. \A i \in 1 .. entry + 1 : Entries[i]' = Entries[i]
    BY DEF Entries
  <2> QED
    BY <1>1, <2>1, <2>2 DEF Written
<1>6. \A k, a : e.v = "v2" => ~ Written("v1", k, a)
  <2> SUFFICES ASSUME e.v = "v2", NEW k, NEW a, NEW i \in 1 .. entry,
                      Entries[i] = [v |-> "v1", kind |-> k, asset |-> a]
               PROVE  FALSE
    BY DEF Written
  <2>1. Amount \in Nat /\ i \in 1 .. Len(Entries) /\ i <= 2 * Amount
    BY <1>1, <1>2, EntriesInOrder
  <2>2. Entries[i].v = "v2"
    BY <2>1, EntryAt
  <2> QED
    BY <2>2
<1> HIDE DEF e
<1>7. table' \in [OptionKinds \cup {"digital", "ins"} -> [Named -> Words]]
      /\ table'["digital"] = table["digital"] /\ table'["ins"] = table["ins"]
  <2>1. table \in [OptionKinds \cup {"digital", "ins"} -> [Named -> Words]]
    BY DEF OpenTimeIInv, OpenTimeTypeOK
  <2>2. CASE Says(Word(e))
    <3>1. table' = [table EXCEPT ![e.kind] = [table[e.kind] EXCEPT ![e.asset] = Word(e)]]
      BY <1>1, <2>2
    <3>2. [table[e.kind] EXCEPT ![e.asset] = Word(e)] \in [Named -> Words]
      BY <1>2, <1>4, <2>1
    <3> QED
      BY <1>2, <2>1, <3>1, <3>2 DEF OptionKinds
  <2>3. CASE ~ Says(Word(e))
    BY <1>1, <2>1, <2>3
  <2> QED
    BY <2>2, <2>3
<1>8. ASSUME NEW k \in OptionKinds, NEW a \in Named
      PROVE  table'[k][a] = WordSoFar(k, a)'
  <2>1. table[k][a] = WordSoFar(k, a)
    BY DEF OpenTimeIInv
  <2>2. table \in [OptionKinds \cup {"digital", "ins"} -> [Named -> Words]]
    BY DEF OpenTimeIInv, OpenTimeTypeOK
  <2>3. table'[k][a] = IF e.kind = k /\ e.asset = a /\ Says(Word(e)) THEN Word(e) ELSE table[k][a]
    BY <1>1, <1>2, <2>2
  <2>4. \A v : e = [v |-> v, kind |-> k, asset |-> a] <=> e.v = v /\ e.kind = k /\ e.asset = a
    BY <1>2
  <2>5. CASE e.kind = k /\ e.asset = a /\ e.v = "v1"
    BY <1>1, <1>3, <1>5, <2>1, <2>3, <2>4, <2>5 DEF WordSoFar
  <2>6. CASE e.kind = k /\ e.asset = a /\ e.v = "v2"
    <3>1. ~ Written("v1", k, a) /\ ~ Written("v1", k, a)' /\ Written("v2", k, a)'
      BY <1>5, <1>6, <2>4, <2>6
    <3>2. WordSoFar(k, a)' = source.v2[k][a]
      BY <3>1, <1>1 DEF WordSoFar
    <3>3. table[k][a] \in {"none", source.v2[k][a]}
      BY <2>1, <3>1 DEF WordSoFar
    <3>4. Word(e) = source.v2[k][a]
      BY <1>3, <2>6
    <3> QED
      BY <2>3, <2>1, <2>6, <3>1, <3>2, <3>3, <3>4 DEF WordSoFar, Says
  <2>7. CASE ~ (e.kind = k /\ e.asset = a)
    BY <1>1, <1>5, <2>1, <2>3, <2>4, <2>7 DEF WordSoFar
  <2> QED
    BY <1>2, <2>5, <2>6, <2>7
<1>9. get_instruments' = get_instruments /\ \A a : Backed(a)' = Backed(a) /\ OpenListed' = OpenListed
  BY <1>1 DEF get_instruments, FirstThatSays, InitInstruments, Backed, OpenListed
<1>10. entry' \in 0 .. Len(Entries) /\ ~joined /\ Len(Entries)' = Len(Entries)
  BY <1>1 DEF OpenTimeIInv, Entries
<1>11. OpenTimeTypeOK'
  BY <1>1, <1>7, <1>10 DEF OpenTimeIInv, OpenTimeTypeOK
<1>12. /\ (digital = "asks" => table["digital"] = NoWord)'
       /\ (digital # "asks" => \A a \in Named : table["digital"][a] \in {source.digital[a], "open"})'
       /\ (digital # "asks" /\ OpenListed => digital = "done" /\ table["digital"] = source.digital)'
       /\ (\A a \in Named : StandsOpen(table["digital"][a]) => Backed(a))'
       /\ (other = "done" => table["ins"] = get_instruments)'
       /\ ~ joined'
  BY <1>1, <1>7, <1>9, <1>10 DEF OpenTimeIInv, OpenTimeTypeOK
<1> QED
  BY <1>8, <1>11, <1>12 DEF OpenTimeIInv

\* A digital option takes the word of the binary or the turbo one.
LEMMA DigitalMirrored ==
  ASSUME OpenTimeIInv, NEW some \in SUBSET Named, digital \in OptionKinds,
         digital' \in OptionKinds \cup {"done", "dead"},
         table' = [table EXCEPT !["digital"] = Mirrored(digital, some)],
         UNCHANGED <<source, entry, other, joined>>
  PROVE  OpenTimeIInv'
<1> DEFINE list == Mirrored(digital, some)
<1>1. /\ table \in [OptionKinds \cup {"digital", "ins"} -> [Named -> Words]] /\ source \in Sources
      /\ digital \notin {"asks", "done", "dead"} /\ ~ joined /\ ~ OpenListed
  BY DEF OpenTimeIInv, OpenTimeTypeOK, OptionKinds
<1>2. \A a \in Named : list[a] = IF a \in some /\ StandsOpen(table[digital][a]) THEN "open"
                                 ELSE table["digital"][a]
  BY DEF Mirrored
<1>3. list \in [Named -> Words]
  <2>1. \A a \in Named : table["digital"][a] \in Words
    BY <1>1
  <2> QED
    BY <2>1 DEF Mirrored, Words
<1> HIDE DEF list
<1>4. /\ table'["digital"] = list /\ \A k \in OptionKinds \cup {"ins"} : table'[k] = table[k]
      /\ table' \in [OptionKinds \cup {"digital", "ins"} -> [Named -> Words]]
  <2>1. table' = [table EXCEPT !["digital"] = list]
    BY DEF list
  <2> QED
    BY <1>1, <1>3, <2>1 DEF OptionKinds
<1>5. /\ \A k, a : WordSoFar(k, a)' = WordSoFar(k, a)
      /\ \A a : Backed(a)' = Backed(a) /\ OpenListed' = OpenListed /\ get_instruments' = get_instruments
      /\ Len(Entries)' = Len(Entries)
  BY DEF WordSoFar, Written, Backed, OpenListed, get_instruments, FirstThatSays, InitInstruments, Entries
<1>6. \A a \in Named : list[a] \in {source.digital[a], "open"}
  BY <1>1, <1>2 DEF OpenTimeIInv
<1>7. ASSUME NEW a \in Named, StandsOpen(list[a]) PROVE Backed(a)
  <2>1. CASE a \in some /\ StandsOpen(table[digital][a])
    <3>1. StandsOpen(WordSoFar(digital, a))
      BY <2>1 DEF OpenTimeIInv
    <3>2. StandsOpen(source.v1[digital][a]) \/ StandsOpen(source.v2[digital][a])
      BY <3>1 DEF WordSoFar, StandsOpen
    <3> QED
      BY <3>2, <1>1 DEF Backed
  <2>2. CASE ~ (a \in some /\ StandsOpen(table[digital][a]))
    BY <1>2, <1>7, <2>2 DEF OpenTimeIInv
  <2> QED
    BY <2>1, <2>2
<1>8. OpenTimeTypeOK'
  BY <1>4, <1>5 DEF OpenTimeIInv, OpenTimeTypeOK
<1>9. \A k \in OptionKinds, a \in Named : table'[k][a] = WordSoFar(k, a)'
  BY <1>4, <1>5 DEF OpenTimeIInv
<1> QED
  BY <1>1, <1>4, <1>5, <1>6, <1>7, <1>8, <1>9 DEF OpenTimeIInv, OptionKinds

\* Every step of the three threads keeps the invariant.
LEMMA OpenTimeInductive == OpenTimeIInv /\ [OpenTimeNext]_openTimeVars => OpenTimeIInv'
<1> SUFFICES ASSUME OpenTimeIInv, [OpenTimeNext]_openTimeVars PROVE OpenTimeIInv'
  OBVIOUS
<1>1. CASE WritesEntry
  BY <1>1, EntryWritten
<1>2. CASE ListsDigital
  <2>1. /\ digital = "asks" /\ table' = [table EXCEPT !["digital"] = source.digital]
        /\ digital' = IF OpenListed THEN "done" ELSE "binary"
        /\ UNCHANGED <<source, entry, other, joined>>
        /\ table \in [OptionKinds \cup {"digital", "ins"} -> [Named -> Words]] /\ source \in Sources
        /\ ~ joined
    BY <1>2 DEF ListsDigital, OpenListed, OpenTimeIInv, OpenTimeTypeOK
  <2>2. /\ table'["digital"] = source.digital /\ \A k \in OptionKinds \cup {"ins"} : table'[k] = table[k]
        /\ table' \in [OptionKinds \cup {"digital", "ins"} -> [Named -> Words]]
    <3>1. source.digital \in [Named -> Words]
      BY <2>1, SourceType
    <3> QED
      BY <2>1, <3>1 DEF OptionKinds
  <2>3. /\ \A k, a : WordSoFar(k, a)' = WordSoFar(k, a)
        /\ \A a : Backed(a)' = Backed(a) /\ OpenListed' = OpenListed /\ get_instruments' = get_instruments
        /\ Len(Entries)' = Len(Entries)
    BY <2>1 DEF WordSoFar, Written, Backed, OpenListed, get_instruments, FirstThatSays, InitInstruments, Entries
  <2>4. OpenTimeTypeOK'
    BY <2>1, <2>2, <2>3 DEF OpenTimeIInv, OpenTimeTypeOK, OptionKinds
  <2>5. \A k \in OptionKinds, a \in Named : table'[k][a] = WordSoFar(k, a)'
    BY <2>2, <2>3 DEF OpenTimeIInv
  <2>6. \A a \in Named : StandsOpen(table'["digital"][a]) => Backed(a)'
    BY <2>2, <2>3 DEF Backed
  <2> QED
    BY <2>1, <2>2, <2>3, <2>4, <2>5, <2>6 DEF OpenTimeIInv, OptionKinds
<1>3. CASE Mirrors
  <2>1. /\ table' = [table EXCEPT !["digital"] = Mirrored(digital, Named)] /\ digital \in OptionKinds
        /\ digital' \in OptionKinds \cup {"done", "dead"} /\ UNCHANGED <<source, entry, other, joined>>
    BY <1>3 DEF Mirrors, OptionKinds
  <2> QED
    BY <2>1, DigitalMirrored
<1>4. CASE DiesMirroring
  <2>1. PICK some \in SUBSET Named : table' = [table EXCEPT !["digital"] = Mirrored(digital, some)]
    BY <1>4 DEF DiesMirroring
  <2>2. digital \in OptionKinds /\ digital' = "dead" /\ UNCHANGED <<source, entry, other, joined>>
    BY <1>4 DEF DiesMirroring
  <2> QED
    BY <2>1, <2>2, DigitalMirrored
<1>5. CASE ListsOther
  <2>1. /\ table' = [table EXCEPT !["ins"] = get_instruments] /\ other = "asks" /\ other' = "done"
        /\ UNCHANGED <<source, entry, digital, joined>>
        /\ table \in [OptionKinds \cup {"digital", "ins"} -> [Named -> Words]] /\ source \in Sources
        /\ ~ joined
    BY <1>5 DEF ListsOther, OpenTimeIInv, OpenTimeTypeOK
  <2>2. /\ table'["ins"] = get_instruments /\ \A k \in OptionKinds \cup {"digital"} : table'[k] = table[k]
        /\ table' \in [OptionKinds \cup {"digital", "ins"} -> [Named -> Words]]
    <3>1. get_instruments \in [Named -> Words]
      BY <2>1, InstrumentsType
    <3> QED
      BY <2>1, <3>1 DEF OptionKinds
  <2>3. /\ \A k, a : WordSoFar(k, a)' = WordSoFar(k, a)
        /\ \A a : Backed(a)' = Backed(a) /\ OpenListed' = OpenListed /\ get_instruments' = get_instruments
        /\ Len(Entries)' = Len(Entries)
    BY <2>1 DEF WordSoFar, Written, Backed, OpenListed, get_instruments, FirstThatSays, InitInstruments, Entries
  <2>4. OpenTimeTypeOK'
    BY <2>1, <2>2, <2>3 DEF OpenTimeIInv, OpenTimeTypeOK
  <2>5. \A k \in OptionKinds, a \in Named : table'[k][a] = WordSoFar(k, a)'
    BY <2>2, <2>3 DEF OpenTimeIInv
  <2> QED
    BY <2>1, <2>2, <2>3, <2>4, <2>5 DEF OpenTimeIInv
<1>6. CASE Joins \/ UNCHANGED openTimeVars
  <2>1. /\ UNCHANGED <<source, table, entry, digital, other>>
        /\ joined' => joined \/ (entry = Len(Entries) /\ digital \in {"done", "dead"} /\ other = "done")
    BY <1>6 DEF Joins, openTimeVars
  <2>2. /\ \A k, a : WordSoFar(k, a)' = WordSoFar(k, a)
        /\ \A a : Backed(a)' = Backed(a) /\ OpenListed' = OpenListed /\ get_instruments' = get_instruments
        /\ Len(Entries)' = Len(Entries)
    BY <2>1 DEF WordSoFar, Written, Backed, OpenListed, get_instruments, FirstThatSays, InitInstruments, Entries
  <2> QED
    BY <2>1, <2>2 DEF OpenTimeIInv, OpenTimeTypeOK
<1> QED
  BY <1>1, <1>2, <1>3, <1>4, <1>5, <1>6 DEF OpenTimeNext

\* After the threads are joined the table has all that was said.
LEMMA OpenTimeImplies == OpenTimeIInv => TableIsBacked
<1> SUFFICES ASSUME OpenTimeIInv PROVE TableIsBacked
  OBVIOUS
<1>1. source \in Sources
  BY DEF OpenTimeIInv, OpenTimeTypeOK
<1>2. LastWordStays
  <2> SUFFICES ASSUME joined, NEW k \in OptionKinds, NEW a \in Named
               PROVE  table[k][a] = IF Says(source.v1[k][a]) THEN source.v1[k][a] ELSE source.v2[k][a]
    BY DEF LastWordStays
  <2>1. Written("v1", k, a) /\ Written("v2", k, a)
    BY EveryEntry DEF OpenTimeIInv, Written
  <2>2. table[k][a] = WordSoFar(k, a)
    BY DEF OpenTimeIInv
  <2> QED
    BY <2>1, <2>2 DEF WordSoFar
<1>3. DigitalIsBacked
  <2> SUFFICES ASSUME NEW a \in Named
               PROVE  /\ StandsOpen(table["digital"][a]) => Backed(a)
                      /\ joined /\ Says(source.digital[a]) => Says(table["digital"][a])
                            /\ (StandsOpen(source.digital[a]) => StandsOpen(table["digital"][a]))
                      /\ StandsOpen(source.digital[a]) /\ joined => table["digital"] = source.digital
    BY DEF DigitalIsBacked, Backed, OpenListed
  <2>1. StandsOpen(table["digital"][a]) => Backed(a)
    BY DEF OpenTimeIInv
  <2>2. joined => digital # "asks" /\ table["digital"][a] \in {source.digital[a], "open"}
    BY DEF OpenTimeIInv
  <2>3. joined /\ StandsOpen(source.digital[a]) => table["digital"] = source.digital
    BY <2>2 DEF OpenTimeIInv, OpenListed
  <2> QED
    BY <2>1, <2>2, <2>3 DEF Says, StandsOpen
<1>4. InstrumentsFound
  <2> SUFFICES ASSUME joined, table["ins"] = NoWord
               PROVE  /\ source.ws = NoWord
                      /\ \A k \in OptionKinds : source.v2[k] = NoWord /\ source.v1[k] = NoWord
    BY DEF InstrumentsFound
  <2>1. get_instruments = NoWord
    BY DEF OpenTimeIInv
  <2>2. source.ws = NoWord /\ InitInstruments("v2") = NoWord /\ InitInstruments("v1") = NoWord
    BY <2>1 DEF get_instruments, FirstThatSays
  <2>3. ASSUME NEW v \in {"v1", "v2"}, InitInstruments(v) = NoWord, NEW a \in Named
        PROVE  source[v]["binary"][a] = "none" /\ source[v]["turbo"][a] = "none"
    <3>1. InitInstruments(v)[a] = "none"
      BY <2>3 DEF NoWord
    <3>2. InitInstruments(v)[a] = IF Says(source[v]["binary"][a]) THEN source[v]["binary"][a]
                                  ELSE source[v]["turbo"][a]
      BY DEF InitInstruments
    <3> QED
      BY <3>1, <3>2 DEF Says
  <2>4. \A k \in OptionKinds, a \in Named : source.v1[k][a] = "none" /\ source.v2[k][a] = "none"
    BY <2>2, <2>3 DEF OptionKinds
  <2>5. \A k \in OptionKinds : source.v1[k] \in [Named -> Words] /\ source.v2[k] \in [Named -> Words]
    BY <1>1, SourceType
  <2> QED
    BY <2>2, <2>4, <2>5 DEF NoWord
<1> QED
  BY <1>2, <1>3, <1>4 DEF TableIsBacked

\* TableIsBacked: get_all_open_time() reports open what the server said is open, for
\* any assets and whatever order its threads take.
THEOREM TableStaysBacked == OpenTimeSpec => [](OpenTimeTypeOK /\ TableIsBacked)
<1>1. OpenTimeIInv => OpenTimeTypeOK
  BY DEF OpenTimeIInv
<1> QED
  BY OpenTimeInitial, OpenTimeInductive, OpenTimeImplies, <1>1, PTL DEF OpenTimeSpec

-----------------------------------------------------------------------------
(* MultiOrder *)

\* An id, and not what stands for none.
Real(x)    == x \in MultiIds
\* The order was sent.
WasSent(o) == o[1] < round \/ (o[1] = round /\ \E i \in 1 .. placed : placing[i] = o[2])

\* Who has which id: those of the dictionary and those handed out are of orders that
\* were sent and have been answered, and nobody has another's.
OwnIds ==
  /\ \A o \in unanswered : WasSent(o)
  /\ \A k \in DOMAIN multi : Real(multi[k]) =>
       /\ WasSent(multi[k]) /\ multi[k] \notin unanswered
       /\ \A l \in DOMAIN multi : multi[l] = multi[k] => l = k
       /\ multiStage # "idle" => \A c \in DOMAIN handed : \A i \in DOMAIN handed[c] :
            handed[c][i] # multi[k]
  /\ \A c \in DOMAIN handed : \A i \in DOMAIN handed[c] : Real(handed[c][i]) =>
       /\ WasSent(handed[c][i]) /\ handed[c][i] \notin unanswered
       /\ \A d \in DOMAIN handed : \A j \in DOMAIN handed[d] :
            handed[d][j] = handed[c][i] => d = c /\ j = i

\* Before a call gave up, no answer of an earlier call is missing.
InCall ==
  /\ \A o \in unanswered : o[1] = round /\ multiStage # "idle"
  /\ multiStage # "idle" => \A k \in DOMAIN multi : Real(multi[k]) => multi[k][1] = round
  /\ \A c \in DOMAIN handed : \A i \in DOMAIN handed[c] : Real(handed[c][i]) => handed[c][i][1] = c

\* The number of orders answered in turn.
Done == placed - Len(queued)

\* Answered in turn, the first orders have their ids, and the others are queued.
InOrder ==
  IF multiStage = "idle" THEN queued = <<>> /\ unanswered = {}
  ELSE /\ Len(queued) <= placed
       /\ \A i \in 1 .. Len(queued) : queued[i] = placing[Done + i]
       /\ unanswered = {<<round, placing[i]>> : i \in Done + 1 .. placed}
       /\ placing = <<RawKey>> =>
            DOMAIN multi = {RawKey} /\ multi[RawKey] = (IF Done = 1 THEN <<round, RawKey>> ELSE NoId)
       /\ placing # <<RawKey>> =>
            DOMAIN multi = 1 .. Done /\ \A i \in 1 .. Done : multi[i] = <<round, i>>

\* Types, and what holds at each stage of a call.
MultiShape ==
  /\ MultiTypeOK
  /\ queued \in Seq(Keys)
  /\ multi \in [DOMAIN multi -> MultiIds \cup {NoId, Explained}]
  /\ multiStage = "sending" => placed < Len(placing)
  /\ multiStage = "waiting" => placed = Len(placing)
  /\ multiStage # "idle" => placing \in Batches /\ round \in 1 .. MaxRounds
  /\ multiStage # "idle" /\ placing = <<RawKey>> => RawKey \in DOMAIN multi
  /\ Len(handed) = IF multiStage = "idle" THEN round ELSE round - 1

\* PlacesAreKept needs that the orders are answered as they are queued (InOrder), and
\* IdsAreOwn that no id is in the dictionary, or handed out, before it is answered
\* (OwnIds) nor for another call (InCall).
MultiIInv ==
  /\ MultiShape /\ OwnIds
  /\ disturbed # "late" => InCall
  /\ disturbed = "no" => InOrder
  /\ PlacesAreKept

\* The orders of a call are numbered from one, or there is a single raw one.
LEMMA BatchShape ==
  ASSUME NEW b \in Batches
  PROVE  /\ b \in Seq(Keys) /\ Len(b) \in 1 .. MaxOrders
         /\ b = <<RawKey>> => Len(b) = 1 /\ b[1] = RawKey
         /\ b # <<RawKey>> => \A i \in 1 .. Len(b) : b[i] = i
<1>1. MaxOrders \in Nat \ {0} /\ RawKey \in Keys /\ RawKey = 0
  BY MultiAssumption DEF Keys, RawKey
<1>2. CASE b = <<RawKey>>
  BY <1>1, <1>2
<1>3. CASE b # <<RawKey>>
  <2>1. PICK n \in 1 .. MaxOrders : b = [i \in 1 .. n |-> i]
    BY <1>3 DEF Batches
  <2>2. \A i \in 1 .. n : i \in Keys
    BY <1>1 DEF Keys
  <2>3. b \in Seq(Keys) /\ Len(b) = n /\ \A i \in 1 .. n : b[i] = i
    BY <2>1, <2>2, <1>1
  <2> QED
    BY <2>3, <1>3
<1> QED
  BY <1>2, <1>3

\* No id is the placeholder of one that is missing.
LEMMA IdShape ==
  /\ NoId \notin MultiIds /\ Explained \notin MultiIds /\ NoId # Explained
  /\ \A o \in MultiIds : o = <<o[1], o[2]>> /\ o[1] \in 1 .. MaxRounds /\ o[2] \in Keys
BY MultiAssumption DEF NoId, Explained, MultiIds, Keys

\* The ids gathered, of all keys in their order: each is some key's, and no key's twice.
LEMMA GatheredIds ==
  ASSUME MultiShape, multiStage = "waiting"
  PROVE  /\ Gathered \in Seq(MultiIds \cup {NoId})
         /\ \A i \in 1 .. Len(Gathered) :
              \E k \in DOMAIN multi : Gathered[i] = IdOf(k)
         /\ \E at \in [1 .. Len(Gathered) -> DOMAIN multi] :
              /\ \A i \in 1 .. Len(Gathered) : Gathered[i] = IdOf(at[i])
              /\ \A i, j \in 1 .. Len(Gathered) : at[i] = at[j] => i = j
<1>1. \A k \in DOMAIN multi : IdOf(k) \in MultiIds \cup {NoId}
  BY DEF MultiShape, IdOf
<1>2. CASE placing = <<RawKey>>
  <2>1. Gathered = <<IdOf(RawKey)>> /\ RawKey \in DOMAIN multi
    BY <1>2 DEF Gathered, MultiShape
  <2>2. IdOf(RawKey) \in MultiIds \cup {NoId}
    BY <1>1, <2>1
  <2> DEFINE x == IdOf(RawKey)
  <2> HIDE DEF x
  <2>3. /\ <<x>> \in Seq(MultiIds \cup {NoId}) /\ Len(<<x>>) = 1 /\ <<x>>[1] = x
    BY <2>2 DEF x
  <2>4. [i \in 1 .. 1 |-> RawKey] \in [1 .. 1 -> DOMAIN multi]
    BY <2>1
  <2>5. \E at \in [1 .. 1 -> DOMAIN multi] :
           /\ \A i \in 1 .. 1 : <<x>>[i] = IdOf(at[i])
           /\ \A i, j \in 1 .. 1 : at[i] = at[j] => i = j
    <3> WITNESS [i \in 1 .. 1 |-> RawKey] \in [1 .. 1 -> DOMAIN multi]
    <3> QED BY <2>3 DEF x
  <2>6. Gathered = <<x>>
    BY <2>1 DEF x
  <2> QED
    BY <2>3, <2>5, <2>6
<1>3. CASE placing # <<RawKey>>
  <2> DEFINE D == DOMAIN multi
             N == Cardinality(D)
             key == [k \in D |-> k]
             at == [i \in 1 .. N |-> Ranked(key, i)]
  <2>1. D \subseteq Int /\ IsFiniteSet(D)
    <3>1. DOMAIN multi \subseteq 0 .. MaxOrders /\ MaxOrders \in Nat
      BY MultiAssumption DEF MultiShape, MultiTypeOK, Keys
    <3>2. IsFiniteSet(0 .. MaxOrders)
      BY <3>1, FS_Interval
    <3>3. D \in SUBSET (0 .. MaxOrders) /\ D \subseteq Int
      BY <3>1
    <3> HIDE DEF D
    <3>4. IsFiniteSet(D)
      BY <3>2, <3>3, FS_Subset
    <3> QED
      BY <3>3, <3>4
  <2>2. key \in [D -> Int]
    BY <2>1
  <2>3. /\ N \in Nat
        /\ \A i \in 1 .. N : Ranked(key, i) \in D
        /\ \A i, j \in 1 .. N : i < j => Ranked(key, i) # Ranked(key, j)
    <3> HIDE DEF key, D
    <3> QED BY <2>1, <2>2, RankedInOrder
  <2>4. Gathered = [i \in 1 .. N |-> IdOf(Ranked(key, i))]
    BY <1>3 DEF Gathered
  <2>5. at \in [1 .. N -> D] /\ \A i \in 1 .. N : at[i] = Ranked(key, i)
    BY <2>3
  <2> HIDE DEF at, key, N
  <2>6. Gathered = [i \in 1 .. N |-> IdOf(at[i])]
    BY <2>4, <2>5
  <2>7. \A i \in 1 .. N : IdOf(at[i]) \in MultiIds \cup {NoId}
    BY <2>5, <1>1
  <2>8. /\ Gathered \in Seq(MultiIds \cup {NoId}) /\ Len(Gathered) = N
        /\ \A i \in 1 .. N : Gathered[i] = IdOf(at[i])
    BY <2>3, <2>6, <2>7
  <2>9. \A i, j \in 1 .. N : at[i] = at[j] => i = j
    <3> SUFFICES ASSUME NEW i \in 1 .. N, NEW j \in 1 .. N, i # j PROVE at[i] # at[j]
      OBVIOUS
    <3>1. i < j \/ j < i
      BY <2>3
    <3> QED
      BY <3>1, <2>3, <2>5
  <2> QED
    BY <2>5, <2>8, <2>9
<1> QED
  BY <1>2, <1>3

\* Before the first call nothing is queued.
LEMMA MultiInitial == MultiInit => MultiIInv
<1> SUFFICES ASSUME MultiInit PROVE MultiIInv
  OBVIOUS
<1>1. MultiTypeOK
  BY MultiAssumption DEF MultiInit, MultiTypeOK
<1>2. MultiShape
  BY <1>1 DEF MultiInit, MultiShape
<1>3. OwnIds /\ InCall /\ InOrder /\ PlacesAreKept
  BY DEF MultiInit, OwnIds, InCall, InOrder, PlacesAreKept
<1> QED
  BY <1>2, <1>3 DEF MultiIInv

\* A call empties the dictionary of the one before.
LEMMA BatchStarts ==
  ASSUME MultiIInv, NEW keys \in Batches, BuyMulti(keys)
  PROVE  MultiIInv'
<1>1. /\ multiStage = "idle" /\ round \in Nat /\ round < MaxRounds /\ MaxRounds \in Nat
      /\ round' = round + 1 /\ multiStage' = "sending" /\ placing' = keys /\ placed' = 0
      /\ multi' = [k \in {RawKey} \cap ToSet(keys) |-> NoId]
      /\ UNCHANGED <<queued, unanswered, handed, disturbed>>
      /\ Len(handed) = round
  BY MultiAssumption DEF MultiIInv, MultiShape, MultiTypeOK, BuyMulti
<1>2. /\ keys \in Seq(Keys) /\ Len(keys) \in Nat \ {0} /\ RawKey \in Keys
      /\ keys = <<RawKey>> => RawKey \in ToSet(keys)
      /\ keys # <<RawKey>> => RawKey \notin ToSet(keys)
  <2>1. keys \in Seq(Keys) /\ Len(keys) \in Nat \ {0} /\ DOMAIN keys = 1 .. Len(keys)
    BY BatchShape, LenProperties
  <2>2. keys # <<RawKey>> => RawKey \notin ToSet(keys)
    <3> SUFFICES ASSUME keys # <<RawKey>>, NEW i \in 1 .. Len(keys) PROVE keys[i] # RawKey
      BY <2>1 DEF ToSet
    <3>1. \A n \in 1 .. Len(keys) : keys[n] = n
      BY BatchShape
    <3>2. keys[i] = i /\ i \in Nat \ {0}
      BY <2>1, <3>1
    <3> QED
      BY <3>2 DEF RawKey
  <2>3. keys = <<RawKey>> => RawKey \in ToSet(keys)
    BY <2>1, BatchShape DEF ToSet
  <2> QED
    BY <2>1, <2>2, <2>3, MultiAssumption DEF Keys, RawKey
<1>3. DOMAIN multi' = {RawKey} \cap ToSet(keys) /\ \A k \in DOMAIN multi' : multi'[k] = NoId /\ ~ Real(multi'[k])
  BY <1>1, IdShape DEF Real
<1>4. MultiTypeOK'
  BY <1>1, <1>2, <1>3 DEF MultiIInv, MultiShape, MultiTypeOK
<1>5. MultiShape'
  BY <1>1, <1>2, <1>3, <1>4 DEF MultiIInv, MultiShape
<1>6. \A o \in MultiIds : WasSent(o) => WasSent(o)'
  BY <1>1, IdShape DEF WasSent
<1>7. OwnIds'
  <2>1. \A o \in unanswered : o \in MultiIds
    BY DEF MultiIInv, MultiShape, MultiTypeOK
  <2> QED
    BY <1>1, <1>3, <1>6, <2>1 DEF MultiIInv, OwnIds, Real
<1>8. disturbed # "late" => InCall'
  BY <1>1, <1>3 DEF MultiIInv, InCall
<1>9. disturbed = "no" => InOrder'
  <2> SUFFICES ASSUME disturbed = "no" PROVE InOrder'
    OBVIOUS
  <2>1. queued' = <<>> /\ unanswered' = {} /\ multiStage' # "idle"
    BY <1>1 DEF MultiIInv, InOrder
  <2>2. Len(queued') = 0
    BY <2>1
  <2>3. Done' = 0 /\ Len(queued') = 0
    BY <1>1, <2>2 DEF Done
  <2>4. placing' = <<RawKey>> => DOMAIN multi' = {RawKey} /\ multi'[RawKey] = NoId
    BY <1>1, <1>2, <1>3
  <2>5. placing' # <<RawKey>> => DOMAIN multi' = {}
    BY <1>1, <1>2, <1>3
  <2> QED
    BY <1>1, <2>1, <2>3, <2>4, <2>5 DEF InOrder
<1>10. PlacesAreKept'
  BY <1>1 DEF MultiIInv, PlacesAreKept
<1> QED
  BY <1>1, <1>5, <1>7, <1>8, <1>9, <1>10 DEF MultiIInv

\* The order sent now was not sent before, and is the last in the queue.
LEMMA OrderSent ==
  ASSUME MultiIInv, SendsNext
  PROVE  MultiIInv'
<1>1. PICK k : k = placing[placed + 1]
  OBVIOUS
<1>2. PICK o : o = <<round, k>>
  OBVIOUS
<1>3. /\ multiStage = "sending" /\ placing \in Batches /\ round \in 1 .. MaxRounds
      /\ placed \in Nat /\ placed < Len(placing) /\ placed' = placed + 1
      /\ queued' = Append(queued, k) /\ unanswered' = unanswered \cup {o}
      /\ multiStage' = IF placed' = Len(placing) THEN "waiting" ELSE "sending"
      /\ UNCHANGED <<round, placing, multi, handed, disturbed>>
  BY <1>1, <1>2 DEF MultiIInv, MultiShape, MultiTypeOK, SendsNext
<1>4. placing \in Seq(Keys) /\ k \in Keys /\ Len(placing) \in Nat
  <2>1. placing \in Seq(Keys) /\ Len(placing) \in Nat
    BY <1>3, BatchShape
  <2> QED
    BY <1>3, <1>1, <2>1, ElementOfSeq
<1>5. o \in MultiIds /\ o[1] = round /\ o[2] = k
  BY <1>3, <1>4, <1>2 DEF MultiIds
<1>6. \A i, j \in 1 .. Len(placing) : placing[i] = placing[j] => i = j
  BY <1>3, BatchShape
<1>7. ~ WasSent(o)
  <2>1. ~ (round < round)
    BY <1>3
  <2>2. \A i \in 1 .. placed : placing[i] # k
    BY <1>3, <1>4, <1>6, <1>1
  <2> QED
    BY <1>5, <2>1, <2>2 DEF WasSent
<1>8. WasSent(o)' /\ \A p : WasSent(p) => WasSent(p)'
  <2>1. placed' \in 1 .. placed' /\ placing'[placed'] = k /\ \A i \in 1 .. placed : i \in 1 .. placed'
    BY <1>3, <1>1
  <2> QED
    BY <1>3, <1>5, <2>1 DEF WasSent
<1>9. queued' \in Seq(Keys)
  BY <1>3, <1>4 DEF MultiIInv, MultiShape
<1>10. MultiTypeOK'
  BY <1>3, <1>4, <1>5, <1>9 DEF MultiIInv, MultiShape, MultiTypeOK
<1>11. MultiShape'
  BY <1>3, <1>4, <1>9, <1>10 DEF MultiIInv, MultiShape
<1>12. OwnIds'
  BY <1>3, <1>7, <1>8 DEF MultiIInv, OwnIds
<1>13. disturbed # "late" => InCall'
  BY <1>3, <1>5 DEF MultiIInv, InCall
<1>14. disturbed = "no" => InOrder'
  <2> SUFFICES ASSUME disturbed = "no" PROVE InOrder'
    OBVIOUS
  <2>1. /\ Len(queued) <= placed /\ queued \in Seq(Keys) /\ Len(queued) \in Nat
        /\ \A i \in 1 .. Len(queued) : queued[i] = placing[Done + i]
        /\ unanswered = {<<round, placing[i]>> : i \in Done + 1 .. placed}
        /\ placing = <<RawKey>> =>
             DOMAIN multi = {RawKey} /\ multi[RawKey] = (IF Done = 1 THEN <<round, RawKey>> ELSE NoId)
        /\ placing # <<RawKey>> =>
             DOMAIN multi = 1 .. Done /\ \A i \in 1 .. Done : multi[i] = <<round, i>>
    BY <1>3 DEF MultiIInv, InOrder, MultiShape
  <2>2. /\ Len(queued') = Len(queued) + 1 /\ \A i \in 1 .. Len(queued) : queued'[i] = queued[i]
        /\ queued'[Len(queued) + 1] = k
    BY <1>3, <1>4, <2>1
  <2>3. Done' = Done /\ Done \in Nat /\ Done + Len(queued) = placed
    BY <1>3, <2>1, <2>2 DEF Done
  <2>4. ASSUME NEW i \in 1 .. Len(queued') PROVE queued'[i] = placing[Done + i]
    <3>1. CASE i = Len(queued) + 1
      BY <2>2, <2>3, <3>1, <2>1, <1>1
    <3>2. CASE i # Len(queued) + 1
      BY <2>1, <2>2, <3>2
    <3> QED
      BY <3>1, <3>2
  <2>5. unanswered' = {<<round, placing[i]>> : i \in Done + 1 .. placed + 1}
    <3>1. Done + 1 .. placed + 1 = (Done + 1 .. placed) \cup {placed + 1}
      <4>1. Done <= placed /\ Done \in Nat /\ placed \in Nat
        BY <1>3, <2>1, <2>3
      <4> HIDE DEF Done
      <4> QED
        BY <4>1
    <3> QED
      BY <1>3, <1>1, <1>2, <2>1, <3>1
  <2> QED
    BY <1>3, <2>1, <2>2, <2>3, <2>4, <2>5 DEF InOrder
<1>15. PlacesAreKept'
  BY <1>3 DEF MultiIInv, PlacesAreKept
<1> QED
  BY <1>3, <1>11, <1>12, <1>13, <1>14, <1>15 DEF MultiIInv

\* The ids a call returns are of orders answered, once each, and in the order of the
\* orders if they were answered in turn.
LEMMA BatchReturned ==
  ASSUME MultiIInv, NEW ids, Returned(ids),
         ids \in Seq(MultiIds \cup {NoId}),
         ids = Gathered \/ (ids = <<>> /\ placing = <<RawKey>> /\ multi[RawKey] = NoId)
  PROVE  MultiIInv'
<1>1. /\ multiStage = "waiting" /\ multiStage' = "idle" /\ handed' = Append(handed, ids)
      /\ disturbed' = IF \E o \in unanswered : o[1] = round THEN "late" ELSE disturbed
      /\ UNCHANGED <<round, placing, placed, multi, queued, unanswered>>
      /\ placing \in Batches /\ round \in 1 .. MaxRounds /\ placed = Len(placing)
      /\ handed \in Seq(Seq(MultiIds \cup {NoId})) /\ Len(handed) = round - 1
  BY DEF Returned, MultiIInv, MultiShape, MultiTypeOK
<1>2. /\ handed' \in Seq(Seq(MultiIds \cup {NoId})) /\ Len(handed') = round /\ handed'[round] = ids
      /\ \A c \in 1 .. round - 1 : handed'[c] = handed[c]
      /\ DOMAIN handed' = 1 .. round /\ DOMAIN handed = 1 .. round - 1
  BY <1>1
<1>3. /\ DOMAIN ids = 1 .. Len(ids) /\ Len(ids) \in Nat
      /\ \E at \in [1 .. Len(ids) -> DOMAIN multi] :
              /\ \A i \in 1 .. Len(ids) : ids[i] = IdOf(at[i])
              /\ \A i, j \in 1 .. Len(ids) : at[i] = at[j] => i = j
  <2>1. CASE ids = Gathered
    <3>1. DOMAIN ids = 1 .. Len(ids) /\ Len(ids) \in Nat
      BY LenProperties
    <3>2. MultiShape
      BY DEF MultiIInv
    <3>3. \E at \in [1 .. Len(Gathered) -> DOMAIN multi] :
            /\ \A i \in 1 .. Len(Gathered) : Gathered[i] = IdOf(at[i])
            /\ \A i, j \in 1 .. Len(Gathered) : at[i] = at[j] => i = j
      BY <1>1, <3>2, GatheredIds
    <3>4. \E at \in [1 .. Len(ids) -> DOMAIN multi] :
            /\ \A i \in 1 .. Len(ids) : ids[i] = IdOf(at[i])
            /\ \A i, j \in 1 .. Len(ids) : at[i] = at[j] => i = j
      BY <2>1, <3>3
    <3> QED
      BY <3>1, <3>4, Zenon
  <2>2. CASE ids = <<>>
    <3>1. Len(ids) = 0 /\ 1 .. Len(ids) = {}
      BY <2>2
    <3>2. DOMAIN ids = 1 .. Len(ids) /\ Len(ids) \in Nat
      BY LenProperties
    <3>3. [i \in 1 .. Len(ids) |-> RawKey] \in [1 .. Len(ids) -> DOMAIN multi]
      BY <3>1
    <3>4. \E at \in [1 .. Len(ids) -> DOMAIN multi] :
              /\ \A i \in 1 .. Len(ids) : ids[i] = IdOf(at[i])
              /\ \A i, j \in 1 .. Len(ids) : at[i] = at[j] => i = j
      <4> WITNESS [i \in 1 .. Len(ids) |-> RawKey] \in [1 .. Len(ids) -> DOMAIN multi]
      <4> QED BY <3>1
    <3> QED
      BY <3>2, <3>4, Zenon
  <2> QED
    BY <2>1, <2>2
<1>4. PICK at \in [1 .. Len(ids) -> DOMAIN multi] :
              /\ \A i \in 1 .. Len(ids) : ids[i] = IdOf(at[i])
              /\ \A i, j \in 1 .. Len(ids) : at[i] = at[j] => i = j
  BY <1>3
<1>5. \A i \in 1 .. Len(ids) : Real(ids[i]) => ids[i] = multi[at[i]]
  BY <1>4, IdShape DEF IdOf, Real
<1>6. MultiTypeOK'
  BY <1>1, <1>2 DEF MultiIInv, MultiShape, MultiTypeOK
<1>7. MultiShape'
  BY <1>1, <1>2, <1>6 DEF MultiIInv, MultiShape
<1>8. /\ \A o : WasSent(o)' <=> WasSent(o)
      /\ \A k \in DOMAIN multi : Real(multi[k]) =>
           /\ WasSent(multi[k]) /\ multi[k] \notin unanswered
           /\ \A l \in DOMAIN multi : multi[l] = multi[k] => l = k
           /\ \A c \in DOMAIN handed : \A i \in DOMAIN handed[c] : handed[c][i] # multi[k]
      /\ \A c \in DOMAIN handed : \A i \in DOMAIN handed[c] : Real(handed[c][i]) =>
           /\ WasSent(handed[c][i]) /\ handed[c][i] \notin unanswered
           /\ \A d \in DOMAIN handed : \A j \in DOMAIN handed[d] :
                handed[d][j] = handed[c][i] => d = c /\ j = i
  BY <1>1 DEF MultiIInv, OwnIds, WasSent
<1>9. \A i \in 1 .. Len(ids) : Real(ids[i]) =>
        /\ WasSent(ids[i]) /\ ids[i] \notin unanswered
        /\ \A j \in 1 .. Len(ids) : ids[j] = ids[i] => j = i
        /\ \A c \in DOMAIN handed : \A j \in DOMAIN handed[c] : handed[c][j] # ids[i]
  BY <1>4, <1>5, <1>8
<1>10. OwnIds'
  <2>1. \A c \in DOMAIN handed' : \A i \in DOMAIN handed'[c] : Real(handed'[c][i]) =>
           /\ WasSent(handed'[c][i]) /\ handed'[c][i] \notin unanswered
           /\ \A d \in DOMAIN handed' : \A j \in DOMAIN handed'[d] :
                handed'[d][j] = handed'[c][i] => d = c /\ j = i
    <3> SUFFICES ASSUME NEW c \in 1 .. round, NEW i \in DOMAIN handed'[c], Real(handed'[c][i]),
                        NEW d \in 1 .. round, NEW j \in DOMAIN handed'[d]
                 PROVE  /\ WasSent(handed'[c][i]) /\ handed'[c][i] \notin unanswered
                        /\ handed'[d][j] = handed'[c][i] => d = c /\ j = i
      BY <1>2
    <3>1. (d = round \/ d \in 1 .. round - 1) /\ (c = round \/ c \in 1 .. round - 1)
      BY <1>1
    <3>2. c = round => handed'[c] = ids /\ i \in 1 .. Len(ids)
      BY <1>2, <1>3
    <3>3. d = round => handed'[d] = ids /\ j \in 1 .. Len(ids)
      BY <1>2, <1>3
    <3>4. c # round => handed'[c] = handed[c] /\ c \in DOMAIN handed /\ i \in DOMAIN handed[c]
      BY <1>2, <3>1
    <3>5. d # round => handed'[d] = handed[d] /\ d \in DOMAIN handed /\ j \in DOMAIN handed[d]
      BY <1>2, <3>1
    <3>6. CASE c = round
      BY <1>9, <3>2, <3>3, <3>5, <3>6
    <3>7. CASE c # round
      <4>1. Real(handed[c][i])
        BY <3>4, <3>7
      <4>2. CASE d # round
        BY <1>8, <3>4, <3>5, <3>7, <4>1, <4>2
      <4>3. CASE d = round
        BY <1>8, <1>9, <3>3, <3>4, <3>7, <4>1, <4>3
      <4> QED
        BY <4>2, <4>3
    <3> QED
      BY <3>6, <3>7
  <2> QED
    BY <1>1, <1>8, <2>1 DEF MultiIInv, OwnIds, Real
<1>11. disturbed' # "late" => InCall'
  <2> SUFFICES ASSUME disturbed' # "late" PROVE InCall'
    OBVIOUS
  <2>1. InCall /\ unanswered = {}
    BY <1>1 DEF MultiIInv, InCall
  <2>2. \A i \in 1 .. Len(ids) : Real(ids[i]) => ids[i][1] = round
    <3>1. \A k \in DOMAIN multi : Real(multi[k]) => multi[k][1] = round
      BY <1>1, <2>1 DEF InCall
    <3>2. \A i \in 1 .. Len(ids) : at[i] \in DOMAIN multi
      BY <1>4
    <3> QED
      BY <1>5, <3>1, <3>2
  <2>3. \A c \in 1 .. round : \A i \in DOMAIN handed'[c] : Real(handed'[c][i]) => handed'[c][i][1] = c
    <3> SUFFICES ASSUME NEW c \in 1 .. round, NEW i \in DOMAIN handed'[c], Real(handed'[c][i])
                 PROVE  handed'[c][i][1] = c
      OBVIOUS
    <3>1. c = round \/ c \in 1 .. round - 1
      BY <1>1
    <3>2. CASE c = round
      <4>1. handed'[c] = ids /\ i \in 1 .. Len(ids)
        BY <1>2, <1>3, <3>2
      <4> QED
        BY <2>2, <3>2, <4>1
    <3>3. CASE c # round
      <4>1. handed'[c] = handed[c] /\ c \in DOMAIN handed /\ i \in DOMAIN handed[c]
        BY <1>2, <3>1, <3>3
      <4> QED
        BY <2>1, <4>1 DEF InCall
    <3> QED
      BY <3>2, <3>3
  <2> QED
    BY <1>1, <1>2, <2>1, <2>3 DEF InCall, Real
<1>12. disturbed' = "no" => InOrder' /\ \A i \in 1 .. Len(ids) : ids[i][1] = round /\ ids[i][2] \in {i, RawKey}
  <2> SUFFICES ASSUME disturbed' = "no"
               PROVE  InOrder' /\ \A i \in 1 .. Len(ids) : ids[i][1] = round /\ ids[i][2] \in {i, RawKey}
    OBVIOUS
  <2>1. InOrder /\ InCall /\ unanswered = {} /\ disturbed = "no"
    BY <1>1 DEF MultiIInv, InCall
  <2>2. /\ Len(queued) \in Nat /\ placed \in Nat /\ queued \in Seq(Keys) /\ Done <= placed /\ Done \in Nat
    BY <1>1, <2>1, BatchShape DEF InOrder, MultiIInv, MultiShape, Done
  <2>3. Done = placed /\ Len(queued) = 0
    <3>1. {<<round, placing[i]>> : i \in Done + 1 .. placed} = {}
      BY <1>1, <2>1 DEF InOrder
    <3>2. ~ (Done < placed)
      <4> SUFFICES ASSUME Done < placed PROVE FALSE
        OBVIOUS
      <4>1. placed \in Done + 1 .. placed
        BY <2>2
      <4> QED
        BY <3>1, <4>1
    <3> QED
      BY <2>2, <3>2 DEF Done
  <2>4. queued = <<>>
    BY <2>2, <2>3, EmptySeq
  <2>5. CASE placing = <<RawKey>>
    <3>1. Len(placing) = 1 /\ Done = 1 /\ multi[RawKey] = <<round, RawKey>>
      BY <1>1, <2>1, <2>3, <2>5, BatchShape DEF InOrder
    <3>2. NoId # <<round, RawKey>> /\ Explained # <<round, RawKey>>
      BY <1>1 DEF NoId, Explained
    <3>3. ids = Gathered /\ Gathered = <<IdOf(RawKey)>> /\ IdOf(RawKey) = <<round, RawKey>>
      BY <2>5, <3>1, <3>2 DEF Gathered, IdOf
    <3>4. Len(ids) = 1 /\ ids[1] = <<round, RawKey>>
      BY <3>3
    <3> QED
      BY <1>1, <2>1, <2>4, <3>4 DEF InOrder
  <2>6. CASE placing # <<RawKey>>
    <3> DEFINE D == DOMAIN multi
               N == Cardinality(D)
               key == [k \in D |-> k]
    <3>1. /\ D = 1 .. placed /\ \A i \in 1 .. placed : multi[i] = <<round, i>>
          /\ IsFiniteSet(D) /\ N = placed
      <4>1. D = 1 .. placed /\ \A i \in 1 .. placed : multi[i] = <<round, i>>
        BY <1>1, <2>1, <2>3, <2>6 DEF InOrder
      <4>2. IsFiniteSet(1 .. placed) /\ Cardinality(1 .. placed) = placed
        <5>1. placed \in Int /\ 1 <= placed + 1 /\ placed - 1 + 1 = placed
          BY <2>2
        <5> QED
          BY <5>1, IntervalCount
      <4> HIDE DEF D
      <4> QED
        BY <4>1, <4>2
    <3>2. ids = [i \in 1 .. N |-> IdOf(Ranked(key, i))]
      BY <2>6 DEF Gathered
    <3>3. \A i \in D : Place(key, i) = i
      <4> SUFFICES ASSUME NEW i \in D PROVE Place(key, i) = i
        OBVIOUS
      <4>1. {j \in D : key[j] < key[i] \/ (key[j] = key[i] /\ j <= i)} = 1 .. i
        <5> SUFFICES ASSUME NEW j PROVE j \in D /\ (j < i \/ (j = i /\ j <= i)) <=> j \in 1 .. i
          OBVIOUS
        <5> QED
          BY <3>1, <2>2
      <4>2. DOMAIN key = D /\ i \in Nat
        BY <3>1, <2>2
      <4>3. Place(key, i) = Cardinality(1 .. i)
        BY <4>1, <4>2 DEF Place
      <4> QED
        BY <4>2, <4>3, IntervalCount
    <3>4. \A i \in 1 .. N : Ranked(key, i) = i
      <4>1. D \subseteq Int /\ key \in [D -> Int]
        BY <3>1
      <4>2. \A i \in 1 .. N : Ranked(key, i) \in D /\ Place(key, Ranked(key, i)) = i
        <5> HIDE DEF D, key
        <5>1. IsFiniteSet(D) /\ Cardinality(D) = N
          BY <3>1 DEF N
        <5> HIDE DEF N
        <5> QED BY ZenonT(30), <4>1, <5>1, RankedInOrder
      <4> HIDE DEF key, D
      <4> QED
        BY <3>3, <4>2
    <3> HIDE DEF key, D, N
    <3>5. ids = [i \in 1 .. placed |-> IdOf(i)]
      BY <3>1, <3>2, <3>4
    <3>6. \A i \in 1 .. placed : IdOf(i) = <<round, i>>
      <4> SUFFICES ASSUME NEW i \in 1 .. placed PROVE IdOf(i) = <<round, i>>
        OBVIOUS
      <4>1. <<round, i>> # Explained
        BY <1>1 DEF Explained
      <4> QED
        BY <3>1, <4>1 DEF IdOf
    <3>7. Len(ids) = placed /\ \A i \in 1 .. placed : ids[i] = <<round, i>>
      BY <2>2, <3>5, <3>6
    <3> QED
      BY <1>1, <2>1, <2>4, <3>7 DEF InOrder
  <2> QED
    BY <2>5, <2>6
<1>13. PlacesAreKept'
  <2> SUFFICES ASSUME disturbed' = "no", NEW c \in 1 .. round, NEW i \in DOMAIN handed'[c]
               PROVE  handed'[c][i][1] = c /\ handed'[c][i][2] \in {i, RawKey}
    BY <1>2 DEF PlacesAreKept
  <2>1. c = round \/ c \in 1 .. round - 1
    BY <1>1
  <2>2. CASE c = round
    BY <1>2, <1>3, <1>12, <2>2
  <2>3. CASE c \in 1 .. round - 1
    BY <1>1, <1>2, <2>3 DEF MultiIInv, PlacesAreKept
  <2> QED
    BY <2>1, <2>2, <2>3
<1> QED
  BY <1>1, <1>7, <1>10, <1>11, <1>12, <1>13 DEF MultiIInv

\* An answer, whatever its handler puts into the dictionary, leaves no id to two.
LEMMA AnswerTaken ==
  ASSUME MultiIInv, NEW o \in unanswered, NEW regular, Answers(o, regular),
         queued' \in Seq(Keys),
         multi' = multi \/ \E k \in Keys : \E v \in {o, Explained} : Put(k, v)
  PROVE  MultiShape' /\ OwnIds' /\ (disturbed' # "late" => InCall') /\ PlacesAreKept'
<1>1. /\ unanswered' = unanswered \ {o} /\ o \in MultiIds /\ unanswered \subseteq MultiIds
      /\ UNCHANGED <<round, multiStage, placing, placed, handed>>
      /\ disturbed' \in {"no", "refused", "late"}
      /\ disturbed' = "no" => disturbed = "no"
      /\ disturbed = "late" => disturbed' = "late"
  BY DEF MultiIInv, MultiShape, MultiTypeOK, Answers
<1>2. /\ DOMAIN multi \subseteq DOMAIN multi' /\ DOMAIN multi' \subseteq Keys
      /\ \A x \in DOMAIN multi' : \/ multi'[x] = o
                                  \/ multi'[x] = Explained
                                  \/ x \in DOMAIN multi /\ multi'[x] = multi[x]
      /\ \A x, y \in DOMAIN multi' : multi'[x] = o /\ multi'[y] = o =>
           \/ x = y
           \/ x \in DOMAIN multi /\ multi[x] = o
           \/ y \in DOMAIN multi /\ multi[y] = o
      /\ multi' = [x \in DOMAIN multi' |-> multi'[x]]
  <2>1. DOMAIN multi \subseteq Keys /\ multi = [x \in DOMAIN multi |-> multi[x]]
    BY DEF MultiIInv, MultiShape, MultiTypeOK
  <2>2. CASE multi' = multi
    BY <2>1, <2>2
  <2>3. CASE multi' # multi
    <3>1. PICK k \in Keys, v \in {o, Explained} :
             multi' = [x \in DOMAIN multi \cup {k} |-> IF x = k THEN v ELSE multi[x]]
      BY <2>3 DEF Put
    <3> QED
      BY <2>1, <3>1
  <2> QED
    BY <2>2, <2>3
<1>3. multi' \in [DOMAIN multi' -> MultiIds \cup {NoId, Explained}]
  BY <1>1, <1>2 DEF MultiIInv, MultiShape
<1>4. MultiTypeOK'
  <2>1. \A i \in DOMAIN queued' : queued'[i] \in Keys
    BY ElementOfSeq, LenProperties
  <2> QED
    BY <1>1, <1>2, <2>1 DEF MultiIInv, MultiShape, MultiTypeOK
<1>5. MultiShape'
  BY <1>1, <1>2, <1>3, <1>4 DEF MultiIInv, MultiShape
<1>6. /\ \A p \in unanswered : WasSent(p)
      /\ \A k \in DOMAIN multi : Real(multi[k]) =>
           /\ WasSent(multi[k]) /\ multi[k] \notin unanswered
           /\ \A l \in DOMAIN multi : multi[l] = multi[k] => l = k
           /\ multiStage # "idle" => \A c \in DOMAIN handed : \A i \in DOMAIN handed[c] :
                handed[c][i] # multi[k]
      /\ \A c \in DOMAIN handed : \A i \in DOMAIN handed[c] : Real(handed[c][i]) =>
           /\ WasSent(handed[c][i]) /\ handed[c][i] \notin unanswered
           /\ \A d \in DOMAIN handed : \A j \in DOMAIN handed[d] :
                handed[d][j] = handed[c][i] => d = c /\ j = i
      /\ \A p : WasSent(p)' <=> WasSent(p)
  BY <1>1 DEF MultiIInv, OwnIds, WasSent
<1>7. \A x \in DOMAIN multi : multi[x] # o
  BY <1>1, <1>6 DEF Real
<1>8. \A c \in DOMAIN handed : \A i \in DOMAIN handed[c] : handed[c][i] # o
  BY <1>1, <1>6 DEF Real
<1>9. ~ Real(Explained)
  BY IdShape DEF Real
<1>10. \A k \in DOMAIN multi' : Real(multi'[k]) =>
         /\ WasSent(multi'[k]) /\ multi'[k] \notin unanswered'
         /\ \A l \in DOMAIN multi' : multi'[l] = multi'[k] => l = k
         /\ multiStage # "idle" => \A c \in DOMAIN handed : \A i \in DOMAIN handed[c] :
              handed[c][i] # multi'[k]
  <2> SUFFICES ASSUME NEW k \in DOMAIN multi', Real(multi'[k])
               PROVE  /\ WasSent(multi'[k]) /\ multi'[k] \notin unanswered'
                      /\ \A l \in DOMAIN multi' : multi'[l] = multi'[k] => l = k
                      /\ multiStage # "idle" => \A c \in DOMAIN handed : \A i \in DOMAIN handed[c] :
                           handed[c][i] # multi'[k]
    OBVIOUS
  <2>1. CASE multi'[k] = o
    BY <1>1, <1>2, <1>6, <1>7, <1>8, <2>1
  <2>2. CASE multi'[k] # o
    <3>1. k \in DOMAIN multi /\ multi'[k] = multi[k]
      BY <1>2, <1>9, <2>2
    <3>2. \A l \in DOMAIN multi' : multi'[l] = multi'[k] => l \in DOMAIN multi /\ multi[l] = multi[k]
      BY <1>2, <1>9, <2>2, <3>1
    <3> QED
      BY <1>1, <1>6, <3>1, <3>2
  <2> QED
    BY <2>1, <2>2
<1>11. OwnIds'
  BY <1>1, <1>6, <1>10 DEF OwnIds, Real
<1>12. disturbed' # "late" => InCall'
  <2> SUFFICES ASSUME disturbed' # "late" PROVE InCall'
    OBVIOUS
  <2>1. InCall /\ o[1] = round
    BY <1>1 DEF MultiIInv, InCall
  <2> QED
    BY <1>1, <1>2, <1>9, <2>1 DEF InCall, Real
<1>13. PlacesAreKept'
  BY <1>1 DEF MultiIInv, PlacesAreKept
<1> QED
  BY <1>5, <1>11, <1>12, <1>13

\* option-opened takes the request that has waited longest: in turn it is the answered one.
LEMMA OpenedInOrder ==
  ASSUME MultiIInv, NEW o \in unanswered, OptionOpened(o), disturbed' = "no"
  PROVE  InOrder'
<1>1. /\ unanswered' = unanswered \ {o} /\ o \in MultiIds
      /\ UNCHANGED <<round, multiStage, placing, placed, handed>>
      /\ disturbed = "no" /\ InTurn(o) /\ InOrder /\ multiStage # "idle"
      /\ placing \in Batches /\ round \in 1 .. MaxRounds /\ placed \in 0 .. Len(placing)
      /\ queued \in Seq(Keys)
  BY DEF MultiIInv, MultiShape, MultiTypeOK, Answers, OptionOpened, InCall
<1>2. /\ Len(queued) \in Nat /\ Len(queued) <= placed /\ Done \in Nat /\ Done + Len(queued) = placed
      /\ \A i \in 1 .. Len(queued) : queued[i] = placing[Done + i]
      /\ unanswered = {<<round, placing[i]>> : i \in Done + 1 .. placed}
      /\ placing = <<RawKey>> =>
           DOMAIN multi = {RawKey} /\ multi[RawKey] = (IF Done = 1 THEN <<round, RawKey>> ELSE NoId)
      /\ placing # <<RawKey>> =>
           DOMAIN multi = 1 .. Done /\ \A i \in 1 .. Done : multi[i] = <<round, i>>
  BY <1>1, BatchShape DEF InOrder, Done
<1>3. PICK m : m = Done
  OBVIOUS
<1>4. /\ Len(placing) \in Nat /\ placed <= Len(placing) /\ placing \in Seq(Keys)
      /\ placing = <<RawKey>> => Len(placing) = 1 /\ placing[1] = RawKey
      /\ placing # <<RawKey>> => \A i \in 1 .. Len(placing) : placing[i] = i
  BY <1>1, BatchShape
<1>5. m + 1 \in 1 .. placed /\ o = <<round, placing[m + 1]>>
  <2>1. PICK i \in m + 1 .. placed : o = <<round, placing[i]>>
    BY <1>2, <1>3
  <2>2. m + 1 \in m + 1 .. placed /\ m \in Nat /\ placed \in Nat /\ m + 1 \in 1 .. placed
    BY <1>1, <1>2, <1>3, <2>1
  <2>3. <<round, placing[m + 1]>> \in unanswered
    BY <1>2, <1>3, <2>2
  <2>4. placing[m + 1] >= placing[i]
    BY <1>1, <2>1, <2>3 DEF InTurn
  <2>5. i = m + 1
    <3>1. CASE placing = <<RawKey>>
      BY <1>1, <1>4, <2>1, <2>2, <3>1
    <3>2. CASE placing # <<RawKey>>
      <4>1. i \in 1 .. Len(placing) /\ m + 1 \in 1 .. Len(placing)
        BY <1>1, <1>4, <2>1, <2>2
      <4>2. placing[i] = i /\ placing[m + 1] = m + 1
        BY <1>4, <3>2, <4>1
      <4> QED
        BY <2>1, <2>2, <2>4, <4>2
    <3> QED
      BY <3>1, <3>2
  <2> QED
    BY <2>1, <2>2, <2>5
<1>6. PICK k : k = placing[m + 1]
  OBVIOUS
<1>7. /\ queued # <<>> /\ Head(queued) = k /\ Len(queued) >= 1
      /\ queued' = Tail(queued) /\ Len(queued') = Len(queued) - 1
      /\ \A i \in 1 .. Len(queued') : queued'[i] = placing[m + 1 + i]
  <2>1. Len(queued) >= 1
    BY <1>2, <1>3, <1>5
  <2>2. queued # <<>>
    BY <2>1
  <2>3. Head(queued) = queued[1] /\ queued[1] = k
    BY <1>2, <1>3, <1>6, <2>1
  <2>4. queued' = Tail(queued)
    BY <2>2 DEF OptionOpened
  <2>5. /\ Len(queued') = Len(queued) - 1
        /\ \A i \in 1 .. Len(queued') : queued'[i] = queued[i + 1]
    BY <1>1, <2>2, <2>4, HeadTailProperties
  <2>6. ASSUME NEW i \in 1 .. Len(queued') PROVE queued'[i] = placing[m + 1 + i]
    <3>1. i + 1 \in 1 .. Len(queued) /\ m + (i + 1) = m + 1 + i
      BY <1>2, <1>3, <2>5
    <3> QED
      BY <1>2, <1>3, <2>5, <3>1
  <2> QED
    BY <2>1, <2>2, <2>3, <2>4, <2>5, <2>6
<1>8. multi' = [x \in DOMAIN multi \cup {k} |-> IF x = k THEN o ELSE multi[x]]
  BY <1>7 DEF OptionOpened, Put
<1>9. Done' = m + 1 /\ m \in Nat /\ placed \in Nat /\ m + 1 <= placed
  BY <1>1, <1>2, <1>3, <1>5, <1>7 DEF Done
<1>10. unanswered' = {<<round, placing[i]>> : i \in m + 2 .. placed}
  <2>1. ASSUME NEW i \in m + 1 .. placed PROVE <<round, placing[i]>> = o <=> i = m + 1
    <3>1. i \in 1 .. Len(placing) /\ m + 1 \in 1 .. Len(placing)
      BY <1>1, <1>4, <1>9
    <3>2. placing[i] = placing[m + 1] => i = m + 1
      <4>1. CASE placing = <<RawKey>>
        BY <1>4, <3>1, <4>1
      <4>2. CASE placing # <<RawKey>>
        BY <1>4, <3>1, <4>2
      <4> QED
        BY <4>1, <4>2
    <3> QED
      BY <1>5, <3>2
  <2>2. m + 1 .. placed = {m + 1} \cup (m + 2 .. placed) /\ m + 1 \notin m + 2 .. placed
    BY <1>9
  <2>3. unanswered = {<<round, placing[i]>> : i \in m + 1 .. placed}
    BY <1>2, <1>3
  <2> QED
    BY SMTT(30), <1>1, <2>1, <2>2, <2>3
<1>11. CASE placing = <<RawKey>>
  <2>1. m = 0 /\ k = RawKey /\ o = <<round, RawKey>>
    BY <1>4, <1>5, <1>6, <1>9, <1>11
  <2>2. DOMAIN multi' = {RawKey} /\ multi'[RawKey] = <<round, RawKey>>
    BY <1>2, <1>8, <1>11, <2>1
  <2>3. Len(queued') <= placed' /\ Done' = 1
    BY <1>1, <1>2, <1>7, <1>9, <2>1
  <2>4. /\ \A i \in 1 .. Len(queued') : queued'[i] = placing'[Done' + i]
        /\ unanswered' = {<<round', placing'[i]>> : i \in Done' + 1 .. placed'}
    <3>1. Done' + 1 = m + 2
      BY <1>9
    <3>2. unanswered' = {<<round', placing'[i]>> : i \in m + 2 .. placed'}
      BY <1>1, <1>10
    <3>3. unanswered' = {<<round', placing'[i]>> : i \in Done' + 1 .. placed'}
      BY <3>1, <3>2
    <3>4. \A i \in 1 .. Len(queued') : queued'[i] = placing'[Done' + i]
      BY <1>1, <1>7, <1>9
    <3> QED
      BY <3>3, <3>4
  <2> QED
    BY <1>1, <1>11, <2>2, <2>3, <2>4 DEF InOrder
<1>12. CASE placing # <<RawKey>>
  <2>1. k = m + 1 /\ o = <<round, m + 1>>
    BY <1>4, <1>5, <1>6, <1>9, <1>12
  <2>2. DOMAIN multi' = 1 .. m + 1 /\ \A i \in 1 .. m + 1 : multi'[i] = <<round, i>>
    BY <1>2, <1>3, <1>8, <1>9, <1>12, <2>1
  <2>3. Len(queued') <= placed'
    BY <1>1, <1>2, <1>7
  <2>4. /\ \A i \in 1 .. Len(queued') : queued'[i] = placing'[Done' + i]
        /\ unanswered' = {<<round', placing'[i]>> : i \in Done' + 1 .. placed'}
    <3>1. Done' + 1 = m + 2
      BY <1>9
    <3>2. unanswered' = {<<round', placing'[i]>> : i \in m + 2 .. placed'}
      BY <1>1, <1>10
    <3>3. unanswered' = {<<round', placing'[i]>> : i \in Done' + 1 .. placed'}
      BY <3>1, <3>2
    <3>4. \A i \in 1 .. Len(queued') : queued'[i] = placing'[Done' + i]
      BY <1>1, <1>7, <1>9
    <3> QED
      BY <3>3, <3>4
  <2> QED
    BY <1>1, <1>9, <1>12, <2>2, <2>3, <2>4 DEF InOrder
<1> QED
  BY <1>11, <1>12

\* Every step of the caller and every answer keeps the invariant.
LEMMA MultiInductive == MultiIInv /\ [MultiNext]_multiVars => MultiIInv'
<1> SUFFICES ASSUME MultiIInv, [MultiNext]_multiVars PROVE MultiIInv'
  OBVIOUS
<1>1. ASSUME NEW keys \in Batches, BuyMulti(keys) PROVE MultiIInv'
  BY <1>1, BatchStarts
<1>2. CASE SendsNext
  BY <1>2, OrderSent
<1>3. CASE GathersIds
  <2>1. multiStage = "waiting" /\ Returned(Gathered)
    BY <1>3 DEF GathersIds, Returned
  <2>2. Gathered \in Seq(MultiIds \cup {NoId})
    BY <2>1, GatheredIds DEF MultiIInv
  <2> QED
    BY <2>1, <2>2, BatchReturned
<1>4. CASE GivesUp
  <2>1. multiStage = "waiting"
    BY <1>4 DEF GivesUp, Returned
  <2>2. CASE placing = <<RawKey>>
    <3>1. Returned(<<>>) /\ multi[RawKey] = NoId
      BY <1>4, <2>2 DEF GivesUp, Enough
    <3>2. <<>> \in Seq(MultiIds \cup {NoId})
      OBVIOUS
    <3> QED
      BY <2>2, <3>1, <3>2, BatchReturned
  <2>3. CASE placing # <<RawKey>>
    <3>1. Returned(Gathered) /\ Gathered \in Seq(MultiIds \cup {NoId})
      BY <1>4, <2>1, <2>3, GatheredIds DEF GivesUp, MultiIInv
    <3> QED
      BY <2>3, <3>1, BatchReturned
  <2> QED
    BY <2>2, <2>3
<1>5. ASSUME NEW o \in unanswered, OptionOpened(o) PROVE MultiIInv'
  <2>1. Answers(o, TRUE) /\ o \in MultiIds /\ queued \in Seq(Keys)
    BY <1>5 DEF OptionOpened, MultiIInv, MultiShape, MultiTypeOK
  <2>2. queued' \in Seq(Keys) /\ (multi' = multi \/ \E k \in Keys : \E v \in {o, Explained} : Put(k, v))
    <3>1. CASE queued = <<>>
      BY <1>5, <2>1, <3>1 DEF OptionOpened
    <3>2. CASE queued # <<>>
      <4>1. queued' = Tail(queued) /\ Put(Head(queued), o)
        BY <1>5, <3>2 DEF OptionOpened
      <4>2. Head(queued) \in Keys /\ Tail(queued) \in Seq(Keys)
        BY <2>1, <3>2, HeadTailProperties
      <4> QED
        BY <4>1, <4>2
    <3> QED
      BY <3>1, <3>2
  <2>3. MultiShape' /\ OwnIds' /\ (disturbed' # "late" => InCall') /\ PlacesAreKept'
    BY <2>1, <2>2, AnswerTaken
  <2>4. disturbed' = "no" => InOrder'
    BY <1>5, OpenedInOrder
  <2> QED
    BY <2>3, <2>4 DEF MultiIInv
<1>6. ASSUME NEW o \in unanswered, OrderRefused(o) PROVE MultiIInv'
  <2>1. Answers(o, FALSE) /\ disturbed' # "no" /\ multi' = multi
    BY <1>6 DEF OrderRefused, Answers
  <2>2. queued' \in Seq(Keys)
    <3>1. queued \in Seq(Keys)
      BY DEF MultiIInv, MultiShape
    <3>2. RemoveFirst(queued, o[2]) \in Seq(Keys)
      BY <3>1, RemoveFirstType
    <3> QED
      BY <1>6, <3>1, <3>2 DEF OrderRefused
  <2>3. MultiShape' /\ OwnIds' /\ (disturbed' # "late" => InCall') /\ PlacesAreKept'
    BY <2>1, <2>2, AnswerTaken
  <2> QED
    BY <2>1, <2>3 DEF MultiIInv
<1>7. ASSUME NEW o \in unanswered, OrderExplained(o) PROVE MultiIInv'
  <2>1. Answers(o, FALSE) /\ disturbed' # "no" /\ Put(o[2], Explained) /\ queued' = queued
    BY <1>7 DEF OrderExplained, Answers
  <2>2. queued' \in Seq(Keys) /\ o[2] \in Keys
    BY <2>1, IdShape DEF MultiIInv, MultiShape, MultiTypeOK
  <2>3. MultiShape' /\ OwnIds' /\ (disturbed' # "late" => InCall') /\ PlacesAreKept'
    BY <2>1, <2>2, AnswerTaken
  <2> QED
    BY <2>1, <2>3 DEF MultiIInv
<1>8. CASE UNCHANGED multiVars
  BY SMTT(30), <1>8 DEF multiVars, MultiIInv, MultiShape, MultiTypeOK, OwnIds, WasSent, InCall, InOrder, Done,
              PlacesAreKept
<1> QED
  BY <1>1, <1>2, <1>3, <1>4, <1>5, <1>6, <1>7, <1>8 DEF MultiNext

\* The invariant says of the ids returned what IdsAreRight does.
LEMMA MultiImplies == MultiIInv => IdsAreRight
<1> SUFFICES ASSUME MultiIInv PROVE IdsAreRight
  OBVIOUS
<1>1. PlacesAreKept
  BY DEF MultiIInv
<1>2. handed \in Seq(Seq(MultiIds \cup {NoId}))
  BY DEF MultiIInv, MultiShape, MultiTypeOK
<1>3. ASSUME NEW p \in (1 .. Len(handed)) \X (1 .. MaxOrders + 1),
             p[2] \in DOMAIN handed[p[1]], handed[p[1]][p[2]] # NoId
      PROVE  /\ p = <<p[1], p[2]>> /\ p[1] \in DOMAIN handed
             /\ Real(handed[p[1]][p[2]])
  <2>1. p = <<p[1], p[2]>> /\ p[1] \in 1 .. Len(handed)
    OBVIOUS
  <2>2. DOMAIN handed = 1 .. Len(handed) /\ handed[p[1]] \in Seq(MultiIds \cup {NoId})
    BY <1>2, <2>1, LenProperties, ElementOfSeq
  <2>3. handed[p[1]][p[2]] \in MultiIds \cup {NoId}
    BY <1>3, <2>2
  <2> QED
    BY <1>3, <2>1, <2>2, <2>3 DEF Real
<1>4. IdsAreOwn
  <2>1. ASSUME NEW p \in (1 .. Len(handed)) \X (1 .. MaxOrders + 1),
               p[2] \in DOMAIN handed[p[1]], handed[p[1]][p[2]] # NoId,
               NEW q \in (1 .. Len(handed)) \X (1 .. MaxOrders + 1),
               q[2] \in DOMAIN handed[q[1]], handed[q[1]][q[2]] # NoId,
               handed[p[1]][p[2]] = handed[q[1]][q[2]]
        PROVE  p = q
    <3>1. /\ p = <<p[1], p[2]>> /\ p[1] \in DOMAIN handed /\ Real(handed[p[1]][p[2]])
          /\ q = <<q[1], q[2]>> /\ q[1] \in DOMAIN handed
      BY <1>3, <2>1
    <3>2. q[1] = p[1] /\ q[2] = p[2]
      BY <2>1, <3>1 DEF MultiIInv, OwnIds
    <3> QED
      BY <3>1, <3>2
  <2>2. ASSUME disturbed # "late",
               NEW p \in (1 .. Len(handed)) \X (1 .. MaxOrders + 1),
               p[2] \in DOMAIN handed[p[1]], handed[p[1]][p[2]] # NoId
        PROVE  handed[p[1]][p[2]][1] = p[1]
    BY <1>3, <2>2 DEF MultiIInv, InCall
  <2> QED
    BY <2>1, <2>2 DEF IdsAreOwn
<1> QED
  BY <1>1, <1>4 DEF IdsAreRight

\* IdsAreRight of every call of MultiOrder, with its types.
THEOREM IdsStayRight == MultiSpec => [](MultiTypeOK /\ IdsAreRight)
<1>1. MultiIInv => MultiTypeOK /\ IdsAreRight
  BY MultiImplies DEF MultiIInv, MultiShape
<1> QED
  BY <1>1, MultiInitial, MultiInductive, PTL DEF MultiSpec


-----------------------------------------------------------------------------
(* Scanner *)

\* sorted() returns the same elements in the order of their keys.
LEMMA SortedInOrder ==
  ASSUME NEW S, NEW s \in Seq(S), NEW key \in [DOMAIN s -> Int]
  PROVE  /\ SortedBy(s, key) \in Seq(S) /\ Len(SortedBy(s, key)) = Len(s)
         /\ \A n \in 1 .. Len(s) :
              Ranked(key, n) \in 1 .. Len(s) /\ SortedBy(s, key)[n] = s[Ranked(key, n)]
         /\ \A m, n \in 1 .. Len(s) : m < n => key[Ranked(key, m)] <= key[Ranked(key, n)]
         /\ \A i \in 1 .. Len(s) : \E n \in 1 .. Len(s) : Ranked(key, n) = i
<1> DEFINE D == 1 .. Len(s)
<1>1. Len(s) \in Nat /\ DOMAIN s = D /\ \A i \in D : s[i] \in S
  BY LenProperties, ElementOfSeq
<1>2. IsFiniteSet(D) /\ Cardinality(D) = Len(s) /\ D \subseteq Int
  <2>1. Len(s) \in Int /\ 1 <= Len(s) + 1 /\ Len(s) - 1 + 1 = Len(s)
    BY <1>1
  <2> QED
    BY <2>1, IntervalCount
<1>3. /\ \A n \in D : Ranked(key, n) \in D
      /\ \A i \in D : \E n \in D : Ranked(key, n) = i
      /\ \A m, n \in D : m < n => key[Ranked(key, m)] <= key[Ranked(key, n)]
  <2> DEFINE C == Cardinality(D)
  <2>1. key \in [D -> Int]
    BY <1>1
  <2>2. /\ \A n \in 1 .. C : Ranked(key, n) \in D
        /\ \A i \in D : \E n \in 1 .. C : Ranked(key, n) = i
        /\ \A m, n \in 1 .. C : m < n => key[Ranked(key, m)] <= key[Ranked(key, n)]
    <3> HIDE DEF D
    <3> QED BY <1>2, <2>1, RankedInOrder
  <2>3. C = Len(s)
    BY <1>2
  <2> HIDE DEF C
  <2> QED
    BY <2>2, <2>3
<1>4. \A n \in 1 .. Len(s) : s[Ranked(key, n)] \in S
  BY <1>1, <1>3
<1>5. /\ SortedBy(s, key) \in Seq(S) /\ Len(SortedBy(s, key)) = Len(s)
      /\ \A n \in 1 .. Len(s) : SortedBy(s, key)[n] = s[Ranked(key, n)]
  BY <1>1, <1>4 DEF SortedBy
<1> QED
  BY <1>3, <1>5

\* A result is an asset that passed, with its rank.
RankedAssets == [asset : Nat, rank : Int]

\* The results are the assets that pass, with their ranks, and the ranking is their
\* beginning.
ScannerIInv ==
  /\ facts \in Seq(Facts) /\ results \in Seq(RankedAssets)
  /\ \A i \in DOMAIN results :
       /\ results[i].asset \in DOMAIN facts /\ Passes(facts[results[i].asset])
       /\ results[i].rank = RankScore(facts[results[i].asset])
  /\ \A a \in DOMAIN facts : Passes(facts[a]) => \E i \in DOMAIN results : results[i].asset = a
  /\ ranking # <<>> =>
       /\ Len(facts) = NumAssets
       /\ ranking = Top(SortedBy(results, [i \in DOMAIN results |-> - results[i].rank]))

\* A share of a payout is no more than the payout.
LEMMA PercentOfWhole ==
  ASSUME NEW p \in 0 .. 100, NEW q \in 0 .. 100
  PROVE  /\ p * q \in Int /\ p * 100 \in Int /\ p * q <= p * 100
         /\ p * 100 <= q * 100 => p <= q
OBVIOUS

\* The payout and the quality of an asset are percentages.
LEMMA FactType ==
  ASSUME NEW f \in Facts
  PROVE  /\ f.payout \in 0 .. 100 /\ QualityOf(f.judged) \in 0 .. 100 /\ RankScore(f) \in Int
         /\ ~f.judged.id \/ f.judged.raises => RankScore(f) = f.payout * 100
<1>1. f.payout \in Payouts /\ f.judged \in Judgements
  BY DEF Facts
<1>2. f.payout \in 0 .. 100
  BY <1>1, ScannerAssumption
<1>3. f.judged.quality \in 0 .. 100
  <2>1. PICK j : j = f.judged
    OBVIOUS
  <2>2. \/ j = [id |-> FALSE, quality |-> 0, tradeable |-> FALSE, raises |-> FALSE]
        \/ j \in [id : {TRUE}, quality : Qualities, tradeable : BOOLEAN, raises : BOOLEAN]
    BY <1>1, <2>1 DEF Judgements
  <2>3. CASE j = [id |-> FALSE, quality |-> 0, tradeable |-> FALSE, raises |-> FALSE]
    BY <2>1, <2>3
  <2>4. CASE j \in [id : {TRUE}, quality : Qualities, tradeable : BOOLEAN, raises : BOOLEAN]
    <3>1. j.quality \in Qualities
      BY <2>4
    <3> QED
      BY <2>1, <3>1, ScannerAssumption
  <2> QED
    BY <2>2, <2>3, <2>4
<1>4. /\ QualityOf(f.judged) \in 0 .. 100
      /\ ~f.judged.id \/ f.judged.raises => QualityOf(f.judged) = 100
  BY <1>3 DEF QualityOf
<1>5. RankScore(f) = f.payout * QualityOf(f.judged)
  BY DEF RankScore
<1>6. RankScore(f) \in Int
  <2> DEFINE q == QualityOf(f.judged)
             p == f.payout
  <2>1. p \in Int /\ q \in Int
    BY <1>2, <1>4
  <2> HIDE DEF p, q
  <2>2. p * q \in Int
    BY <2>1
  <2> QED
    BY <1>5, <2>2 DEF p, q
<1> QED
  BY <1>2, <1>4, <1>5, <1>6

\* No asset is looked at before the pass.
LEMMA ScannerInitial == ScannerInit => ScannerIInv
BY DEF ScannerInit, ScannerIInv

\* Each asset that passes is among the results, and the pass ends with their ranking.
LEMMA ScannerInductive == ScannerIInv /\ [ScannerNext]_scannerVars => ScannerIInv'
<1> SUFFICES ASSUME ScannerIInv, [ScannerNext]_scannerVars PROVE ScannerIInv'
  OBVIOUS
<1>1. facts \in Seq(Facts) /\ results \in Seq(RankedAssets) /\ Len(facts) \in Nat /\ Len(results) \in Nat
      /\ DOMAIN facts = 1 .. Len(facts) /\ DOMAIN results = 1 .. Len(results)
  BY LenProperties DEF ScannerIInv
<1>2. ASSUME NEW f \in Facts, LooksAt(f) PROVE ScannerIInv'
  <2>1. /\ facts' \in Seq(Facts) /\ DOMAIN facts' = 1 .. Len(facts) + 1 /\ facts'[Len(facts) + 1] = f
        /\ \A a \in 1 .. Len(facts) : facts'[a] = facts[a]
    BY <1>1, <1>2 DEF LooksAt
  <2>2. ranking' = ranking /\ ranking = <<>>
    <3>1. Len(facts) < NumAssets /\ NumAssets \in Nat /\ ranking' = ranking
      BY <1>2, ScannerAssumption DEF LooksAt
    <3>2. Len(facts) \in Nat
      BY <1>1
    <3>3. Len(facts) # NumAssets
      BY <3>1, <3>2
    <3> QED
      BY <3>1, <3>3 DEF ScannerIInv
  <2>3. CASE Passes(f)
    <3> DEFINE r == [asset |-> Len(facts) + 1, rank |-> RankScore(f)]
    <3>1. results' = Append(results, r) /\ r \in RankedAssets
      BY <1>1, <1>2, <2>3, FactType DEF LooksAt, RankedAssets
    <3>2. r.asset = Len(facts) + 1 /\ r.rank = RankScore(f)
      OBVIOUS
    <3> HIDE DEF r
    <3>3. /\ results' \in Seq(RankedAssets) /\ DOMAIN results' = 1 .. Len(results) + 1
          /\ results'[Len(results) + 1] = r
          /\ \A i \in 1 .. Len(results) : results'[i] = results[i]
      BY <1>1, <3>1
    <3>4. ASSUME NEW i \in DOMAIN results'
          PROVE  /\ results'[i].asset \in DOMAIN facts' /\ Passes(facts'[results'[i].asset])
                 /\ results'[i].rank = RankScore(facts'[results'[i].asset])
      <4>1. CASE i = Len(results) + 1
        BY <1>1, <2>1, <2>3, <3>2, <3>3, <4>1
      <4>2. CASE i # Len(results) + 1
        <5>1. i \in DOMAIN results /\ results'[i] = results[i]
          BY <1>1, <3>3, <4>2
        <5>2. /\ results[i].asset \in DOMAIN facts /\ Passes(facts[results[i].asset])
              /\ results[i].rank = RankScore(facts[results[i].asset])
          BY <5>1 DEF ScannerIInv
        <5> QED
          BY <1>1, <2>1, <5>1, <5>2
      <4> QED
        BY <4>1, <4>2
    <3>5. ASSUME NEW a \in DOMAIN facts', Passes(facts'[a])
          PROVE  \E i \in DOMAIN results' : results'[i].asset = a
      <4>1. CASE a = Len(facts) + 1
        BY <1>1, <3>2, <3>3, <4>1
      <4>2. CASE a # Len(facts) + 1
        <5>1. a \in DOMAIN facts /\ Passes(facts[a])
          BY <1>1, <2>1, <3>5, <4>2
        <5>2. PICK i \in DOMAIN results : results[i].asset = a
          BY <5>1 DEF ScannerIInv
        <5> QED
          BY <1>1, <3>3, <5>2
      <4> QED
        BY <4>1, <4>2
    <3> QED
      BY <2>1, <2>2, <3>3, <3>4, <3>5 DEF ScannerIInv
  <2>4. CASE ~ Passes(f)
    <3>1. results' = results
      BY <1>2, <2>4 DEF LooksAt
    <3>2. \A i \in DOMAIN results' :
            /\ results'[i].asset \in DOMAIN facts' /\ Passes(facts'[results'[i].asset])
            /\ results'[i].rank = RankScore(facts'[results'[i].asset])
      BY <1>1, <2>1, <3>1 DEF ScannerIInv
    <3>3. \A a \in DOMAIN facts' : Passes(facts'[a]) => \E i \in DOMAIN results' : results'[i].asset = a
      <4> SUFFICES ASSUME NEW a \in DOMAIN facts', Passes(facts'[a])
                   PROVE  \E i \in DOMAIN results : results[i].asset = a
        BY <3>1
      <4>1. a \in DOMAIN facts /\ facts'[a] = facts[a]
        BY <1>1, <2>1, <2>4
      <4> QED
        BY <4>1 DEF ScannerIInv
    <3> QED
      BY <1>1, <2>1, <2>2, <3>1, <3>2, <3>3 DEF ScannerIInv
  <2> QED
    BY <2>3, <2>4
<1>3. CASE Ranks
  BY <1>3 DEF Ranks, ScannerIInv
<1>4. CASE UNCHANGED scannerVars
  BY <1>4 DEF scannerVars, ScannerIInv
<1> QED
  BY <1>2, <1>3, <1>4 DEF ScannerNext

\* The assets left out come after those that are shown.
LEMMA ScannerImplies == ScannerIInv => BestAreRanked
<1> SUFFICES ASSUME ScannerIInv, ranking # <<>> PROVE BestAreRanked
  BY DEF BestAreRanked
<1> DEFINE key == [i \in DOMAIN results |-> - results[i].rank]
           sorted == SortedBy(results, key)
           N == Len(results)
           shown == {ranking[i].asset : i \in DOMAIN ranking}
           out == {a \in DOMAIN facts : Passes(facts[a])} \ shown
           unknown(a) == ~facts[a].judged.id \/ facts[a].judged.raises
<1>1. /\ results \in Seq(RankedAssets) /\ N \in Nat /\ DOMAIN results = 1 .. N
      /\ \A i \in 1 .. N : results[i] \in RankedAssets
      /\ \A i \in 1 .. N : results[i].rank \in Int
  <2>1. results \in Seq(RankedAssets)
    BY DEF ScannerIInv
  <2>2. N \in Nat /\ DOMAIN results = 1 .. N
    BY <2>1, LenProperties
  <2>3. \A i \in 1 .. N : results[i] \in RankedAssets
    BY <2>1, ElementOfSeq
  <2> HIDE DEF N
  <2> QED
    BY <2>1, <2>2, <2>3 DEF RankedAssets
<1>2. key \in [DOMAIN results -> Int] /\ \A i \in 1 .. N : key[i] = - results[i].rank
  BY <1>1
<1> DEFINE at == [n \in 1 .. N |-> Ranked(key, n)]
<1>3. /\ sorted \in Seq(RankedAssets) /\ Len(sorted) = N
      /\ \A n \in 1 .. N : Ranked(key, n) \in 1 .. N /\ sorted[n] = results[Ranked(key, n)]
      /\ \A m, n \in 1 .. N : m < n => key[Ranked(key, m)] <= key[Ranked(key, n)]
      /\ \A i \in 1 .. N : \E n \in 1 .. N : Ranked(key, n) = i
  <2> HIDE DEF key
  <2>1. results \in Seq(RankedAssets)
    BY <1>1
  <2>2. key \in [DOMAIN results -> Int]
    BY <1>2
  <2> QED
    BY <2>1, <2>2, SortedInOrder
<1>4. /\ at \in [1 .. N -> 1 .. N]
      /\ \A n \in 1 .. N : sorted[n] = results[at[n]]
      /\ \A m, n \in 1 .. N : m < n => key[at[m]] <= key[at[n]]
      /\ \A i \in 1 .. N : \E n \in 1 .. N : at[n] = i
  <2> HIDE DEF key, sorted, N
  <2> QED
    BY <1>3
<1>5. ranking = Top(sorted)
  BY DEF ScannerIInv
<1> HIDE DEF sorted, key, N, at
<1> DEFINE M == IF N < TopN THEN N ELSE TopN
<1>6. M \in Nat /\ M <= N /\ (M < N => M = TopN)
  BY <1>1, ScannerAssumption
<1>7. /\ ranking \in Seq(RankedAssets) /\ Len(ranking) = M /\ DOMAIN ranking = 1 .. M
      /\ \A n \in 1 .. M : ranking[n] = results[at[n]]
  <2>1. ranking = SubSeq(sorted, 1, M)
    BY <1>3, <1>5 DEF Top
  <2> HIDE DEF M
  <2>2. \A n \in 1 .. M : n \in 1 .. N
    BY <1>1, <1>6
  <2>3. \A n \in 1 .. M : sorted[n] = results[at[n]] /\ sorted[n] \in RankedAssets
    BY <1>1, <1>4, <2>2
  <2>4. ranking \in Seq(RankedAssets) /\ Len(ranking) = M /\ \A n \in 1 .. M : ranking[n] = sorted[n]
    BY <1>3, <1>6, <2>1, <2>3
  <2> QED
    BY <2>3, <2>4, LenProperties
<1> HIDE DEF M
<1>8. \A m, n \in 1 .. N : m < n => results[at[m]].rank >= results[at[n]].rank
  <2> SUFFICES ASSUME NEW m \in 1 .. N, NEW n \in 1 .. N, m < n
               PROVE  results[at[m]].rank >= results[at[n]].rank
    OBVIOUS
  <2>1. key[at[m]] <= key[at[n]] /\ at[m] \in 1 .. N /\ at[n] \in 1 .. N
    BY <1>4
  <2>2. key[at[m]] = - results[at[m]].rank /\ key[at[n]] = - results[at[n]].rank
    BY <1>2, <2>1
  <2>3. results[at[m]].rank \in Int /\ results[at[n]].rank \in Int
    BY <1>1, <2>1
  <2> QED
    BY <2>1, <2>2, <2>3
<1>9. \A i, j \in DOMAIN ranking : i < j => ranking[i].rank >= ranking[j].rank
  <2> SUFFICES ASSUME NEW i \in 1 .. M, NEW j \in 1 .. M, i < j
               PROVE  ranking[i].rank >= ranking[j].rank
    BY <1>7
  <2>1. i \in 1 .. N /\ j \in 1 .. N
    BY <1>1, <1>6
  <2> QED
    BY <1>7, <1>8, <2>1
<1>10. ASSUME NEW a \in out
       PROVE  /\ M < N
              /\ \A i \in DOMAIN ranking : RankScore(facts[a]) <= ranking[i].rank
  <2>1. PICK i \in 1 .. N : results[i].asset = a
    BY <1>1 DEF ScannerIInv
  <2>2. PICK n \in 1 .. N : at[n] = i
    BY <1>4
  <2>3. n \notin 1 .. M
    BY <1>7, <2>1, <2>2
  <2>4. n > M /\ M < N
    BY <1>1, <1>6, <2>3
  <2>5. results[i].rank = RankScore(facts[a])
    BY <1>1, <2>1 DEF ScannerIInv
  <2>6. \A m \in 1 .. M : m \in 1 .. N /\ m < n
    BY <1>1, <1>6, <2>4
  <2>7. \A m \in 1 .. M : results[at[m]].rank >= results[at[n]].rank
    BY <1>8, <2>6
  <2> QED
    BY <1>7, <2>2, <2>4, <2>5, <2>7
<1>11. out # {} => Len(ranking) = TopN
  BY <1>6, <1>7, <1>10
<1>12. ASSUME NEW a \in out, NEW b \in shown, unknown(a)
       PROVE  facts[b].payout >= facts[a].payout
  <2>1. PICK n \in 1 .. M : b = results[at[n]].asset /\ ranking[n] = results[at[n]]
    BY <1>7
  <2>2. n \in 1 .. N /\ at[n] \in 1 .. N
    <3>1. n \in 1 .. N
      BY <1>1, <1>6
    <3> QED
      BY <1>4, <3>1
  <2>3. b \in DOMAIN facts /\ results[at[n]].rank = RankScore(facts[b])
    BY <1>1, <2>1, <2>2 DEF ScannerIInv
  <2>4. RankScore(facts[a]) <= RankScore(facts[b])
    BY <1>7, <1>10, <2>1, <2>3
  <2>5. facts[a] \in Facts /\ facts[b] \in Facts
    BY <2>3, LenProperties, ElementOfSeq DEF ScannerIInv
  <2>6. /\ facts[a].payout \in 0 .. 100 /\ RankScore(facts[a]) = facts[a].payout * 100
        /\ facts[b].payout \in 0 .. 100 /\ QualityOf(facts[b].judged) \in 0 .. 100
        /\ RankScore(facts[b]) = facts[b].payout * QualityOf(facts[b].judged)
    BY <1>12, <2>5, FactType DEF RankScore
  <2>7. facts[b].payout * QualityOf(facts[b].judged) <= facts[b].payout * 100
    BY ZenonT(30), <2>6, PercentOfWhole
  <2>8. facts[a].payout * 100 <= facts[b].payout * 100
    <3>1. /\ facts[a].payout * 100 \in Int /\ facts[b].payout * 100 \in Int
          /\ facts[b].payout * QualityOf(facts[b].judged) \in Int
      BY ZenonT(30), <2>6, PercentOfWhole
    <3> QED
      BY <2>4, <2>6, <2>7, <3>1
  <2> QED
    BY <2>6, <2>8, PercentOfWhole
<1> QED
  BY <1>9, <1>10, <1>11, <1>12 DEF BestAreRanked

\* BestAreRanked: get_best_payout_assets() returns the best of the assets that pass, for
\* any number of them and whatever the others say, or fail to say, of each.
THEOREM RankingIsBest == ScannerSpec => []BestAreRanked
BY ScannerInitial, ScannerInductive, ScannerImplies, PTL DEF ScannerSpec
=============================================================================
