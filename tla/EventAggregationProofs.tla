----------------------- MODULE EventAggregationProofs -----------------------
(***************************************************************************)
(* What EventAggregation guarantees for every sequence of events and every *)
(* cap of the store: an aggregate that stayed is the summary of its points, *)
(* what leaves is the oldest, every event lies in its bucket, and a query   *)
(* with aligned bounds answers exactly.                                    *)
(*                                                                         *)
(* The argument: AggInv relates the store to the history of its points.    *)
(* An entry never evicted is SummaryIn of its key; any other claims no     *)
(* more than that (Bounded), which is what survives an eviction followed   *)
(* by a late event of the same bucket.  That points come in pairs, an hour *)
(* and a day point of one value, carries over to queries by days.          *)
(***************************************************************************)
EXTENDS EventAggregation, SetLemmas, SequenceTheorems

(* The points an event can have, and those whose value is usable.          *)
Buckets == {"hour", "day"}
AllPoints == {Point(e, m, b) : e \in Events, m \in Range(Metrics), b \in Buckets}
UsablePoints == {p \in AllPoints : p.value \in ValidRange}

(* What the hour and the day upsert of one value have in common. *)
Twins(p, r) ==
    /\ p.key.bucket = "hour" /\ r.key.bucket = "day" /\ p.key.series = r.key.series
    /\ p.value = r.value /\ p.ts = r.ts /\ p.offset = r.offset

(* A sequence of such pairs. *)
Paired(s) ==
    \E n \in Nat : Len(s) = 2 * n /\ \A i \in 1..n : Twins(s[2 * i - 1], s[2 * i])

(* A usable point: its bucket starts at or before it and ends after it. *)
LEMMA PointType ==
    ASSUME NEW p \in UsablePoints
    PROVE  /\ p.value \in Int /\ p.ts \in Nat /\ p.offset \in Nat /\ p.key.bucket \in Buckets
           /\ p.key.start = FloorToBucket(p.ts, p.offset, p.key.bucket)
           /\ p.key.start \in Int /\ p.key.start <= p.ts
           /\ p.ts < p.key.start + Ticks(p.key.bucket)
<1>1. PICK e \in Events, m \in Range(Metrics), b \in Buckets : p = Point(e, m, b)
  BY DEF UsablePoints, AllPoints
<1>2. p.ts = e.ts /\ p.offset = e.offset /\ p.key.bucket = b
      /\ p.key.start = FloorToBucket(e.ts, e.offset, b)
  BY <1>1 DEF Point
<1>3. e.ts \in Nat /\ e.offset \in Nat /\ Ticks(b) \in Nat /\ Ticks(b) > 0
  BY AggregationAssumption DEF Ticks
<1>4. (e.ts + e.offset) % Ticks(b) \in 0..(Ticks(b) - 1)
  BY <1>3
<1>5. p.value \in Int
  BY AggregationAssumption DEF UsablePoints
<1> QED BY <1>2, <1>3, <1>4, <1>5 DEF FloorToBucket

(* A paired sequence stays one when an hour and a day point are added. *)
LEMMA TwoMore ==
    ASSUME NEW s \in Seq(UsablePoints), Paired(s), NEW p \in UsablePoints,
           NEW r \in UsablePoints, Twins(p, r)
    PROVE  s \o <<p, r>> \in Seq(UsablePoints) /\ Paired(s \o <<p, r>>)
<1> DEFINE t == s \o <<p, r>>
<1>1. PICK n \in Nat : Len(s) = 2 * n /\ \A i \in 1..n : Twins(s[2 * i - 1], s[2 * i])
  BY DEF Paired
<1>2. t \in Seq(UsablePoints) /\ Len(t) = 2 * (n + 1)
  BY <1>1
<1>3. \A i \in 1..(2 * n) : t[i] = s[i]
  BY <1>1
<1>4. t[2 * n + 1] = p /\ t[2 * n + 2] = r
  BY <1>1
<1>5. ASSUME NEW i \in 1..(n + 1) PROVE Twins(t[2 * i - 1], t[2 * i])
  <2>1. CASE i = n + 1
    <3>1. 2 * i - 1 = 2 * n + 1 /\ 2 * i = 2 * n + 2
      BY <2>1
    <3> QED BY <1>4, <3>1
  <2>2. CASE i \in 1..n
    <3>1. 2 * i - 1 \in 1..(2 * n) /\ 2 * i \in 1..(2 * n)
      BY <2>2
    <3> QED BY <1>1, <1>3, <2>2, <3>1
  <2>3. i = n + 1 \/ i \in 1..n
    OBVIOUS
  <2> QED BY <2>1, <2>2, <2>3
<1>6. n + 1 \in Nat
  OBVIOUS
<1> HIDE DEF t
<1>7. t \in Seq(UsablePoints) /\ Paired(t)
  BY <1>2, <1>5, <1>6 DEF Paired
<1> QED BY <1>7 DEF t

(* What _process_reading upserts for an event: usable values only, in pairs. *)
LEMMA PointsOfEvent ==
    ASSUME NEW e \in Events
    PROVE  PointsOf(e) \in Seq(UsablePoints) /\ Paired(PointsOf(e))
<1> DEFINE N == Len(Metrics)
           hour(i) == Point(e, Metrics[i], "hour")
           day(i) == Point(e, Metrics[i], "day")
           Next1(f, i) == IF i = 0 THEN <<>>
                         ELSE IF e.values[Metrics[i]] \notin ValidRange THEN f[i - 1]
                         ELSE f[i - 1] \o <<hour(i), day(i)>>
           Loop(f, n) == f = [i \in 0..n |-> Next1(f, i)]
           Good(s) == s \in Seq(UsablePoints) /\ Paired(s)
<1>1. N \in Nat /\ \A i \in 1..N : Metrics[i] \in Range(Metrics)
  BY AggregationAssumption
<1>2. ASSUME NEW i \in 1..N, e.values[Metrics[i]] \in ValidRange
      PROVE  hour(i) \in UsablePoints /\ day(i) \in UsablePoints /\ Twins(hour(i), day(i))
  <2>1. hour(i) \in AllPoints /\ day(i) \in AllPoints
    BY <1>1 DEF AllPoints, Buckets
  <2>2. hour(i).value = e.values[Metrics[i]] /\ day(i).value = e.values[Metrics[i]]
    BY DEF Point
  <2>3. Twins(hour(i), day(i))
    BY DEF Twins, Point
  <2> HIDE DEF hour, day
  <2> QED BY <1>2, <2>1, <2>2, <2>3 DEF UsablePoints
<1>3. \A n \in 0..N : \E f : Loop(f, n)
  <2> DEFINE Bad == {n \in 0..N : ~\E f : Loop(f, n)}
  <2> SUFFICES ASSUME Bad # {} PROVE FALSE
    OBVIOUS
  <2>1. Bad \in SUBSET Nat
    BY <1>1
  <2>2. PICK n \in Bad : \A k \in Bad : n <= k
    <3> HIDE DEF Bad
    <3> QED BY <2>1, SmallestNumber
  <2>3. n # 0
    <3> DEFINE f == [i \in 0..0 |-> <<>>]
    <3>1. Loop(f, 0)
      OBVIOUS
    <3> QED BY <2>2, <3>1
  <2>4. n - 1 \in 0..N /\ n - 1 \notin Bad
    <3>1. n \in 0..N /\ ~(n <= n - 1)
      BY <1>1, <2>2
    <3>2. n - 1 \in 0..N
      BY <1>1, <2>3, <3>1
    <3>3. n - 1 \notin Bad
      <4> HIDE DEF Bad
      <4> QED BY <2>2, <3>1
    <3> QED BY <3>2, <3>3
  <2>5. PICK g : Loop(g, n - 1)
    BY <2>4
  <2> DEFINE f == [i \in 0..n |-> IF i = n THEN Next1(g, n) ELSE g[i]]
  <2>6. \A i \in 0..n : f[i] = Next1(f, i)
    <3> SUFFICES ASSUME NEW i \in 0..n PROVE f[i] = Next1(f, i)
      OBVIOUS
    <3>1. i # n => i \in 0..(n - 1)
      BY <1>1
    <3>2. i # 0 => i - 1 \in 0..n /\ i - 1 # n
      BY <1>1
    <3>3. i # n => g[i] = Next1(g, i)
      BY <2>5, <3>1
    <3> QED BY <3>2, <3>3
  <2>7. Loop(f, n)
    BY <2>6
  <2> QED BY <2>2, <2>7
<1>4. \E f : Loop(f, N)
  <2>1. N \in 0..N
    BY <1>1
  <2> HIDE DEF Loop
  <2> QED BY <1>3, <2>1
<1>5. \A f2 : Loop(f2, N) => Good(f2[N])
  <2> SUFFICES ASSUME NEW f2, Loop(f2, N) PROVE Good(f2[N])
    OBVIOUS
  <2> DEFINE Bad == {n \in 0..N : ~Good(f2[n])}
  <2>0. SUFFICES ASSUME Bad # {} PROVE FALSE
    <3>1. N \in 0..N
      BY <1>1
    <3> HIDE DEF Good, Loop
    <3> QED BY <3>1
  <2>1. Bad \in SUBSET Nat
    BY <1>1
  <2>2. PICK n \in Bad : \A k \in Bad : n <= k
    <3> HIDE DEF Bad
    <3> QED BY <2>0, <2>1, SmallestNumber
  <2>3. f2[n] = Next1(f2, n)
    OBVIOUS
  <2>4. n # 0
    <3>1. <<>> \in Seq(UsablePoints) /\ Len(<<>>) = 2 * 0
      OBVIOUS
    <3>2. Paired(<<>>)
      BY <3>1 DEF Paired
    <3> QED BY <2>2, <2>3, <3>1, <3>2
  <2>5. n - 1 \in 0..N /\ n - 1 \notin Bad /\ n \in 1..N
    BY <1>1, <2>2, <2>4
  <2>6. Good(f2[n - 1])
    BY <2>5
  <2> HIDE DEF hour, day
  <2> QED BY <1>2, <2>2, <2>3, <2>4, <2>5, <2>6, TwoMore
<1>6. PointsOf(e) = (CHOOSE f2 : Loop(f2, N))[N]
  BY DEF PointsOf
<1> HIDE DEF Loop, Good
<1>7. Loop(CHOOSE f2 : Loop(f2, N), N)
  BY <1>4
<1>8. Good(PointsOf(e))
  BY <1>5, <1>6, <1>7
<1> QED BY <1>8 DEF Good

-----------------------------------------------------------------------------
(* What the store holds: entries of distinct keys. *)
PointKeys == {p.key : p \in UsablePoints}
Entries == [key : PointKeys, count : Nat, total : Int, low : Int, high : Int, latest : Nat]
KeysApart(s) == \A i, j \in DOMAIN s : s[i].key = s[j].key => i = j
Typed(s) == s \in Seq(Entries) /\ KeysApart(s)

(* Entries stay entries, of the same key. *)
LEMMA EntryTypes ==
    ASSUME NEW p \in UsablePoints
    PROVE  /\ NewEntry(p) \in Entries /\ NewEntry(p).key = p.key
           /\ \A e \in Entries : Updated(e, p) \in Entries /\ Updated(e, p).key = e.key
<1>1. p.value \in Int /\ p.ts \in Nat /\ p.key \in PointKeys
  BY PointType DEF PointKeys
<1>2. NewEntry(p) \in Entries /\ NewEntry(p).key = p.key
  BY <1>1 DEF NewEntry, Entries
<1>3. ASSUME NEW e \in Entries PROVE Updated(e, p) \in Entries /\ Updated(e, p).key = e.key
  <2>1. /\ e.count + 1 \in Nat /\ e.total + p.value \in Int /\ e.low \in Int
        /\ e.high \in Int /\ e.latest \in Nat
    BY <1>1 DEF Entries
  <2>2. Min({e.low, p.value}) \in Int
    BY <1>1, <2>1, OfTwo
  <2>3. Max({e.high, p.value}) \in Int
    BY <1>1, <2>1, OfTwo
  <2>4. Max({e.latest, p.ts}) \in Nat
    BY <1>1, <2>1, OfTwo
  <2> QED BY <2>1, <2>2, <2>3, <2>4 DEF Updated, Entries
<1> QED BY <1>2, <1>3

(* Buckets start at instants. *)
LEMMA StartsAreNumbers == ASSUME NEW e \in Entries PROVE e.key.start \in Int
BY PointType DEF Entries, PointKeys

(* min() over the store finds an entry, and none starts before it. *)
LEMMA OldestExists ==
    ASSUME NEW s \in Seq(Entries), s # <<>>
    PROVE  /\ Oldest(s) \in DOMAIN s
           /\ \A j \in DOMAIN s : s[Oldest(s)].key.start <= s[j].key.start
<1> DEFINE start == [i \in DOMAIN s |-> s[i].key.start]
           starts == {start[i] : i \in DOMAIN start}
<1>1. DOMAIN s = 1..Len(s) /\ Len(s) \in Nat /\ 1 \in DOMAIN s
  OBVIOUS
<1>2. IsFiniteSet(starts)
  <2>1. IsFiniteSet(DOMAIN start)
    BY <1>1, FS_Interval
  <2> HIDE DEF start
  <2> QED BY <2>1, ImageIsFinite
<1>3. \A i \in DOMAIN s : s[i].key.start \in Int
  BY StartsAreNumbers
<1>4. starts \in SUBSET Int /\ starts # {}
  BY <1>1, <1>3
<1>5. Min(starts) \in starts /\ \A y \in starts : Min(starts) <= y
  <2> HIDE DEF starts
  <2> QED BY <1>2, <1>4, LeastExists
<1> DEFINE firsts == {i \in DOMAIN s : s[i].key.start = Min(starts)}
<1>6. firsts \in SUBSET Nat /\ firsts # {}
  <2>1. PICK i \in DOMAIN s : Min(starts) = s[i].key.start
    BY <1>5
  <2>2. firsts \in SUBSET Nat
    BY <1>1
  <2>3. i \in firsts
    BY <2>1
  <2> QED BY <2>2, <2>3
<1>7. PICK n \in firsts : \A k \in firsts : n <= k
  <2> HIDE DEF firsts
  <2> QED BY <1>6, SmallestNumber
<1>8. \A j \in DOMAIN s : s[n].key.start <= s[j].key.start
  BY <1>5, <1>7
<1>9. \A j \in DOMAIN s : \/ s[n].key.start < s[j].key.start
                          \/ s[n].key.start = s[j].key.start /\ n <= j
  <2> SUFFICES ASSUME NEW j \in DOMAIN s, ~(s[n].key.start < s[j].key.start)
               PROVE  s[n].key.start = s[j].key.start /\ n <= j
    OBVIOUS
  <2>1. s[n].key.start = s[j].key.start
    BY <1>3, <1>8
  <2>2. j \in firsts
    BY <1>7, <2>1
  <2> QED BY <1>7, <2>1, <2>2
<1>10. /\ Oldest(s) \in DOMAIN s
       /\ \A j \in DOMAIN s : \/ s[Oldest(s)].key.start < s[j].key.start
                              \/ s[Oldest(s)].key.start = s[j].key.start /\ Oldest(s) <= j
  <2>1. n \in DOMAIN s
    OBVIOUS
  <2> HIDE DEF firsts, starts
  <2> QED BY <1>9, <2>1 DEF Oldest
<1>11. \A j \in DOMAIN s : s[Oldest(s)].key.start <= s[j].key.start
  BY <1>3, <1>10
<1> QED BY <1>10, <1>11

(* Deleting one entry keeps the others, in order. *)
LEMMA Removed ==
    ASSUME NEW S, NEW s \in Seq(S), NEW i \in DOMAIN s
    PROVE  /\ RemoveAt(s, i) \in Seq(S) /\ Len(RemoveAt(s, i)) = Len(s) - 1
           /\ \A j \in 1..(Len(s) - 1) : RemoveAt(s, i)[j] = IF j < i THEN s[j] ELSE s[j + 1]
<1>1. i \in 1..Len(s) /\ Len(s) \in Nat
  OBVIOUS
<1>2. /\ SubSeq(s, 1, i - 1) \in Seq(S) /\ Len(SubSeq(s, 1, i - 1)) = i - 1
      /\ \A j \in 1..(i - 1) : SubSeq(s, 1, i - 1)[j] = s[j]
  BY <1>1, SubSeqProperties
<1>3. /\ SubSeq(s, i + 1, Len(s)) \in Seq(S) /\ Len(SubSeq(s, i + 1, Len(s))) = Len(s) - i
      /\ \A j \in 1..(Len(s) - i) : SubSeq(s, i + 1, Len(s))[j] = s[i + j]
  BY <1>1, SubSeqProperties
<1> DEFINE a == SubSeq(s, 1, i - 1)
           b == SubSeq(s, i + 1, Len(s))
<1> HIDE DEF a, b
<1>4. /\ a \o b \in Seq(S) /\ Len(a \o b) = Len(s) - 1
      /\ \A j \in 1..(Len(s) - 1) : (a \o b)[j] = IF j < i THEN s[j] ELSE s[j + 1]
  <2>1. /\ a \in Seq(S) /\ Len(a) = i - 1 /\ \A j \in 1..(i - 1) : a[j] = s[j]
        /\ b \in Seq(S) /\ Len(b) = Len(s) - i /\ \A j \in 1..(Len(s) - i) : b[j] = s[i + j]
    BY <1>2, <1>3 DEF a, b
  <2>2. ASSUME NEW j \in 1..(Len(s) - 1)
        PROVE  (a \o b)[j] = IF j < i THEN s[j] ELSE s[j + 1]
    <3>1. CASE j < i
      BY <1>1, <2>1, <3>1
    <3>2. CASE ~(j < i)
      <4>0. j \in 1..(Len(a) + Len(b)) /\ ~(j <= Len(a))
        BY <1>1, <2>1, <3>2
      <4>1. (a \o b)[j] = b[j - Len(a)]
        BY <2>1, <4>0, ConcatProperties
      <4>2. i + (j - (i - 1)) = j + 1 /\ j - (i - 1) \in 1..(Len(s) - i)
        BY <1>1, <3>2
      <4> QED BY <2>1, <3>2, <4>1, <4>2
    <3> QED BY <3>1, <3>2
  <2> QED BY <1>1, <2>1, <2>2
<1> QED BY <1>4 DEF a, b, RemoveAt

(* A point of a known key updates the one entry of that key. *)
LEMMA UpsertKnown ==
    ASSUME Typed(data), NEW p \in UsablePoints, UpsertAggregate(p),
           NEW e \in ToSet(data), e.key = p.key
    PROVE  /\ Typed(data')
           /\ ToSet(data') = (ToSet(data) \ {e}) \cup {Updated(e, p)}
<1>1. PICK i \in DOMAIN data : e = data[i]
  BY DEF ToSet
<1>2. Position(p.key) = {i}
  BY <1>1 DEF Position, Typed, KeysApart
<1>3. data' = [j \in DOMAIN data |-> IF j = i THEN Updated(e, p) ELSE data[j]]
  BY <1>1, <1>2 DEF UpsertAggregate
<1>4. \A j \in DOMAIN data : data[j] \in Entries
  BY DEF Typed
<1>5. Updated(e, p) \in Entries /\ Updated(e, p).key = e.key
  BY <1>1, <1>4, EntryTypes
<1>6. DOMAIN data' = DOMAIN data /\ data'[i] = Updated(e, p)
      /\ \A j \in DOMAIN data : j # i => data'[j] = data[j]
  BY <1>3
<1>7. data' \in Seq(Entries)
  <2>1. DOMAIN data = 1..Len(data) /\ Len(data) \in Nat
    BY DEF Typed
  <2>2. data' \in [1..Len(data) -> Entries]
    BY <1>3, <1>4, <1>5, <2>1
  <2> QED BY <2>1, <2>2
<1>8. KeysApart(data')
  <2>1. \A j \in DOMAIN data : data'[j].key = data[j].key
    BY <1>1, <1>5, <1>6
  <2> QED BY <1>6, <2>1 DEF KeysApart, Typed
<1>9. ToSet(data') = (ToSet(data) \ {e}) \cup {Updated(e, p)}
  <2>1. \A j \in DOMAIN data : j # i => data[j] # e
    BY <1>1 DEF Typed, KeysApart
  <2>2. \A x \in ToSet(data') : x \in (ToSet(data) \ {e}) \cup {Updated(e, p)}
    BY <1>6, <2>1 DEF ToSet
  <2>3. \A x \in ToSet(data) \ {e} : x \in ToSet(data')
    BY <1>1, <1>6 DEF ToSet
  <2>4. Updated(e, p) \in ToSet(data')
    BY <1>6 DEF ToSet
  <2> QED BY <2>2, <2>3, <2>4
<1> QED BY <1>7, <1>8, <1>9 DEF Typed

(* A point of a new key adds an entry, and at most one, the oldest, goes. *)
LEMMA UpsertNew ==
    ASSUME Typed(data), NEW p \in UsablePoints, UpsertAggregate(p),
           p.key \notin Keys(data)
    PROVE  /\ Typed(data')
           /\ \E gone \in SUBSET (ToSet(data) \cup {NewEntry(p)}) :
                 /\ ToSet(data') = (ToSet(data) \cup {NewEntry(p)}) \ gone
                 /\ \A g, h \in gone : g = h
                 /\ \A g \in gone, x \in ToSet(data') : g.key.start <= x.key.start
<1> DEFINE grown == Append(data, NewEntry(p))
           n == Len(data) + 1
<1>1. Position(p.key) = {}
  BY DEF Position, Keys
<1>2. data' = IF Len(grown) > MaxBuckets THEN RemoveAt(grown, Oldest(grown)) ELSE grown
  BY <1>1 DEF UpsertAggregate, Inserted
<1>3. NewEntry(p) \in Entries /\ NewEntry(p).key = p.key
  BY EntryTypes
<1>4. /\ data \in Seq(Entries) /\ KeysApart(data) /\ Len(data) \in Nat
      /\ DOMAIN data = 1..Len(data)
  BY DEF Typed
<1>5. /\ grown \in Seq(Entries) /\ Len(grown) = n /\ DOMAIN grown = 1..n
      /\ grown[n] = NewEntry(p) /\ \A i \in 1..Len(data) : grown[i] = data[i]
  BY <1>3, <1>4
<1> HIDE DEF grown
<1>6. KeysApart(grown)
  <2> SUFFICES ASSUME NEW i \in 1..n, NEW j \in 1..n, grown[i].key = grown[j].key
               PROVE  i = j
    BY <1>5 DEF KeysApart
  <2>1. \A k \in 1..Len(data) : grown[k].key # p.key
    BY <1>4, <1>5 DEF Keys
  <2>2. i = n \/ i \in 1..Len(data)
    BY <1>4
  <2>3. j = n \/ j \in 1..Len(data)
    BY <1>4
  <2> QED BY <1>3, <1>4, <1>5, <2>1, <2>2, <2>3 DEF KeysApart
<1>7. ToSet(grown) = ToSet(data) \cup {NewEntry(p)}
  <2>1. \A i \in 1..n : i = n \/ i \in 1..Len(data)
    BY <1>4
  <2>2. \A x \in ToSet(grown) : x \in ToSet(data) \cup {NewEntry(p)}
    BY <1>4, <1>5, <2>1 DEF ToSet
  <2>3. \A x \in ToSet(data) : x \in ToSet(grown)
    <3>1. \A i \in 1..Len(data) : i \in 1..n
      BY <1>4
    <3> QED BY <1>4, <1>5, <3>1 DEF ToSet
  <2>4. NewEntry(p) \in ToSet(grown)
    <3>1. n \in 1..n
      BY <1>4
    <3> QED BY <1>5, <3>1 DEF ToSet
  <2> QED BY <2>2, <2>3, <2>4
<1>8. CASE ~(Len(grown) > MaxBuckets)
  <2>1. data' = grown
    BY <1>2, <1>8
  <2>2. ToSet(data') = (ToSet(data) \cup {NewEntry(p)}) \ {}
    BY <1>7, <2>1
  <2>3. \E gone \in SUBSET (ToSet(data) \cup {NewEntry(p)}) :
           /\ ToSet(data') = (ToSet(data) \cup {NewEntry(p)}) \ gone
           /\ \A g, h \in gone : g = h
           /\ \A g \in gone, x \in ToSet(data') : g.key.start <= x.key.start
    <3> WITNESS {} \in SUBSET (ToSet(data) \cup {NewEntry(p)})
    <3> QED BY <2>2
  <2> QED BY <1>5, <1>6, <2>1, <2>3 DEF Typed
<1>9. CASE Len(grown) > MaxBuckets
  <2> DEFINE old == Oldest(grown)
  <2>1. data' = RemoveAt(grown, old)
    BY <1>2, <1>9
  <2>2. grown # <<>>
    BY <1>4, <1>5
  <2>3. /\ old \in DOMAIN grown
        /\ \A j \in DOMAIN grown : grown[old].key.start <= grown[j].key.start
    BY <1>5, <2>2, OldestExists
  <2> HIDE DEF old
  <2>4. /\ data' \in Seq(Entries) /\ Len(data') = n - 1
        /\ \A j \in 1..(n - 1) : data'[j] = IF j < old THEN grown[j] ELSE grown[j + 1]
    BY <1>5, <2>1, <2>3, Removed
  <2>5. old \in 1..n /\ n \in Nat
    BY <1>4, <1>5, <2>3
  <2>6. DOMAIN data' = 1..(n - 1)
    BY <2>4, <2>5
  <2>7. KeysApart(data')
    <3> SUFFICES ASSUME NEW i \in 1..(n - 1), NEW j \in 1..(n - 1),
                        data'[i].key = data'[j].key
                 PROVE  i = j
      BY <2>6 DEF KeysApart
    <3> DEFINE up(k) == IF k < old THEN k ELSE k + 1
    <3>1. data'[i] = grown[up(i)] /\ data'[j] = grown[up(j)]
      BY <2>4
    <3>2. up(i) \in 1..n /\ up(j) \in 1..n
      BY <2>5
    <3>3. up(i) = up(j)
      <4> HIDE DEF up
      <4> QED BY <1>5, <1>6, <3>1, <3>2 DEF KeysApart
    <3> QED BY <2>5, <3>3
  <2>8. ToSet(data') = ToSet(grown) \ {grown[old]}
    <3>1. ASSUME NEW x \in ToSet(data') PROVE x \in ToSet(grown) /\ x # grown[old]
      <4>1. PICK i \in 1..(n - 1) : x = data'[i]
        BY <2>6 DEF ToSet
      <4>2. PICK k \in 1..n : k # old /\ x = grown[k]
        <5>1. i \in 1..n /\ i + 1 \in 1..n /\ (i < old => i # old) /\ (~(i < old) => i + 1 # old)
          BY <2>5
        <5> QED BY <2>4, <4>1, <5>1
      <4>3. x # grown[old]
        BY <1>5, <1>6, <2>5, <4>2 DEF KeysApart
      <4> QED BY <1>5, <4>2, <4>3 DEF ToSet
    <3>2. ASSUME NEW x \in ToSet(grown), x # grown[old] PROVE x \in ToSet(data')
      <4>1. PICK k \in 1..n : x = grown[k]
        BY <1>5 DEF ToSet
      <4>2. k # old
        BY <3>2, <4>1
      <4>3. CASE k < old
        <5>1. k \in 1..(n - 1)
          BY <2>5, <4>3
        <5>2. data'[k] = grown[k]
          BY <2>4, <4>3, <5>1
        <5> QED BY <2>6, <4>1, <5>1, <5>2 DEF ToSet
      <4>4. CASE k > old
        <5>1. k - 1 \in 1..(n - 1) /\ ~(k - 1 < old) /\ (k - 1) + 1 = k
          BY <2>5, <4>4
        <5>2. data'[k - 1] = grown[k]
          BY <2>4, <5>1
        <5> QED BY <2>6, <4>1, <5>1, <5>2 DEF ToSet
      <4> QED BY <2>5, <4>2, <4>3, <4>4
    <3> QED BY <3>1, <3>2
  <2>9. grown[old] \in ToSet(grown)
    BY <2>3 DEF ToSet
  <2>10. \A x \in ToSet(data') : grown[old].key.start <= x.key.start
    <3>1. \A x \in ToSet(grown) : grown[old].key.start <= x.key.start
      BY <2>3 DEF ToSet
    <3> QED BY <2>8, <3>1
  <2>11. {grown[old]} \in SUBSET (ToSet(data) \cup {NewEntry(p)})
    BY <1>7, <2>9
  <2>12. ToSet(data') = (ToSet(data) \cup {NewEntry(p)}) \ {grown[old]}
    BY <1>7, <2>8
  <2> QED BY <2>4, <2>7, <2>10, <2>11, <2>12 DEF Typed
<1> QED BY <1>8, <1>9

-----------------------------------------------------------------------------
(* Updated, field by field. *)
LEMMA UpdatedFields ==
    ASSUME NEW k, NEW c, NEW t, NEW l, NEW h, NEW n, NEW p
    PROVE  Updated([key |-> k, count |-> c, total |-> t, low |-> l, high |-> h,
                    latest |-> n], p)
             = [key |-> k, count |-> c + 1, total |-> t + p.value, low |-> Min({l, p.value}),
                high |-> Max({h, p.value}), latest |-> Max({n, p.ts})]
<1> DEFINE r(c1, t1, l1, h1, n1) ==
              [key |-> k, count |-> c1, total |-> t1, low |-> l1, high |-> h1, latest |-> n1]
           counted(x, v) == [x EXCEPT !.count = v]
           added(x, v) == [x EXCEPT !.total = v]
           lowered(x, v) == [x EXCEPT !.low = v]
           raised(x, v) == [x EXCEPT !.high = v]
           dated(x, v) == [x EXCEPT !.latest = v]
           e == r(c, t, l, h, n)
           low == Min({l, p.value})
           high == Max({h, p.value})
           latest == Max({n, p.ts})
<1>1. counted(e, c + 1) = r(c + 1, t, l, h, n)
  OBVIOUS
<1>2. ASSUME NEW c1, NEW v PROVE added(r(c1, t, l, h, n), v) = r(c1, v, l, h, n)
  OBVIOUS
<1>3. ASSUME NEW c1, NEW t1, NEW v PROVE lowered(r(c1, t1, l, h, n), v) = r(c1, t1, v, h, n)
  OBVIOUS
<1>4. ASSUME NEW c1, NEW t1, NEW l1, NEW v
      PROVE  raised(r(c1, t1, l1, h, n), v) = r(c1, t1, l1, v, n)
  OBVIOUS
<1>5. ASSUME NEW c1, NEW t1, NEW l1, NEW h1, NEW v
      PROVE  dated(r(c1, t1, l1, h1, n), v) = r(c1, t1, l1, h1, v)
  OBVIOUS
<1>6. e.count = c /\ e.total = t /\ e.low = l /\ e.high = h /\ e.latest = n
  OBVIOUS
<1> HIDE DEF r, e
<1>7. Updated(e, p)
        = dated(raised(lowered(added(counted(e, e.count + 1), e.total + p.value),
                               Min({e.low, p.value})),
                       Max({e.high, p.value})),
                Max({e.latest, p.ts}))
  BY DEF Updated
<1> HIDE DEF counted, added, lowered, raised, dated, low, high, latest
<1>8. Updated(e, p)
        = dated(raised(lowered(added(counted(e, c + 1), t + p.value), low), high), latest)
  BY <1>6, <1>7 DEF low, high, latest
<1>9. Updated(e, p) = r(c + 1, t + p.value, low, high, latest)
  BY <1>1, <1>2, <1>3, <1>4, <1>5, <1>8
<1> QED BY <1>9 DEF r, e, low, high, latest

-----------------------------------------------------------------------------
(* SummaryOf, for any sequence of points: what the properties say of points,
   the invariant says of points' too. *)
At(ps, key) == {i \in DOMAIN ps : ps[i].key = key}
ValuesOf(ps) == [i \in DOMAIN ps |-> ps[i].value]
SummaryIn(ps, key) ==
    [key |-> key, count |-> Cardinality(At(ps, key)),
     total |-> SumOver(ValuesOf(ps), At(ps, key)),
     low |-> Min({ps[i].value : i \in At(ps, key)}),
     high |-> Max({ps[i].value : i \in At(ps, key)}),
     latest |-> Max({ps[i].ts : i \in At(ps, key)})]

(* Sequences of usable points, and sets of their positions: *)
LEMMA PointsAreTyped ==
    ASSUME NEW ps \in Seq(UsablePoints)
    PROVE  /\ DOMAIN ps = 1..Len(ps) /\ Len(ps) \in Nat /\ IsFiniteSet(DOMAIN ps)
           /\ \A i \in DOMAIN ps :
                 /\ ps[i] \in UsablePoints /\ ps[i].value \in Int /\ ps[i].ts \in Nat
                 /\ ValuesOf(ps)[i] = ps[i].value
<1>1. DOMAIN ps = 1..Len(ps) /\ Len(ps) \in Nat /\ \A i \in DOMAIN ps : ps[i] \in UsablePoints
  OBVIOUS
<1>2. \A i \in DOMAIN ps : ps[i].value \in Int /\ ps[i].ts \in Nat
  BY <1>1, PointType
<1> QED BY <1>1, <1>2, FS_Interval DEF ValuesOf

(* ... what is taken from finitely many points is finite. *)
LEMMA SomeAreFinite ==
    ASSUME NEW ps \in Seq(UsablePoints), NEW at \in SUBSET DOMAIN ps
    PROVE  /\ IsFiniteSet(at) /\ Cardinality(at) \in Nat
           /\ {ps[i].value : i \in at} \in SUBSET Int /\ {ps[i].ts : i \in at} \in SUBSET Int
           /\ IsFiniteSet({ps[i].value : i \in at}) /\ IsFiniteSet({ps[i].ts : i \in at})
<1> DEFINE v == [i \in at |-> ps[i].value]
           t == [i \in at |-> ps[i].ts]
<1>1. IsFiniteSet(at) /\ Cardinality(at) \in Nat
  BY PointsAreTyped, FS_Subset, FS_CardinalityType
<1>2. {ps[i].value : i \in at} = {v[i] : i \in DOMAIN v} /\ DOMAIN v = at
  OBVIOUS
<1>3. {ps[i].ts : i \in at} = {t[i] : i \in DOMAIN t} /\ DOMAIN t = at
  OBVIOUS
<1>4. {ps[i].value : i \in at} \in SUBSET Int /\ {ps[i].ts : i \in at} \in SUBSET Int
  BY PointsAreTyped
<1> HIDE DEF v, t
<1> QED BY <1>1, <1>2, <1>3, <1>4, ImageIsFinite, ZenonT(40)

(* One more point. *)
LEMMA Appended ==
    ASSUME NEW ps \in Seq(UsablePoints), NEW p \in UsablePoints
    PROVE  /\ Append(ps, p) \in Seq(UsablePoints) /\ Len(Append(ps, p)) = Len(ps) + 1
           /\ Append(ps, p)[Len(ps) + 1] = p
           /\ \A i \in DOMAIN ps : i # Len(ps) + 1 /\ Append(ps, p)[i] = ps[i]
           /\ DOMAIN Append(ps, p) = DOMAIN ps \cup {Len(ps) + 1}
OBVIOUS

(* A point leaves the summaries of other keys alone, *)
LEMMA SummaryOfOthers ==
    ASSUME NEW ps \in Seq(UsablePoints), NEW p \in UsablePoints, NEW key, key # p.key
    PROVE  SummaryIn(Append(ps, p), key) = SummaryIn(ps, key)
<1> DEFINE qs == Append(ps, p)
<1>1. /\ DOMAIN qs = DOMAIN ps \cup {Len(ps) + 1} /\ qs[Len(ps) + 1] = p
      /\ \A i \in DOMAIN ps : qs[i] = ps[i]
  BY Appended
<1>2. qs \in Seq(UsablePoints)
  BY Appended
<1> HIDE DEF qs
<1>3. At(qs, key) = At(ps, key)
  BY <1>1 DEF At
<1> DEFINE at == At(ps, key)
<1>4. at \in SUBSET DOMAIN ps /\ IsFiniteSet(at)
  <2>1. at \in SUBSET DOMAIN ps
    BY DEF At
  <2> HIDE DEF at
  <2> QED BY <2>1, SomeAreFinite
<1>5. \A i \in at : qs[i] = ps[i]
  BY <1>1, <1>4
<1>6. SumOver(ValuesOf(qs), at) = SumOver(ValuesOf(ps), at)
  <2>1. \A i \in at : ValuesOf(ps)[i] \in Int /\ ValuesOf(qs)[i] = ValuesOf(ps)[i]
    <3>1. \A i \in at : i \in DOMAIN ps /\ i \in DOMAIN qs
      BY <1>1, <1>4
    <3> QED BY <1>2, <1>5, <3>1, PointsAreTyped
  <2> HIDE DEF at
  <2> QED BY <1>4, <2>1, SumAgrees
<1>7. /\ {qs[i].value : i \in at} = {ps[i].value : i \in at}
      /\ {qs[i].ts : i \in at} = {ps[i].ts : i \in at}
  BY <1>5
<1> QED BY <1>3, <1>6, <1>7 DEF SummaryIn, qs

(* begins that of a key it is the first of, *)
LEMMA SummaryOfFirst ==
    ASSUME NEW ps \in Seq(UsablePoints), NEW p \in UsablePoints, At(ps, p.key) = {}
    PROVE  SummaryIn(Append(ps, p), p.key) = NewEntry(p)
<1> DEFINE qs == Append(ps, p)
           n == Len(ps) + 1
<1>1. /\ DOMAIN qs = DOMAIN ps \cup {n} /\ qs[n] = p
      /\ \A i \in DOMAIN ps : qs[i] = ps[i]
  BY Appended
<1>2. qs \in Seq(UsablePoints)
  BY Appended
<1> HIDE DEF qs, n
<1>3. At(qs, p.key) = {n}
  BY <1>1 DEF At
<1>4. p.value \in Int /\ p.ts \in Nat /\ ValuesOf(qs)[n] = p.value
  BY <1>1, <1>2, PointType, PointsAreTyped
<1>5. Cardinality({n}) = 1 /\ IsFiniteSet({n})
  BY FS_Singleton
<1>6. SumOver(ValuesOf(qs), {n}) = p.value
  <2>1. \A x \in {n} : ValuesOf(qs)[x] \in Int
    BY <1>4
  <2>2. /\ SumOver(ValuesOf(qs), {}) = 0
        /\ SumOver(ValuesOf(qs), {n}) = ValuesOf(qs)[n] + SumOver(ValuesOf(qs), {n} \ {n})
    BY <1>5, <2>1, SumFacts
  <2>3. {n} \ {n} = {}
    OBVIOUS
  <2>4. SumOver(ValuesOf(qs), {n}) = p.value + 0
    BY <1>4, <2>2, <2>3
  <2> QED BY <1>4, <2>4
<1>7. /\ {qs[i].value : i \in {n}} = {p.value}
      /\ {qs[i].ts : i \in {n}} = {p.ts}
  BY <1>1
<1>8. /\ Min({p.value}) = p.value /\ Max({p.value}) = p.value
      /\ Max({p.ts}) = p.ts
  <2>1. p.ts \in Int
    BY <1>4
  <2>2. Max({p.ts}) = p.ts
    BY <2>1, OfOne
  <2> QED BY <1>4, <2>2, OfOne
<1> QED BY <1>3, <1>5, <1>6, <1>7, <1>8 DEF SummaryIn, NewEntry, qs

(* and updates that of a key that had points. *)
LEMMA SummaryOfMore ==
    ASSUME NEW ps \in Seq(UsablePoints), NEW p \in UsablePoints, At(ps, p.key) # {}
    PROVE  SummaryIn(Append(ps, p), p.key) = Updated(SummaryIn(ps, p.key), p)
<1> DEFINE qs == Append(ps, p)
           n == Len(ps) + 1
           at == At(ps, p.key)
<1>1. /\ DOMAIN qs = DOMAIN ps \cup {n} /\ qs[n] = p /\ n \notin DOMAIN ps
      /\ \A i \in DOMAIN ps : qs[i] = ps[i]
  BY Appended
<1>2. qs \in Seq(UsablePoints)
  BY Appended
<1> HIDE DEF qs, n
<1>3. at \in SUBSET DOMAIN ps /\ n \notin at /\ At(qs, p.key) = at \cup {n}
  BY <1>1 DEF At
<1>4. p.value \in Int /\ p.ts \in Nat
  BY PointType
<1> HIDE DEF at
<1>5. /\ IsFiniteSet(at) /\ Cardinality(at) \in Nat
      /\ {ps[i].value : i \in at} \in SUBSET Int /\ {ps[i].ts : i \in at} \in SUBSET Int
      /\ IsFiniteSet({ps[i].value : i \in at}) /\ IsFiniteSet({ps[i].ts : i \in at})
  BY <1>3, SomeAreFinite
<1>6. Cardinality(at \cup {n}) = Cardinality(at) + 1 /\ IsFiniteSet(at \cup {n})
  BY <1>3, <1>5, FS_AddElement
<1>7. SumOver(ValuesOf(qs), at \cup {n}) = SumOver(ValuesOf(ps), at) + p.value
  <2>1. \A i \in at \cup {n} : i \in DOMAIN qs /\ ValuesOf(qs)[i] \in Int
    BY <1>1, <1>2, <1>3, PointsAreTyped
  <2>2. \A i \in at : ValuesOf(ps)[i] \in Int /\ ValuesOf(qs)[i] = ValuesOf(ps)[i]
    BY <1>1, <1>2, <1>3, <2>1, PointsAreTyped
  <2>3. (at \cup {n}) \ {n} = at /\ n \in at \cup {n} /\ ValuesOf(qs)[n] = p.value
    BY <1>1, <1>2, <1>3, <2>1, PointsAreTyped
  <2>4. SumOver(ValuesOf(qs), at \cup {n})
          = ValuesOf(qs)[n] + SumOver(ValuesOf(qs), (at \cup {n}) \ {n})
    BY <1>6, <2>1, <2>3, SumFacts
  <2>5. SumOver(ValuesOf(qs), at) = SumOver(ValuesOf(ps), at)
    BY <1>5, <2>2, SumAgrees
  <2>6. SumOver(ValuesOf(ps), at) \in Int
    BY <1>5, <2>2, SumFacts
  <2>7. SumOver(ValuesOf(qs), at \cup {n}) = p.value + SumOver(ValuesOf(ps), at)
    BY <2>3, <2>4, <2>5
  <2> DEFINE sum == SumOver(ValuesOf(ps), at)
  <2>8. p.value + sum = sum + p.value
    <3>1. sum \in Int
      BY <2>6
    <3> HIDE DEF sum
    <3> QED BY <1>4, <3>1
  <2> QED BY <2>7, <2>8
<1>8. /\ {qs[i].value : i \in at \cup {n}} = {ps[i].value : i \in at} \cup {p.value}
      /\ {qs[i].ts : i \in at \cup {n}} = {ps[i].ts : i \in at} \cup {p.ts}
  BY <1>1, <1>3
<1>9. {ps[i].value : i \in at} # {} /\ {ps[i].ts : i \in at} # {}
  BY DEF at
<1>10. /\ Min({qs[i].value : i \in at \cup {n}})
             = Min({Min({ps[i].value : i \in at}), p.value})
       /\ Max({qs[i].value : i \in at \cup {n}})
             = Max({Max({ps[i].value : i \in at}), p.value})
       /\ Max({qs[i].ts : i \in at \cup {n}}) = Max({Max({ps[i].ts : i \in at}), p.ts})
  <2> DEFINE V == {ps[i].value : i \in at}
             W == {ps[i].ts : i \in at}
  <2>1. /\ V \in SUBSET Int /\ IsFiniteSet(V) /\ V # {}
        /\ W \in SUBSET Int /\ IsFiniteSet(W) /\ W # {} /\ p.ts \in Int
    BY <1>4, <1>5, <1>9
  <2>2. /\ Min(V \cup {p.value}) = Min({Min(V), p.value})
        /\ Max(V \cup {p.value}) = Max({Max(V), p.value})
    <3> HIDE DEF V
    <3> QED BY <1>4, <2>1, OneMoreExtreme
  <2>3. Max(W \cup {p.ts}) = Max({Max(W), p.ts})
    <3> HIDE DEF W
    <3> QED BY <2>1, OneMoreExtreme
  <2> QED BY <1>8, <2>2, <2>3
<1>11. SummaryIn(qs, p.key) =
          [key |-> p.key, count |-> Cardinality(at) + 1,
           total |-> SumOver(ValuesOf(ps), at) + p.value,
           low |-> Min({Min({ps[i].value : i \in at}), p.value}),
           high |-> Max({Max({ps[i].value : i \in at}), p.value}),
           latest |-> Max({Max({ps[i].ts : i \in at}), p.ts})]
  BY <1>3, <1>6, <1>7, <1>10 DEF SummaryIn
<1>12. SummaryIn(ps, p.key) =
          [key |-> p.key, count |-> Cardinality(at),
           total |-> SumOver(ValuesOf(ps), at),
           low |-> Min({ps[i].value : i \in at}),
           high |-> Max({ps[i].value : i \in at}),
           latest |-> Max({ps[i].ts : i \in at})]
  BY DEF SummaryIn, at
<1>13. Updated(SummaryIn(ps, p.key), p) = SummaryIn(qs, p.key)
  BY <1>11, <1>12, UpdatedFields
<1> QED BY <1>13 DEF qs

-----------------------------------------------------------------------------
(* The inductive invariant: e claims no more than all, entries never evicted are
   summaries, entries are of keys that have points, and lie in their buckets. *)
Below(e, all) ==
    /\ e.count <= all.count /\ e.latest <= all.latest
    /\ all.low <= e.low /\ e.high <= all.high
Exact(ps, es, gone) == \A key \in Keys(ps) \ gone : SummaryIn(ps, key) \in es
Bounded(ps, es) == \A e \in es : e.key \in Keys(ps) /\ Below(e, SummaryIn(ps, e.key))
InBucket(e) == e.key.start <= e.latest /\ e.latest < e.key.start + Ticks(e.key.bucket)

AggInv ==
    /\ points \in Seq(UsablePoints) /\ todo \in Seq(UsablePoints)
    /\ Paired(points \o todo)
    /\ Typed(data)
    /\ Exact(points, ToSet(data), evicted)
    /\ Bounded(points, ToSet(data))
    /\ \A e \in ToSet(data) : InBucket(e)

(* The keys of the store, by entry. *)
LEMMA KeysOfEntries == ASSUME NEW s PROVE Keys(s) = {e.key : e \in ToSet(s)}
BY DEF Keys, ToSet

(* Two entries never share a key. *)
LEMMA SameKeySame ==
    ASSUME NEW s, Typed(s), NEW e \in ToSet(s), NEW x \in ToSet(s), e.key = x.key
    PROVE  e = x /\ e \in Entries
BY DEF Typed, KeysApart, ToSet

(* What is in the store is an entry. *)
LEMMA EntriesOf == ASSUME NEW s, Typed(s), NEW e \in ToSet(s) PROVE e \in Entries
BY DEF Typed, ToSet

(* The keys of one more point. *)
LEMMA KeysAppended ==
    ASSUME NEW ps \in Seq(UsablePoints), NEW p \in UsablePoints
    PROVE  Keys(Append(ps, p)) = Keys(ps) \cup {p.key}
<1> DEFINE qs == Append(ps, p)
           n == Len(ps) + 1
<1>1. /\ DOMAIN qs = DOMAIN ps \cup {n} /\ qs[n] = p /\ n \notin DOMAIN ps
      /\ \A i \in DOMAIN ps : qs[i] = ps[i]
  BY Appended
<1> HIDE DEF qs, n
<1>2. Keys(qs) = Keys(ps) \cup {p.key}
  BY <1>1 DEF Keys
<1> QED BY <1>2 DEF qs

(* The summary of a key that has points is an entry of that key. *)
LEMMA SummaryIsEntry ==
    ASSUME NEW ps \in Seq(UsablePoints), NEW key \in Keys(ps)
    PROVE  /\ SummaryIn(ps, key) \in Entries /\ SummaryIn(ps, key).key = key
           /\ At(ps, key) # {}
<1> DEFINE at == At(ps, key)
           V == {ps[i].value : i \in at}
           T == {ps[i].ts : i \in at}
<1>1. at \in SUBSET DOMAIN ps /\ at # {}
  BY DEF Keys, At
<1>2. key \in PointKeys
  BY PointsAreTyped DEF Keys, PointKeys
<1>3. V # {} /\ T # {}
  BY <1>1
<1>4. T \in SUBSET Nat
  BY <1>1, PointsAreTyped
<1>5. \A i \in at : ValuesOf(ps)[i] \in Int
  BY <1>1, PointsAreTyped
<1> HIDE DEF at
<1>6. /\ IsFiniteSet(at) /\ Cardinality(at) \in Nat
      /\ V \in SUBSET Int /\ T \in SUBSET Int /\ IsFiniteSet(V) /\ IsFiniteSet(T)
  BY <1>1, SomeAreFinite
<1>7. SumOver(ValuesOf(ps), at) \in Int
  BY <1>5, <1>6, SumFacts
<1>8. Min(V) \in Int /\ Max(V) \in Int
  <2> HIDE DEF V
  <2> QED BY <1>3, <1>6, GreatestExists, LeastExists
<1>9. Max(T) \in Nat
  <2> HIDE DEF T
  <2> QED BY <1>3, <1>4, <1>6, GreatestExists
<1>10. SummaryIn(ps, key) = [key |-> key, count |-> Cardinality(at),
                             total |-> SumOver(ValuesOf(ps), at),
                             low |-> Min(V), high |-> Max(V), latest |-> Max(T)]
  BY DEF SummaryIn, at
<1> HIDE DEF V, T
<1> QED BY <1>1, <1>2, <1>6, <1>7, <1>8, <1>9, <1>10 DEF Entries, at

(* Updated, read field by field. *)
LEMMA UpdatedEntry ==
    ASSUME NEW e \in Entries, NEW p
    PROVE  /\ Updated(e, p).count = e.count + 1
           /\ Updated(e, p).low = Min({e.low, p.value})
           /\ Updated(e, p).high = Max({e.high, p.value})
           /\ Updated(e, p).latest = Max({e.latest, p.ts})
<1> DEFINE f == [key |-> e.key, count |-> e.count, total |-> e.total, low |-> e.low,
                 high |-> e.high, latest |-> e.latest]
<1>1. e = f
  BY DEF Entries
<1>2. Updated(f, p) = [key |-> e.key, count |-> e.count + 1, total |-> e.total + p.value,
                       low |-> Min({e.low, p.value}), high |-> Max({e.high, p.value}),
                       latest |-> Max({e.latest, p.ts})]
  BY UpdatedFields
<1> HIDE DEF f
<1>3. /\ Updated(f, p).count = e.count + 1 /\ Updated(f, p).low = Min({e.low, p.value})
      /\ Updated(f, p).high = Max({e.high, p.value})
      /\ Updated(f, p).latest = Max({e.latest, p.ts})
  BY <1>2
<1> QED BY <1>1, <1>3

(* An entry that claims no more than its points keeps to that when both grow. *)
LEMMA BelowUpdated ==
    ASSUME NEW e \in Entries, NEW all \in Entries, NEW p \in UsablePoints
    PROVE  /\ Below(e, all) => Below(Updated(e, p), Updated(all, p))
           /\ Below(NewEntry(p), Updated(all, p))
           /\ Below(e, e)
<1>1. /\ e.count \in Nat /\ e.latest \in Int /\ e.low \in Int /\ e.high \in Int
      /\ all.count \in Nat /\ all.latest \in Int /\ all.low \in Int /\ all.high \in Int
      /\ p.value \in Int /\ p.ts \in Int
  BY PointType DEF Entries
<1>0. ASSUME NEW x \in Entries
      PROVE  /\ Updated(x, p).count = x.count + 1
             /\ Updated(x, p).low = IF x.low <= p.value THEN x.low ELSE p.value
             /\ Updated(x, p).high = IF x.high >= p.value THEN x.high ELSE p.value
             /\ Updated(x, p).latest = IF x.latest >= p.ts THEN x.latest ELSE p.ts
  <2>1. x.low \in Int /\ x.high \in Int /\ x.latest \in Int
    BY DEF Entries
  <2>2. Min({x.low, p.value}) = IF x.low <= p.value THEN x.low ELSE p.value
    BY <1>1, <2>1, OfTwo
  <2>3. Max({x.high, p.value}) = IF x.high >= p.value THEN x.high ELSE p.value
    BY <1>1, <2>1, OfTwo
  <2>4. Max({x.latest, p.ts}) = IF x.latest >= p.ts THEN x.latest ELSE p.ts
    BY <1>1, <2>1, OfTwo
  <2> QED BY <2>2, <2>3, <2>4, UpdatedEntry
<1>2. /\ Updated(e, p).count = e.count + 1
      /\ Updated(e, p).low = IF e.low <= p.value THEN e.low ELSE p.value
      /\ Updated(e, p).high = IF e.high >= p.value THEN e.high ELSE p.value
      /\ Updated(e, p).latest = IF e.latest >= p.ts THEN e.latest ELSE p.ts
  BY <1>0
<1>3. /\ Updated(all, p).count = all.count + 1
      /\ Updated(all, p).low = IF all.low <= p.value THEN all.low ELSE p.value
      /\ Updated(all, p).high = IF all.high >= p.value THEN all.high ELSE p.value
      /\ Updated(all, p).latest = IF all.latest >= p.ts THEN all.latest ELSE p.ts
  BY <1>0
<1>4. /\ NewEntry(p).count = 1 /\ NewEntry(p).low = p.value /\ NewEntry(p).high = p.value
      /\ NewEntry(p).latest = p.ts
  BY DEF NewEntry
<1>5. Below(e, all) => Below(Updated(e, p), Updated(all, p))
  BY <1>1, <1>2, <1>3 DEF Below
<1>6. Below(NewEntry(p), Updated(all, p))
  BY <1>1, <1>3, <1>4 DEF Below
<1>7. Below(e, e)
  BY <1>1 DEF Below
<1> QED BY <1>5, <1>6, <1>7

(* A point falls into the bucket its entry is for. *)
LEMMA StillInBucket ==
    ASSUME NEW p \in UsablePoints
    PROVE  /\ InBucket(NewEntry(p))
           /\ \A e \in Entries : InBucket(e) /\ e.key = p.key => InBucket(Updated(e, p))
<1>1. InBucket(NewEntry(p))
  BY PointType DEF InBucket, NewEntry
<1>2. ASSUME NEW e \in Entries, InBucket(e), e.key = p.key PROVE InBucket(Updated(e, p))
  <2>1. e.latest \in Int /\ p.ts \in Int
    BY PointType DEF Entries
  <2>2. /\ Updated(e, p).latest = IF e.latest >= p.ts THEN e.latest ELSE p.ts
        /\ Updated(e, p).key = e.key
    BY <2>1, UpdatedEntry, OfTwo, EntryTypes, ZenonT(40)
  <2> QED BY <1>2, <2>2, PointType DEF InBucket
<1> QED BY <1>1, <1>2

(* Paired sequences, one after the other. *)
LEMMA PairedTogether ==
    ASSUME NEW s \in Seq(UsablePoints), Paired(s), NEW t \in Seq(UsablePoints), Paired(t)
    PROVE  s \o t \in Seq(UsablePoints) /\ Paired(s \o t)
<1> DEFINE u == s \o t
<1>1. PICK n \in Nat : Len(s) = 2 * n /\ \A i \in 1..n : Twins(s[2 * i - 1], s[2 * i])
  BY DEF Paired
<1>2. PICK m \in Nat : Len(t) = 2 * m /\ \A i \in 1..m : Twins(t[2 * i - 1], t[2 * i])
  BY DEF Paired
<1>3. u \in Seq(UsablePoints) /\ Len(u) = 2 * (n + m) /\ n + m \in Nat
  BY <1>1, <1>2
<1>4. \A i \in 1..(2 * n) : u[i] = s[i]
  BY <1>1
<1>5. \A i \in 1..(2 * m) : u[2 * n + i] = t[i]
  <2> SUFFICES ASSUME NEW i \in 1..(2 * m) PROVE u[2 * n + i] = t[i]
    OBVIOUS
  <2>1. 2 * n + i \in 1..(Len(s) + Len(t)) /\ ~(2 * n + i <= Len(s))
    BY <1>1, <1>2
  <2>2. u[2 * n + i] = t[2 * n + i - Len(s)]
    BY <2>1, ConcatProperties
  <2>3. 2 * n + i - Len(s) = i
    BY <1>1
  <2> QED BY <2>2, <2>3
<1>6. ASSUME NEW i \in 1..(n + m) PROVE Twins(u[2 * i - 1], u[2 * i])
  <2>1. CASE i \in 1..n
    <3>1. 2 * i - 1 \in 1..(2 * n) /\ 2 * i \in 1..(2 * n)
      BY <2>1
    <3> QED BY <1>1, <1>4, <2>1, <3>1
  <2>2. CASE ~(i \in 1..n)
    <3>1. i - n \in 1..m
      BY <2>2
    <3>2. /\ 2 * (i - n) - 1 \in 1..(2 * m) /\ 2 * (i - n) \in 1..(2 * m)
          /\ 2 * n + (2 * (i - n) - 1) = 2 * i - 1 /\ 2 * n + 2 * (i - n) = 2 * i
      BY <3>1
    <3>3. u[2 * i - 1] = t[2 * (i - n) - 1] /\ u[2 * i] = t[2 * (i - n)]
      BY <1>5, <3>2
    <3> QED BY <1>2, <3>1, <3>3
  <2> QED BY <2>1, <2>2
<1> HIDE DEF u
<1>7. u \in Seq(UsablePoints) /\ Paired(u)
  BY <1>3, <1>6 DEF Paired
<1> QED BY <1>7 DEF u

(* An upsert of a known key keeps what AggInv says of the store ... *)
LEMMA KnownKeeps ==
    ASSUME AggInv, NEW p \in UsablePoints, UpsertAggregate(p), p.key \in Keys(data)
    PROVE  LET qs == Append(points, p) IN
           /\ Typed(data') /\ Keys(data') = Keys(data)
           /\ Exact(qs, ToSet(data'), evicted)
           /\ Bounded(qs, ToSet(data'))
           /\ \A x \in ToSet(data') : InBucket(x)
<1> DEFINE qs == Append(points, p)
<1>1. PICK e \in ToSet(data) : e.key = p.key
  BY KeysOfEntries
<1>2. Typed(data') /\ ToSet(data') = (ToSet(data) \ {e}) \cup {Updated(e, p)}
  BY <1>1, UpsertKnown DEF AggInv
<1>3. e \in Entries /\ Updated(e, p) \in Entries /\ Updated(e, p).key = p.key
  BY <1>1, EntriesOf, EntryTypes DEF AggInv
<1>4. Keys(data') = Keys(data)
  BY <1>1, <1>2, <1>3, KeysOfEntries
<1>5. points \in Seq(UsablePoints) /\ Keys(qs) = Keys(points) \cup {p.key}
  BY KeysAppended DEF AggInv
<1>6. e.key \in Keys(points) /\ Below(e, SummaryIn(points, p.key))
  BY <1>1 DEF AggInv, Bounded
<1>7. SummaryIn(points, p.key) \in Entries /\ At(points, p.key) # {}
  BY <1>1, <1>5, <1>6, SummaryIsEntry
<1>8. SummaryIn(qs, p.key) = Updated(SummaryIn(points, p.key), p)
  BY <1>5, <1>7, SummaryOfMore
<1>9. \A x \in ToSet(data) \ {e} : x.key # p.key
  BY <1>1, SameKeySame DEF AggInv
<1>10. \A key : key # p.key => SummaryIn(qs, key) = SummaryIn(points, key)
  BY <1>5, SummaryOfOthers
<1> HIDE DEF qs
<1>11. Exact(qs, ToSet(data'), evicted)
  <2> SUFFICES ASSUME NEW key \in Keys(qs) \ evicted PROVE SummaryIn(qs, key) \in ToSet(data')
    BY DEF Exact
  <2>1. CASE key = p.key
    <3>1. SummaryIn(points, key) \in ToSet(data)
      BY <1>1, <1>6, <2>1 DEF AggInv, Exact
    <3>2. SummaryIn(points, key).key = e.key
      BY <1>1, <1>5, <1>6, <2>1, SummaryIsEntry
    <3>3. SummaryIn(points, key) = e
      BY <3>1, <3>2, SameKeySame DEF AggInv
    <3> QED BY <1>2, <1>8, <2>1, <3>3
  <2>2. CASE key # p.key
    <3>1. key \in Keys(points) /\ SummaryIn(points, key) \in ToSet(data)
      BY <1>5, <2>2 DEF AggInv, Exact
    <3>2. SummaryIn(points, key).key = key
      BY <1>5, <3>1, SummaryIsEntry
    <3>3. SummaryIn(points, key) # e
      BY <1>1, <2>2, <3>2
    <3> QED BY <1>2, <1>10, <2>2, <3>1, <3>3
  <2> QED BY <2>1, <2>2
<1>12. Bounded(qs, ToSet(data'))
  <2> SUFFICES ASSUME NEW x \in ToSet(data')
               PROVE  x.key \in Keys(qs) /\ Below(x, SummaryIn(qs, x.key))
    BY DEF Bounded
  <2>1. CASE x = Updated(e, p)
    BY <1>3, <1>5, <1>6, <1>7, <1>8, <2>1, BelowUpdated
  <2>2. CASE x # Updated(e, p)
    <3>1. x \in ToSet(data) \ {e}
      BY <1>2, <2>2
    <3>2. x.key \in Keys(points) /\ Below(x, SummaryIn(points, x.key))
      BY <3>1 DEF AggInv, Bounded
    <3> QED BY <1>5, <1>9, <1>10, <3>1, <3>2
  <2> QED BY <2>1, <2>2
<1>13. \A x \in ToSet(data') : InBucket(x)
  BY <1>1, <1>2, <1>3, StillInBucket DEF AggInv
<1> QED BY <1>2, <1>4, <1>11, <1>12, <1>13 DEF qs

(* ... and so does one of a new key, with what it evicts recorded. *)
LEMMA NewEvictsOldest ==
    ASSUME AggInv, NEW p \in UsablePoints, UpsertAggregate(p), p.key \notin Keys(data)
    PROVE  LET qs == Append(points, p)
               left == (Keys(data) \cup {p.key}) \ Keys(data')
           IN /\ Typed(data')
              /\ Exact(qs, ToSet(data'), evicted \cup left)
              /\ Bounded(qs, ToSet(data'))
              /\ \A x \in ToSet(data') : InBucket(x)
              /\ \A g, h \in left : g = h
              /\ \A g \in left, x \in ToSet(data') : g.start <= x.key.start
<1> DEFINE qs == Append(points, p)
           left == (Keys(data) \cup {p.key}) \ Keys(data')
<1>1. Typed(data')
  BY UpsertNew DEF AggInv
<1>2. PICK gone \in SUBSET (ToSet(data) \cup {NewEntry(p)}) :
          /\ ToSet(data') = (ToSet(data) \cup {NewEntry(p)}) \ gone
          /\ \A g, h \in gone : g = h
          /\ \A g \in gone, x \in ToSet(data') : g.key.start <= x.key.start
  BY UpsertNew DEF AggInv
<1>3. NewEntry(p) \in Entries /\ NewEntry(p).key = p.key
  BY EntryTypes
<1>4. \A g \in left : \E e \in gone : e.key = g
  <2> SUFFICES ASSUME NEW g \in left PROVE \E e \in gone : e.key = g
    OBVIOUS
  <2>1. PICK e \in ToSet(data) \cup {NewEntry(p)} : e.key = g
    BY <1>3, KeysOfEntries
  <2>2. e \notin ToSet(data')
    BY <2>1, KeysOfEntries
  <2> QED BY <1>2, <2>1, <2>2
<1>5. /\ \A g, h \in left : g = h
      /\ \A g \in left, x \in ToSet(data') : g.start <= x.key.start
  BY <1>2, <1>4
<1>6. points \in Seq(UsablePoints) /\ Keys(qs) = Keys(points) \cup {p.key}
  BY KeysAppended DEF AggInv
<1>7. \A key : key # p.key => SummaryIn(qs, key) = SummaryIn(points, key)
  BY <1>6, SummaryOfOthers
<1>8. p.key \notin Keys(points) => SummaryIn(qs, p.key) = NewEntry(p)
  <2>1. p.key \notin Keys(points) => At(points, p.key) = {}
    BY DEF At, Keys
  <2> QED BY <1>6, <2>1, SummaryOfFirst
<1>9. p.key \in Keys(points)
        => /\ SummaryIn(points, p.key) \in Entries
           /\ SummaryIn(qs, p.key) = Updated(SummaryIn(points, p.key), p)
  BY <1>6, SummaryIsEntry, SummaryOfMore
<1> HIDE DEF qs
<1>10. Exact(qs, ToSet(data'), evicted \cup left)
  <2> SUFFICES ASSUME NEW key \in Keys(qs), key \notin evicted, key \notin left
               PROVE  SummaryIn(qs, key) \in ToSet(data')
    BY DEF Exact
  <2>1. CASE key = p.key
    <3>1. PICK x \in ToSet(data') : x.key = key
      BY <2>1, KeysOfEntries
    <3>2. x = NewEntry(p)
      BY <1>2, <2>1, <3>1, KeysOfEntries
    <3>3. p.key \notin Keys(points)
      <4> SUFFICES ASSUME p.key \in Keys(points) PROVE FALSE
        OBVIOUS
      <4>1. SummaryIn(points, p.key) \in ToSet(data) /\ SummaryIn(points, p.key).key = p.key
        BY <1>6, <2>1, SummaryIsEntry DEF AggInv, Exact
      <4> QED BY <4>1, KeysOfEntries
    <3> QED BY <1>8, <2>1, <3>2, <3>3
  <2>2. CASE key # p.key
    <3>1. key \in Keys(points) /\ SummaryIn(points, key) \in ToSet(data)
      BY <1>6, <2>2 DEF AggInv, Exact
    <3>2. SummaryIn(points, key).key = key
      BY <1>6, <3>1, SummaryIsEntry
    <3>3. key \in Keys(data')
      BY <3>1, <3>2, KeysOfEntries
    <3>4. PICK x \in ToSet(data') : x.key = key
      BY <3>3, KeysOfEntries
    <3>5. x \in ToSet(data)
      BY <1>2, <1>3, <2>2, <3>4
    <3>6. x = SummaryIn(points, key)
      BY <3>1, <3>2, <3>4, <3>5, SameKeySame DEF AggInv
    <3> QED BY <1>7, <2>2, <3>6
  <2> QED BY <2>1, <2>2
<1>11. Bounded(qs, ToSet(data'))
  <2> SUFFICES ASSUME NEW x \in ToSet(data')
               PROVE  x.key \in Keys(qs) /\ Below(x, SummaryIn(qs, x.key))
    BY DEF Bounded
  <2>1. CASE x = NewEntry(p)
    <3>1. x.key = p.key /\ x.key \in Keys(qs)
      BY <1>3, <1>6, <2>1
    <3>2. Below(x, SummaryIn(qs, p.key))
      BY <1>3, <1>8, <1>9, <2>1, BelowUpdated
    <3> QED BY <3>1, <3>2
  <2>2. CASE x # NewEntry(p)
    <3>1. x \in ToSet(data)
      BY <1>2, <2>2
    <3>2. x.key \in Keys(points) /\ Below(x, SummaryIn(points, x.key)) /\ x.key # p.key
      BY <3>1, KeysOfEntries DEF AggInv, Bounded
    <3> QED BY <1>6, <1>7, <3>2
  <2> QED BY <2>1, <2>2
<1>12. \A x \in ToSet(data') : InBucket(x)
  BY <1>2, StillInBucket DEF AggInv
<1> HIDE DEF left
<1>13. /\ Typed(data') /\ Exact(qs, ToSet(data'), evicted \cup left)
       /\ Bounded(qs, ToSet(data')) /\ (\A x \in ToSet(data') : InBucket(x))
       /\ (\A g, h \in left : g = h)
       /\ \A g \in left, x \in ToSet(data') : g.start <= x.key.start
  BY <1>1, <1>5, <1>10, <1>11, <1>12
<1> QED BY <1>13 DEF qs, left

(* AggInv holds at first ... *)
LEMMA InitAgg == ASSUME AggInit PROVE AggInv
<1>1. points = <<>> /\ todo = <<>> /\ data = <<>>
  BY DEF AggInit
<1>2. points \in Seq(UsablePoints) /\ todo \in Seq(UsablePoints) /\ Typed(data)
  BY <1>1 DEF Typed, KeysApart
<1>3. Paired(points \o todo)
  <2>1. points \o todo = <<>> /\ Len(<<>>) = 2 * 0
    BY <1>1
  <2> QED BY <2>1 DEF Paired
<1>4. Keys(points) = {} /\ ToSet(data) = {}
  BY <1>1 DEF Keys, ToSet
<1> QED BY <1>2, <1>3, <1>4 DEF AggInv, Exact, Bounded

(* ... when an event begins ... *)
LEMMA BeginPreserves == ASSUME AggInv, BeginEvent PROVE AggInv'
<1>1. PICK e \in Events : todo' = PointsOf(e)
  BY DEF BeginEvent
<1>2. todo' \in Seq(UsablePoints) /\ Paired(todo')
  BY <1>1, PointsOfEvent
<1>3. /\ data' = data /\ points' = points /\ evicted' = evicted
      /\ points \in Seq(UsablePoints) /\ points \o todo = points
  BY DEF BeginEvent, AggInv
<1>4. Paired(points)
  BY <1>3 DEF AggInv
<1>5. Paired(points \o todo')
  BY <1>2, <1>3, <1>4, PairedTogether
<1> QED BY <1>2, <1>3, <1>5, ZenonT(40) DEF AggInv, Exact, Bounded, InBucket, Typed, Keys, ToSet

(* ... and after each of its upserts. *)
LEMMA UpsertPreserves == ASSUME AggInv, UpsertNext PROVE AggInv'
<1> DEFINE p == Head(todo)
           left == (Keys(data) \cup {p.key}) \ Keys(data')
<1>1. /\ todo # <<>> /\ UpsertAggregate(p) /\ todo' = Tail(todo)
      /\ points' = Append(points, p) /\ evicted' = evicted \cup left
  BY DEF UpsertNext
<1>2. /\ p \in UsablePoints /\ points' \in Seq(UsablePoints) /\ todo' \in Seq(UsablePoints)
      /\ points' \o todo' = points \o todo
  <2>1. todo \in Seq(UsablePoints) /\ points \in Seq(UsablePoints)
    BY DEF AggInv
  <2>2. p \in UsablePoints /\ todo' \in Seq(UsablePoints) /\ todo = <<p>> \o todo'
    BY <1>1, <2>1
  <2> HIDE DEF p
  <2>3. points' \in Seq(UsablePoints) /\ points' = points \o <<p>>
    BY <1>1, <2>1, <2>2, AppendProperties, AppendIsConcat
  <2>4. (points \o <<p>>) \o todo' = points \o (<<p>> \o todo')
    BY <2>1, <2>2
  <2> QED BY <2>2, <2>3, <2>4
<1>3. Paired(points' \o todo')
  BY <1>2 DEF AggInv
<1> HIDE DEF p
<1>4. /\ Typed(data') /\ Exact(points', ToSet(data'), evicted')
      /\ Bounded(points', ToSet(data')) /\ \A x \in ToSet(data') : InBucket(x)
  <2>1. CASE p.key \in Keys(data)
    <3>1. left = {}
      BY <1>1, <1>2, <2>1, KnownKeeps
    <3>2. evicted' = evicted
      BY <1>1, <3>1
    <3> QED BY <1>1, <1>2, <2>1, <3>2, KnownKeeps
  <2>2. CASE p.key \notin Keys(data)
    BY <1>1, <1>2, <2>2, NewEvictsOldest
  <2> QED BY <2>1, <2>2
<1> QED BY <1>2, <1>3, <1>4 DEF AggInv

(* AggInv holds in every reachable state. *)
THEOREM AggCorrect == AggSpec => []AggInv
<1>1. AggInit => AggInv
  BY InitAgg
<1>2. AggInv /\ [AggNext]_aggVars => AggInv'
  <2> SUFFICES ASSUME AggInv, [AggNext]_aggVars PROVE AggInv'
    OBVIOUS
  <2>1. CASE BeginEvent
    BY <2>1, BeginPreserves
  <2>2. CASE UpsertNext
    BY <2>2, UpsertPreserves
  <2>3. CASE UNCHANGED aggVars
    BY <2>3 DEF AggInv, aggVars, Exact, Bounded, InBucket, Typed, Keys, ToSet
  <2> QED BY <2>1, <2>2, <2>3 DEF AggNext
<1> QED BY <1>1, <1>2, PTL DEF AggSpec

(* The latest event of every stored aggregate lies inside its bucket, for every
   UTC offset (_floor_to_bucket, handler.py:147-155). *)
THEOREM LatestStaysInside == AggSpec => []LatestInBucket
<1>1. AggInv => LatestInBucket
  <2>1. \A i \in DOMAIN data : data[i] \in ToSet(data)
    BY DEF ToSet
  <2> QED BY <2>1 DEF AggInv, LatestInBucket, InBucket
<1> QED BY <1>1, AggCorrect, PTL

(* Whatever an upsert evicts, the entry it has just inserted included, is one entry
   and starts no later than everything that stays (metrics_aggregate.py:143-146). *)
THEOREM OldestGoesFirst == AggSpec => OldestLeavesFirst
<1> DEFINE left == (Keys(data) \cup {Head(todo).key}) \ Keys(data')
           Step == todo # <<>> => /\ Cardinality(left) <= 1
                                  /\ \A g \in left, i \in DOMAIN data' :
                                        g.start <= data'[i].key.start
<1>1. ASSUME AggInv, AggNext PROVE Step
  <2> SUFFICES ASSUME todo # <<>>
               PROVE  /\ Cardinality(left) <= 1
                      /\ \A g \in left, i \in DOMAIN data' : g.start <= data'[i].key.start
    OBVIOUS
  <2>1. UpsertNext
    BY <1>1 DEF AggNext, BeginEvent
  <2>2. UpsertAggregate(Head(todo)) /\ Head(todo) \in UsablePoints
    BY <1>1, <2>1 DEF UpsertNext, AggInv
  <2>3. /\ \A g, h \in left : g = h
        /\ \A g \in left, x \in ToSet(data') : g.start <= x.key.start
    <3>1. CASE Head(todo).key \in Keys(data)
      <4>1. left = {}
        BY <1>1, <2>2, <3>1, KnownKeeps
      <4> QED BY <4>1
    <3>2. CASE Head(todo).key \notin Keys(data)
      BY <1>1, <2>2, <3>2, NewEvictsOldest
    <3> QED BY <3>1, <3>2
  <2> HIDE DEF left
  <2>4. Cardinality(left) <= 1
    <3>1. CASE left = {}
      BY <3>1, FS_EmptySet
    <3>2. CASE left # {}
      <4>1. PICK g : left = {g}
        BY <2>3, <3>2
      <4>2. Cardinality(left) = 1
        BY <4>1, FS_Singleton
      <4> QED BY <4>2
    <3> QED BY <3>1, <3>2
  <2> QED BY <2>3, <2>4 DEF ToSet
<1>2. AggInv /\ [AggNext]_aggVars => [Step]_aggVars
  BY <1>1
<1>3. AggSpec => [][Step]_aggVars
  <2> HIDE DEF Step
  <2> QED BY <1>2, AggCorrect, PTL DEF AggSpec
<1> QED BY <1>3 DEF OldestLeavesFirst

-----------------------------------------------------------------------------
(* The folds of the properties are the sums of SetLemmas: of values, *)
LEMMA ValuesAddUp ==
    ASSUME NEW at, IsFiniteSet(at), at \in SUBSET DOMAIN points
    PROVE  LET Value(i) == points[i].value
           IN MapThenSumSet(Value, at) = SumOver(ValuesOf(points), at)
<1> DEFINE Value(i) == points[i].value
           g == ValuesOf(points)
           Step(iter, s) ==
               IF s = {} THEN 0
               ELSE Value(CHOOSE k \in s : TRUE) + iter[s \ {CHOOSE k \in s : TRUE}]
           Sums(iter) == iter = [s \in SUBSET at |-> Step(iter, s)]
<1>1. MapThenSumSet(Value, at) = (CHOOSE iter : Sums(iter))[at]
  BY DEF MapThenSumSet, MapThenFoldSet
<1>2. \A iter : Sums(iter) <=> Fold(g, iter, at)
  <2> SUFFICES ASSUME NEW iter, NEW s \in SUBSET at PROVE Step(iter, s) = FoldStep(g, iter, s)
    BY DEF Fold
  <2>1. s # {} => (CHOOSE k \in s : TRUE) \in DOMAIN points
    OBVIOUS
  <2> QED BY <2>1 DEF FoldStep, ValuesOf
<1>3. PICK m : Fold(g, m, at)
  BY FoldExists
<1> HIDE DEF g, Sums
<1>4. \A iter : (Sums(iter) <=> iter = m) /\ (Fold(g, iter, at) <=> iter = m)
  BY <1>2, <1>3, FoldUnique
<1>5. (CHOOSE iter : Sums(iter)) = m /\ (CHOOSE iter : Fold(g, iter, at)) = m
  BY <1>4
<1>6. MapThenSumSet(Value, at) = SumOver(g, at)
  BY <1>1, <1>5 DEF SumOver
<1> QED BY <1>6 DEF g

(* of counts, *)
LEMMA CountsAddUp ==
    ASSUME NEW S, IsFiniteSet(S)
    PROVE  LET Count(e) == e.count
           IN MapThenSumSet(Count, S) = SumOver([e \in S |-> e.count], S)
<1> DEFINE Count(e) == e.count
           g == [e \in S |-> e.count]
           Step(iter, s) ==
               IF s = {} THEN 0
               ELSE Count(CHOOSE k \in s : TRUE) + iter[s \ {CHOOSE k \in s : TRUE}]
           Sums(iter) == iter = [s \in SUBSET S |-> Step(iter, s)]
<1>1. MapThenSumSet(Count, S) = (CHOOSE iter : Sums(iter))[S]
  BY DEF MapThenSumSet, MapThenFoldSet
<1>2. \A iter : Sums(iter) <=> Fold(g, iter, S)
  <2> SUFFICES ASSUME NEW iter, NEW s \in SUBSET S PROVE Step(iter, s) = FoldStep(g, iter, s)
    BY DEF Fold
  <2>1. s # {} => (CHOOSE k \in s : TRUE) \in S
    OBVIOUS
  <2> QED BY <2>1 DEF FoldStep
<1>3. PICK m : Fold(g, m, S)
  BY FoldExists
<1> HIDE DEF g, Sums
<1>4. \A iter : (Sums(iter) <=> iter = m) /\ (Fold(g, iter, S) <=> iter = m)
  BY <1>2, <1>3, FoldUnique
<1>5. (CHOOSE iter : Sums(iter)) = m /\ (CHOOSE iter : Fold(g, iter, S)) = m
  BY <1>4
<1>6. MapThenSumSet(Count, S) = SumOver(g, S)
  BY <1>1, <1>5 DEF SumOver
<1> QED BY <1>6 DEF g

(* and of totals. *)
LEMMA TotalsAddUp ==
    ASSUME NEW S, IsFiniteSet(S)
    PROVE  LET Total(e) == e.total
           IN MapThenSumSet(Total, S) = SumOver([e \in S |-> e.total], S)
<1> DEFINE Total(e) == e.total
           g == [e \in S |-> e.total]
           Step(iter, s) ==
               IF s = {} THEN 0
               ELSE Total(CHOOSE k \in s : TRUE) + iter[s \ {CHOOSE k \in s : TRUE}]
           Sums(iter) == iter = [s \in SUBSET S |-> Step(iter, s)]
<1>1. MapThenSumSet(Total, S) = (CHOOSE iter : Sums(iter))[S]
  BY DEF MapThenSumSet, MapThenFoldSet
<1>2. \A iter : Sums(iter) <=> Fold(g, iter, S)
  <2> SUFFICES ASSUME NEW iter, NEW s \in SUBSET S PROVE Step(iter, s) = FoldStep(g, iter, s)
    BY DEF Fold
  <2>1. s # {} => (CHOOSE k \in s : TRUE) \in S
    OBVIOUS
  <2> QED BY <2>1 DEF FoldStep
<1>3. PICK m : Fold(g, m, S)
  BY FoldExists
<1> HIDE DEF g, Sums
<1>4. \A iter : (Sums(iter) <=> iter = m) /\ (Fold(g, iter, S) <=> iter = m)
  BY <1>2, <1>3, FoldUnique
<1>5. (CHOOSE iter : Sums(iter)) = m /\ (CHOOSE iter : Fold(g, iter, S)) = m
  BY <1>4
<1>6. MapThenSumSet(Total, S) = SumOver(g, S)
  BY <1>1, <1>5 DEF SumOver
<1> QED BY <1>6 DEF g

(* SummaryOf is SummaryIn of all points so far. *)
LEMMA SummariesAgree ==
    ASSUME points \in Seq(UsablePoints), NEW key
    PROVE  SummaryOf(key) = SummaryIn(points, key)
<1> DEFINE at == At(points, key)
           Value(i) == points[i].value
<1>1. PointsAt(key) = at
  BY DEF PointsAt, At
<1>2. at \in SUBSET DOMAIN points
  BY DEF At
<1>3. MapThenSumSet(Value, at) = SumOver(ValuesOf(points), at)
  <2> HIDE DEF at
  <2>1. IsFiniteSet(at)
    BY <1>2, SomeAreFinite
  <2> QED BY <1>2, <2>1, ValuesAddUp
<1> QED BY <1>1, <1>3 DEF SummaryOf, SummaryIn

(* An aggregate that was never evicted is the summary of all points of its key and
   of nothing else; one that was, and was begun anew, claims no point its key did not
   have (metrics_aggregate.py:127-173). *)
THEOREM AggregatesStayExact == AggSpec => []AggregatesAreExact
<1>1. AggInv => AggregatesAreExact
  <2> SUFFICES ASSUME AggInv PROVE AggregatesAreExact
    OBVIOUS
  <2>1. \A key : SummaryOf(key) = SummaryIn(points, key)
    BY SummariesAgree DEF AggInv
  <2>2. \A key \in Keys(points) \ evicted : SummaryOf(key) \in ToSet(data)
    BY <2>1 DEF AggInv, Exact
  <2>3. \A i \in DOMAIN data : data[i] \in ToSet(data)
    BY DEF ToSet
  <2>4. \A i \in DOMAIN data : Below(data[i], SummaryOf(data[i].key))
    BY <2>1, <2>3 DEF AggInv, Bounded
  <2> QED BY <2>2, <2>4 DEF AggregatesAreExact, Below
<1> QED BY <1>1, AggCorrect, PTL

-----------------------------------------------------------------------------
(* An instant at which buckets start separates two points exactly as it separates
   the starts of their buckets. *)
LEMMA StartsAlign ==
    ASSUME NEW p \in UsablePoints, NEW b \in Int, (b + p.offset) % Ticks(p.key.bucket) = 0
    PROVE  (b <= p.ts <=> b <= p.key.start) /\ (p.ts < b <=> p.key.start < b)
<1> DEFINE f == Ticks(p.key.bucket)
<1>1. f \in Nat /\ f > 0
  BY AggregationAssumption DEF Ticks
<1>2. /\ p.ts \in Nat /\ p.offset \in Nat /\ p.key.start \in Int /\ p.key.start <= p.ts
      /\ p.key.start = p.ts - ((p.ts + p.offset) % f)
  BY PointType DEF FloorToBucket
<1>3. (b + p.offset) % f = 0
  OBVIOUS
<1> HIDE DEF f
<1>4. ASSUME NEW x \in Int, NEW y \in Int, x <= y PROVE x - (x % f) <= y - (y % f)
  BY <1>1, <1>4, SMTT(60)
<1>5. b <= p.ts => b <= p.key.start
  <2> SUFFICES ASSUME b <= p.ts PROVE b <= p.key.start
    OBVIOUS
  <2>1. b + p.offset <= p.ts + p.offset
    BY <1>2
  <2>2. (b + p.offset) - ((b + p.offset) % f) <= (p.ts + p.offset) - ((p.ts + p.offset) % f)
    BY <1>2, <1>4, <2>1
  <2>3. (p.ts + p.offset) % f \in Int
    BY <1>1, <1>2
  <2> QED BY <1>2, <1>3, <2>2, <2>3
<1> QED BY <1>2, <1>5

(* Every hour point is followed by its twin for the day. *)
LEMMA HourThenDay ==
    ASSUME points \in Seq(UsablePoints), Paired(points), NEW i \in DOMAIN points
    PROVE  /\ points[i].key.bucket = "hour"
                => i + 1 \in DOMAIN points /\ Twins(points[i], points[i + 1])
           /\ points[i].key.bucket = "day"
                => i - 1 \in DOMAIN points /\ Twins(points[i - 1], points[i])
<1>1. PICK n \in Nat : /\ Len(points) = 2 * n
                       /\ \A k \in 1..n : Twins(points[2 * k - 1], points[2 * k])
  BY DEF Paired
<1>2. DOMAIN points = 1..(2 * n)
  BY <1>1
<1>3. PICK k \in 1..n : i = 2 * k - 1 \/ i = 2 * k
  <2> DEFINE k == (i + 1) \div 2
  <2>1. i \in 1..(2 * n)
    BY <1>2
  <2>2. k \in Int /\ 2 * k <= i + 1 /\ i + 1 < 2 * k + 2
    BY <2>1
  <2>3. k \in 1..n /\ (i = 2 * k - 1 \/ i = 2 * k)
    <3> HIDE DEF k
    <3> QED BY <2>1, <2>2
  <2> QED BY <2>3
<1>4. Twins(points[2 * k - 1], points[2 * k])
  BY <1>1
<1>5. 2 * k - 1 \in DOMAIN points /\ 2 * k \in DOMAIN points
  BY <1>2
<1>6. points[2 * k - 1].key.bucket = "hour" /\ points[2 * k].key.bucket = "day"
  BY <1>4 DEF Twins
<1>7. (2 * k - 1) + 1 = 2 * k
  OBVIOUS
<1> QED BY <1>3, <1>4, <1>5, <1>6, <1>7

(* What a summary says. *)
LEMMA SummaryFields ==
    ASSUME NEW ps, NEW key
    PROVE  /\ SummaryIn(ps, key).count = Cardinality(At(ps, key))
           /\ SummaryIn(ps, key).total = SumOver(ValuesOf(ps), At(ps, key))
           /\ SummaryIn(ps, key).latest = Max({ps[i].ts : i \in At(ps, key)})
BY DEF SummaryIn

(* What a set of untouched entries adds up to. *)
Whole(e) == e = SummaryIn(points, e.key) /\ e.key \in Keys(points)
PointsIn(es) == UNION {At(points, e.key) : e \in es}

(* Entries with nothing missing add up to the points of their keys, *)
LEMMA EntriesAddUp ==
    ASSUME points \in Seq(UsablePoints), NEW es, IsFiniteSet(es), \A e \in es : Whole(e)
    PROVE  /\ PointsIn(es) \in SUBSET DOMAIN points
           /\ SumOver([e \in es |-> e.count], es) = Cardinality(PointsIn(es))
           /\ SumOver([e \in es |-> e.total], es) = SumOver(ValuesOf(points), PointsIn(es))
<1> DEFINE part == [e \in es |-> At(points, e.key)]
           D == DOMAIN points
           ones == [i \in D |-> 1]
           v == ValuesOf(points)
<1>1. /\ IsFiniteSet(D) /\ \A i \in D : v[i] \in Int
      /\ \A e \in es : part[e] \in SUBSET D
  BY PointsAreTyped DEF At
<1>2. \A e \in es : IsFiniteSet(part[e])
  BY <1>1, FS_Subset
<1>3. \A e, f \in es : e = f \/ part[e] \cap part[f] = {}
  BY DEF Whole, At
<1>4. \A e \in es : e.count = Cardinality(part[e]) /\ e.total = SumOver(v, part[e])
  <2> SUFFICES ASSUME NEW e \in es
               PROVE  e.count = Cardinality(part[e]) /\ e.total = SumOver(v, part[e])
    OBVIOUS
  <2>1. e = SummaryIn(points, e.key) /\ part[e] = At(points, e.key)
    BY DEF Whole
  <2> DEFINE s == SummaryIn(points, e.key)
  <2>2. s.count = Cardinality(part[e]) /\ s.total = SumOver(v, part[e])
    BY <2>1, SummaryFields
  <2>3. e = s
    BY <2>1
  <2> HIDE DEF s, part
  <2> QED BY <2>2, <2>3
<1>5. UNION {part[e] : e \in es} = PointsIn(es)
  BY DEF PointsIn
<1> DEFINE all == PointsIn(es)
<1>6. all \in SUBSET D /\ IsFiniteSet(all)
  <2>1. all \in SUBSET D
    BY <1>1, <1>5
  <2> HIDE DEF all, D
  <2> QED BY <1>1, <2>1, FS_Subset
<1> HIDE DEF part, D, v, all
<1>7. SumOver([e \in es |-> SumOver(v, part[e])], es) = SumOver(v, UNION {part[e] : e \in es})
  BY <1>1, <1>2, <1>3, SumByParts, SMTT(30)
<1>8. SumOver([e \in es |-> SumOver(ones, part[e])], es)
        = SumOver(ones, UNION {part[e] : e \in es})
  <2>1. \A i \in D : ones[i] \in Int
    OBVIOUS
  <2> HIDE DEF ones
  <2> QED BY <1>1, <1>2, <1>3, <2>1, SumByParts, SMTT(30)
<1>9. \A s \in SUBSET D : SumOver(ones, s) = Cardinality(s)
  <2> SUFFICES ASSUME NEW s \in SUBSET D PROVE SumOver(ones, s) = Cardinality(s)
    OBVIOUS
  <2>1. IsFiniteSet(s) /\ \A i \in s : ones[i] = 1
    BY <1>1, FS_Subset
  <2> HIDE DEF ones
  <2> QED BY <2>1, SumOfOnes
<1>10. [e \in es |-> e.total] = [e \in es |-> SumOver(v, part[e])]
  BY <1>4
<1>11. [e \in es |-> e.count] = [e \in es |-> SumOver(ones, part[e])]
  <2> HIDE DEF ones
  <2> QED BY <1>1, <1>4, <1>9
<1> HIDE DEF ones
<1>12. SumOver([e \in es |-> e.count], es) = Cardinality(all)
  BY <1>5, <1>6, <1>8, <1>9, <1>11 DEF all
<1>13. SumOver([e \in es |-> e.total], es) = SumOver(v, all)
  BY <1>5, <1>7, <1>10 DEF all
<1> QED BY <1>6, <1>12, <1>13 DEF all, v, D

(* and the latest of them is the latest point. *)
LEMMA LatestOfEntries ==
    ASSUME points \in Seq(UsablePoints), NEW es, IsFiniteSet(es), \A e \in es : Whole(e),
           es # {}
    PROVE  Max({e.latest : e \in es}) = Max({points[i].ts : i \in PointsIn(es)})
<1> DEFINE L == {e.latest : e \in es}
           T == {points[i].ts : i \in PointsIn(es)}
           times(e) == {points[i].ts : i \in At(points, e.key)}
<1>1. \A e \in es : At(points, e.key) \in SUBSET DOMAIN points
  BY DEF At
<1>2. ASSUME NEW e \in es
      PROVE  /\ e.latest \in times(e) /\ \A t \in times(e) : t <= e.latest
             /\ times(e) \in SUBSET Int
  <2>1. e.latest = Max(times(e))
    <3> DEFINE s == SummaryIn(points, e.key)
    <3>1. s.latest = Max(times(e))
      BY SummaryFields
    <3>2. e = s
      BY DEF Whole
    <3> HIDE DEF s, times
    <3> QED BY <3>1, <3>2
  <2>2. At(points, e.key) # {}
    BY SummaryIsEntry DEF Whole
  <2>3. times(e) # {}
    BY <2>2
  <2>4. IsFiniteSet(times(e)) /\ times(e) \in SUBSET Int
    BY <1>1, SomeAreFinite
  <2> HIDE DEF times
  <2> QED BY <2>1, <2>3, <2>4, GreatestExists
<1>3. T = UNION {times(e) : e \in es}
  BY DEF PointsIn
<1>4. L \in SUBSET Int /\ L # {} /\ IsFiniteSet(L)
  <2>1. L \in SUBSET Int /\ L # {}
    BY <1>2
  <2> DEFINE g == [e \in es |-> e.latest]
  <2>2. L = {g[e] : e \in DOMAIN g} /\ DOMAIN g = es
    OBVIOUS
  <2> HIDE DEF g, L
  <2> QED BY <2>1, <2>2, ImageIsFinite
<1>5. T \in SUBSET Int /\ T # {} /\ IsFiniteSet(T)
  <2>1. PointsIn(es) \in SUBSET DOMAIN points
    BY <1>1 DEF PointsIn
  <2>2. T \in SUBSET Int /\ IsFiniteSet(T)
    BY <2>1, SomeAreFinite
  <2>3. PICK e \in es : TRUE
    OBVIOUS
  <2>4. e.latest \in T
    BY <1>2, <1>3
  <2> QED BY <2>2, <2>4
<1> HIDE DEF times, T, L
<1>6. /\ Max(L) \in L /\ \A y \in L : y <= Max(L)
      /\ Max(T) \in T /\ \A y \in T : y <= Max(T)
  BY <1>4, <1>5, GreatestExists
<1>9. Max(L) \in Int /\ Max(T) \in Int
  BY <1>4, <1>5, <1>6
<1>7. Max(T) <= Max(L)
  <2>1. PICK e \in es : Max(T) \in times(e)
    BY <1>3, <1>6
  <2>2. Max(T) <= e.latest
    BY <1>2, <2>1
  <2>3. e.latest \in L /\ e.latest \in Int
    BY <1>2 DEF L
  <2>4. e.latest <= Max(L)
    BY <1>6, <2>3
  <2> QED BY <1>9, <2>2, <2>3, <2>4
<1>8. Max(L) <= Max(T)
  <2>1. PICK e \in es : Max(L) = e.latest
    BY <1>6 DEF L
  <2>2. e.latest \in T
    BY <1>2, <1>3
  <2> QED BY <1>6, <2>1, <2>2
<1>10. Max(L) = Max(T)
  BY <1>7, <1>8, <1>9
<1> QED BY <1>10 DEF L, T

(* When AlignedQueriesAreExact says something, and the points a query is about. *)
Settled ==
    /\ AggInv /\ todo = <<>> /\ evicted = {} /\ points # <<>> /\ OneClock

Inside(q, bucket) ==
    {i \in DOMAIN points :
        /\ q.device \in {NoFilter, points[i].key.series[1]}
        /\ q.metric \in {NoFilter, points[i].key.series[2]}
        /\ points[i].key.bucket = bucket
        /\ q.start # NoFilter => q.start <= points[i].ts
        /\ q.end # NoFilter => points[i].ts < q.end}

(* A query's bounds select buckets and points alike. *)
LEMMA QueryBounds ==
    ASSUME Settled, NEW q \in AlignedQueries
    PROVE  /\ q.bucket \in Buckets /\ q.bucket # NoFilter
           /\ \A i \in DOMAIN points : points[i].key.bucket = q.bucket =>
                 /\ q.start # NoFilter =>
                       (q.start <= points[i].ts <=> q.start <= points[i].key.start)
                 /\ q.end # NoFilter =>
                       (points[i].ts < q.end <=> points[i].key.start < q.end)
<1>1. PICK b \in Buckets : /\ q.bucket = b
                           /\ q.start \in BucketStarts(b) \cup {NoFilter}
                           /\ q.end \in BucketStarts(b) \cup {NoFilter}
  BY DEF AlignedQueries, Buckets
<1>2. b # NoFilter
  BY AggregationAssumption DEF Buckets
<1>3. 1 \in DOMAIN points /\ points \in Seq(UsablePoints)
  BY DEF Settled, AggInv
<1>4. ASSUME NEW x \in BucketStarts(b), NEW i \in DOMAIN points, points[i].key.bucket = b
      PROVE  /\ x <= points[i].ts <=> x <= points[i].key.start
             /\ points[i].ts < x <=> points[i].key.start < x
  <2>1. x \in Int /\ (x + points[i].offset) % Ticks(points[i].key.bucket) = 0
    BY <1>3, <1>4, AggregationAssumption DEF BucketStarts, Settled, OneClock
  <2>2. points[i] \in UsablePoints
    BY <1>3
  <2> QED BY <2>1, <2>2, StartsAlign
<1> QED BY <1>1, <1>2, <1>4

(* With nothing evicted every entry is whole and every point has one. *)
LEMMA EntriesAreWhole ==
    ASSUME Settled
    PROVE  /\ IsFiniteSet(ToSet(data)) /\ \A e \in ToSet(data) : Whole(e)
           /\ \A i \in DOMAIN points : \E e \in ToSet(data) : e.key = points[i].key
<1>1. points \in Seq(UsablePoints) /\ Typed(data)
  BY DEF Settled, AggInv
<1>2. \A key \in Keys(points) : /\ SummaryIn(points, key) \in ToSet(data)
                                /\ SummaryIn(points, key).key = key
  BY <1>1, SummaryIsEntry DEF Settled, AggInv, Exact
<1>3. ASSUME NEW e \in ToSet(data) PROVE Whole(e)
  <2>1. e.key \in Keys(points)
    BY DEF Settled, AggInv, Bounded
  <2>2. e = SummaryIn(points, e.key)
    BY <1>1, <1>2, <2>1, SameKeySame
  <2> QED BY <2>1, <2>2 DEF Whole
<1>4. IsFiniteSet(ToSet(data))
  <2>1. DOMAIN data = 1..Len(data) /\ Len(data) \in Nat
    BY <1>1 DEF Typed
  <2>2. IsFiniteSet(DOMAIN data)
    BY <2>1, FS_Interval
  <2> QED BY <2>2, ImageIsFinite DEF ToSet
<1>5. \A i \in DOMAIN points : points[i].key \in Keys(points)
  BY DEF Keys
<1> QED BY <1>2, <1>3, <1>4, <1>5

(* So a query finds the entries of exactly its points, *)
LEMMA QueryFindsItsPoints ==
    ASSUME Settled, NEW q \in AlignedQueries
    PROVE  PointsIn(Query(q)) = Inside(q, q.bucket)
<1>1. ASSUME NEW i \in PointsIn(Query(q)) PROVE i \in Inside(q, q.bucket)
  <2>1. PICK e \in Query(q) : i \in At(points, e.key)
    BY DEF PointsIn
  <2>2. i \in DOMAIN points /\ points[i].key = e.key
    BY <2>1 DEF At
  <2>3. e.key.bucket = q.bucket
    BY QueryBounds DEF Query
  <2>4. /\ q.start # NoFilter => q.start <= points[i].key.start
        /\ q.end # NoFilter => points[i].key.start < q.end
        /\ q.device \in {NoFilter, points[i].key.series[1]}
        /\ q.metric \in {NoFilter, points[i].key.series[2]}
    BY <2>2 DEF Query
  <2> QED BY <2>2, <2>3, <2>4, QueryBounds DEF Inside
<1>2. ASSUME NEW i \in Inside(q, q.bucket) PROVE i \in PointsIn(Query(q))
  <2>1. i \in DOMAIN points /\ points[i].key.bucket = q.bucket
    BY DEF Inside
  <2>2. PICK e \in ToSet(data) : e.key = points[i].key
    BY <2>1, EntriesAreWhole
  <2>3. /\ q.start # NoFilter => q.start <= points[i].key.start
        /\ q.end # NoFilter => points[i].key.start < q.end
    BY <2>1, QueryBounds DEF Inside
  <2>4. e \in Query(q)
    BY <2>1, <2>2, <2>3 DEF Query, Inside
  <2>5. i \in At(points, e.key)
    BY <2>1, <2>2 DEF At
  <2> QED BY <2>4, <2>5 DEF PointsIn
<1> QED BY <1>1, <1>2

(* and it does not matter whether it asks for days or for hours. *)
LEMMA DaysMatchHours ==
    ASSUME Settled, NEW q, NEW b \in Buckets
    PROVE  /\ Cardinality(Inside(q, b)) = Cardinality(Inside(q, "hour"))
           /\ SumOver(ValuesOf(points), Inside(q, b))
                = SumOver(ValuesOf(points), Inside(q, "hour"))
           /\ {points[i].ts : i \in Inside(q, b)} = {points[i].ts : i \in Inside(q, "hour")}
<1> SUFFICES ASSUME b # "hour"
             PROVE  /\ Cardinality(Inside(q, b)) = Cardinality(Inside(q, "hour"))
                    /\ SumOver(ValuesOf(points), Inside(q, b))
                         = SumOver(ValuesOf(points), Inside(q, "hour"))
                    /\ {points[i].ts : i \in Inside(q, b)}
                         = {points[i].ts : i \in Inside(q, "hour")}
  OBVIOUS
<1> DEFINE H == Inside(q, "hour")
           D == Inside(q, "day")
           f == [i \in H |-> i + 1]
           v == ValuesOf(points)
<1>0. b = "day"
  BY DEF Buckets
<1>1. points \in Seq(UsablePoints) /\ Paired(points)
  BY DEF Settled, AggInv
<1>2. H \in SUBSET DOMAIN points /\ D \in SUBSET DOMAIN points /\ DOMAIN points \subseteq Int
  BY <1>1 DEF Inside
<1>3. ASSUME NEW i \in H
      PROVE  i + 1 \in D /\ v[i + 1] = v[i] /\ points[i + 1].ts = points[i].ts
  <2>1. i + 1 \in DOMAIN points /\ Twins(points[i], points[i + 1])
    BY <1>1, <1>2, HourThenDay DEF Inside
  <2>2. v[i + 1] = points[i + 1].value /\ v[i] = points[i].value
    BY <1>1, <1>2, <2>1, PointsAreTyped
  <2>3. i + 1 \in D
    BY <2>1 DEF Inside, Twins
  <2> QED BY <2>1, <2>2, <2>3 DEF Twins
<1>4. ASSUME NEW i \in D PROVE i - 1 \in H
  <2>1. i - 1 \in DOMAIN points /\ Twins(points[i - 1], points[i])
    BY <1>1, <1>2, HourThenDay DEF Inside
  <2> QED BY <2>1 DEF Inside, Twins
<1>5. IsFiniteSet(H) /\ IsFiniteSet(D) /\ \A i \in H : v[i] \in Int
  <2>1. \A i \in H : v[i] \in Int
    BY <1>1, <1>2, PointsAreTyped
  <2> HIDE DEF H, D
  <2> QED BY <1>1, <1>2, <2>1, SomeAreFinite
<1> HIDE DEF H, D, v
<1>6. f \in Bijection(H, D)
  <2>1. f \in [H -> D]
    BY <1>3
  <2>2. \A i, j \in H : f[i] = f[j] => i = j
    BY <1>2
  <2>3. \A j \in D : \E i \in H : f[i] = j
    <3> SUFFICES ASSUME NEW j \in D PROVE \E i \in H : f[i] = j
      OBVIOUS
    <3>1. j - 1 \in H /\ (j - 1) + 1 = j
      BY <1>2, <1>4
    <3> QED BY <3>1
  <2> HIDE DEF f
  <2> QED BY <2>1, <2>2, <2>3 DEF Bijection, Injection, Surjection, IsInjective
<1>7. Cardinality(H) = Cardinality(D)
  <2> HIDE DEF f
  <2> QED BY <1>5, <1>6, FS_Bijection DEF ExistsBijection
<1>8. SumOver(v, H) = SumOver(v, D)
  <2>1. \A i \in H : v[i] = v[f[i]] /\ v[i] \in Int
    BY <1>3, <1>5
  <2> HIDE DEF f
  <2> QED BY <1>5, <1>6, <2>1, SumRenamed
<1>9. {points[i].ts : i \in H} = {points[i].ts : i \in D}
  <2>1. \A i \in D : i - 1 \in H /\ points[(i - 1) + 1].ts = points[i - 1].ts
                     /\ (i - 1) + 1 = i
    BY <1>2, <1>3, <1>4
  <2> QED BY <1>3, <2>1
<1> QED BY <1>0, <1>7, <1>8, <1>9 DEF H, D, v

(* Which is what AlignedQueriesAreExact says. *)
LEMMA QueriesExact == ASSUME AggInv PROVE AlignedQueriesAreExact
<1> SUFFICES ASSUME todo = <<>> /\ evicted = {} /\ points # <<>> /\ OneClock,
                    NEW q \in AlignedQueries
             PROVE  LET found == Query(q)
                        at == PointsFor(q)
                        Count(e) == e.count
                        Total(e) == e.total
                        Value(i) == points[i].value
                    IN /\ MapThenSumSet(Count, found) = Cardinality(at)
                       /\ MapThenSumSet(Total, found) = MapThenSumSet(Value, at)
                       /\ found # {} =>
                             Max({e.latest : e \in found}) = Max({points[i].ts : i \in at})
  BY DEF AlignedQueriesAreExact
<1> DEFINE found == Query(q)
           at == PointsFor(q)
           b == q.bucket
           Count(e) == e.count
           Total(e) == e.total
           Value(i) == points[i].value
<1>1. Settled /\ points \in Seq(UsablePoints)
  BY DEF Settled, AggInv
<1>2. b \in Buckets
  BY <1>1, QueryBounds
<1>3. at = Inside(q, "hour")
  BY DEF PointsFor, Inside
<1>4. PointsIn(found) = Inside(q, b)
  BY <1>1, QueryFindsItsPoints
<1>5. IsFiniteSet(found) /\ \A e \in found : Whole(e)
  <2>1. found \in SUBSET ToSet(data)
    BY DEF Query
  <2> HIDE DEF found
  <2> QED BY <1>1, <2>1, EntriesAreWhole, FS_Subset
<1>6. at \in SUBSET DOMAIN points
  BY DEF PointsFor
<1> HIDE DEF found, at, b
<1>7. IsFiniteSet(at)
  BY <1>1, <1>6, SomeAreFinite
<1>8. MapThenSumSet(Count, found) = Cardinality(at)
  <2>1. MapThenSumSet(Count, found) = SumOver([e \in found |-> e.count], found)
    BY <1>5, CountsAddUp
  <2> QED BY <1>1, <1>2, <1>3, <1>4, <1>5, <2>1, EntriesAddUp, DaysMatchHours
<1>9. MapThenSumSet(Total, found) = MapThenSumSet(Value, at)
  <2>1. MapThenSumSet(Total, found) = SumOver([e \in found |-> e.total], found)
    BY <1>5, TotalsAddUp
  <2>2. MapThenSumSet(Value, at) = SumOver(ValuesOf(points), at)
    BY <1>6, <1>7, ValuesAddUp
  <2> QED BY <1>1, <1>2, <1>3, <1>4, <1>5, <2>1, <2>2, EntriesAddUp, DaysMatchHours
<1>10. found # {} => Max({e.latest : e \in found}) = Max({points[i].ts : i \in at})
  BY <1>1, <1>2, <1>3, <1>4, <1>5, LatestOfEntries, DaysMatchHours
<1> QED BY <1>8, <1>9, <1>10 DEF found, at

(* Between events, a query whose bounds are bucket boundaries of the one UTC offset
   in use counts, sums and dates exactly the events of its window, asked for hours or
   for days, for any devices and metrics, as long as nothing was evicted
   (metrics_aggregate.py:175-212). *)
THEOREM QueriesStayExact == AggSpec => []AlignedQueriesAreExact
<1>1. AggInv => AlignedQueriesAreExact
  BY QueriesExact
<1> QED BY <1>1, AggCorrect, PTL
=============================================================================
