--------------------------- MODULE StreamListProofs ---------------------------
(* Theorems about StreamList for every set of streams, clients and queries.      *)
EXTENDS StreamList, FiniteSetTheorems, TLAPS

-----------------------------------------------------------------------------
(* The order of a listing.                                                  *)

LEMMA IntBounds ==
    /\ MaxInt \in Nat \ {0} /\ DefaultPageSize \in 1 .. MaxInt
    /\ IsFiniteSet(Streams) /\ Cardinality(Streams) <= MaxInt
  BY StreamListAssumption

LEMMA BucketType ==
    ASSUME NEW bucket \in Bucket
    PROVE  /\ DOMAIN bucket \subseteq Streams /\ IsFiniteSet(DOMAIN bucket)
           /\ \A s \in DOMAIN bucket : bucket[s] \in Row
           /\ Cardinality(DOMAIN bucket) \in 0 .. MaxInt
  <1>1. PICK S \in SUBSET Streams : bucket \in [S -> Row]
    BY DEF Bucket
  <1>2. DOMAIN bucket = S
    BY <1>1
  <1>3. IsFiniteSet(S) /\ Cardinality(S) <= Cardinality(Streams)
    BY FS_Subset, StreamListAssumption
  <1>4. Cardinality(S) \in Nat /\ Cardinality(Streams) \in Nat
    BY <1>3, FS_CardinalityType, StreamListAssumption
  <1> QED
    BY <1>1, <1>2, <1>3, <1>4, IntBounds

LEMMA FittingType ==
    ASSUME NEW bucket \in Bucket, NEW f
    PROVE  /\ Fitting(bucket, f) \subseteq DOMAIN bucket
           /\ IsFiniteSet(Fitting(bucket, f))
           /\ Cardinality(Fitting(bucket, f)) \in Nat
           /\ Cardinality(Fitting(bucket, f)) <= Cardinality(DOMAIN bucket)
  <1>1. Fitting(bucket, f) \subseteq DOMAIN bucket
    BY DEF Fitting
  <1> QED
    BY <1>1, BucketType, FS_Subset, FS_CardinalityType

LEMMA SortKeyType ==
    ASSUME NEW bucket \in Bucket, NEW f \in Filter, NEW s \in DOMAIN bucket
    PROVE  SortKey(bucket, f, s) \in Nat
  <1>1. s \in Nat /\ bucket[s].started \in Nat
    BY BucketType, StreamListAssumption DEF Row
  <1>2. f.sortBy \in {"uuid", "launchMode", "started", "status"}
    BY DEF Filter, Fields
  <1> QED
    BY <1>1, <1>2 DEF SortKey

\* Streams that are equal in the field are told apart by their UUIDs.
LEMMA BeforeIsOrder ==
    ASSUME NEW bucket \in Bucket, NEW f \in Filter
    PROVE  /\ \A s \in DOMAIN bucket : ~ Before(bucket, f, s, s)
           /\ \A s, t \in DOMAIN bucket :
                s # t => Before(bucket, f, s, t) \/ Before(bucket, f, t, s)
           /\ \A s, t, u \in DOMAIN bucket :
                Before(bucket, f, s, t) /\ Before(bucket, f, t, u) => Before(bucket, f, s, u)
  <1>1. \A s \in DOMAIN bucket : SortKey(bucket, f, s) \in Nat
    BY SortKeyType
  <1>2. DOMAIN bucket \subseteq Nat
    BY BucketType, StreamListAssumption
  <1>3. f.sortOrder = "asc" \/ f.sortOrder = "desc"
    BY DEF Filter, Orders
  <1> QED
    BY <1>1, <1>2, <1>3 DEF Before

\* The streams of the listing that sort before a stream of the bucket.
Ahead(bucket, f, s) == {t \in Fitting(bucket, f) : Before(bucket, f, t, s)}

LEMMA AheadType ==
    ASSUME NEW bucket \in Bucket, NEW f, NEW s
    PROVE  IsFiniteSet(Ahead(bucket, f, s)) /\ Cardinality(Ahead(bucket, f, s)) \in Nat
  <1>1. Ahead(bucket, f, s) \in SUBSET Fitting(bucket, f)
    BY DEF Ahead
  <1> QED
    BY <1>1, FittingType, FS_Subset, FS_CardinalityType

\* The further behind a stream, the more streams are ahead of it.
LEMMA AheadGrows ==
    ASSUME NEW bucket \in Bucket, NEW f \in Filter,
           NEW s \in Fitting(bucket, f), NEW t \in Fitting(bucket, f), Before(bucket, f, s, t)
    PROVE  Cardinality(Ahead(bucket, f, s)) < Cardinality(Ahead(bucket, f, t))
  <1>1. Fitting(bucket, f) \subseteq DOMAIN bucket
    BY FittingType
  <1>2. Ahead(bucket, f, s) \subseteq Ahead(bucket, f, t)
    BY <1>1, BeforeIsOrder DEF Ahead
  <1>3. s \in Ahead(bucket, f, t) /\ s \notin Ahead(bucket, f, s)
    BY <1>1, BeforeIsOrder DEF Ahead
  <1>4. /\ Cardinality(Ahead(bucket, f, s)) <= Cardinality(Ahead(bucket, f, t))
        /\ Cardinality(Ahead(bucket, f, s)) # Cardinality(Ahead(bucket, f, t))
    BY <1>2, <1>3, AheadType, FS_Subset
  <1> QED
    BY <1>4, AheadType

\* A list in which each stream comes before those behind it.
IsShortListing(list, bucket, f) ==
    /\ list \in [1 .. Cardinality(Fitting(bucket, f)) -> Fitting(bucket, f)]
    /\ \A i, j \in DOMAIN list : i < j => Before(bucket, f, list[i], list[j])

LEMMA SortedExists ==
    ASSUME NEW bucket \in Bucket, NEW f \in Filter
    PROVE  \E list : IsShortListing(list, bucket, f)
  <1> DEFINE S == Fitting(bucket, f)
             n == Cardinality(S)
             place == [s \in S |-> Cardinality(Ahead(bucket, f, s)) + 1]
  <1>1. n \in Nat /\ IsFiniteSet(S) /\ S \subseteq DOMAIN bucket
    BY FittingType
  <1>2. ASSUME NEW s \in S PROVE place[s] \in 1 .. n
    <2>1. Ahead(bucket, f, s) \in SUBSET S /\ Ahead(bucket, f, s) # S
      BY <1>1, BeforeIsOrder DEF Ahead
    <2>2. /\ Cardinality(Ahead(bucket, f, s)) <= n
          /\ Cardinality(Ahead(bucket, f, s)) # n
      BY <1>1, <2>1, FS_Subset
    <2> QED
      BY <1>1, <2>2, AheadType
  <1>3. ASSUME NEW s \in S, NEW t \in S, Before(bucket, f, s, t) PROVE place[s] < place[t]
    BY <1>3, AheadGrows, AheadType
  <1>4. ASSUME NEW s \in S, NEW t \in S, place[s] = place[t] PROVE s = t
    <2>1. SUFFICES ASSUME s # t PROVE FALSE
      OBVIOUS
    <2>2. Before(bucket, f, s, t) \/ Before(bucket, f, t, s)
      BY <1>1, <2>1, BeforeIsOrder
    <2>3. place[s] \in Nat /\ place[t] \in Nat
      BY <1>2
    <2>4. CASE Before(bucket, f, s, t)
      BY <1>3, <1>4, <2>3, <2>4
    <2>5. CASE Before(bucket, f, t, s)
      BY <1>3, <1>4, <2>3, <2>5
    <2> QED
      BY <2>2, <2>4, <2>5
  <1>5. place \in Injection(S, 1 .. n)
    <2>1. place \in [S -> 1 .. n]
      BY <1>2
    <2> QED
      BY <1>4, <2>1 DEF Injection, IsInjective
  <1>6. IsFiniteSet(1 .. n) /\ Cardinality(1 .. n) = n
    <2>1. 1 \in Int /\ n \in Int
      BY <1>1
    <2>2. IsFiniteSet(1 .. n) /\ Cardinality(1 .. n) = IF 1 > n THEN 0 ELSE n - 1 + 1
      BY <2>1, FS_Interval
    <2> QED
      BY <1>1, <2>2
  <1>7. \A i \in 1 .. n : \E s \in S : place[s] = i
    <2>1. place \in Surjection(S, 1 .. n)
      BY <1>5, <1>6, FS_Injection
    <2> QED
      BY <2>1 DEF Surjection
  <1> DEFINE list == [i \in 1 .. n |-> CHOOSE s \in S : place[s] = i]
  <1>8. \A i \in 1 .. n : list[i] \in S /\ place[list[i]] = i
    BY <1>7
  <1>9. ASSUME NEW i \in 1 .. n, NEW j \in 1 .. n, i < j
        PROVE  Before(bucket, f, list[i], list[j])
    <2>1. /\ list[i] \in S /\ list[j] \in S
          /\ place[list[i]] < place[list[j]]
      BY <1>8, <1>9
    <2>2. list[i] # list[j] /\ ~ Before(bucket, f, list[j], list[i])
      <3> HIDE DEF list, place
      <3>1. place[list[i]] \in Nat /\ place[list[j]] \in Nat
        BY <1>2, <2>1
      <3> QED
        BY <1>3, <2>1, <3>1
    <2> QED
      BY <1>1, <2>1, <2>2, BeforeIsOrder
  <1>10. list \in [1 .. n -> S] /\ DOMAIN list = 1 .. n
    BY <1>8
  <1>11. IsShortListing(list, bucket, f)
    BY <1>9, <1>10 DEF IsShortListing
  <1> QED
    BY <1>11

LEMMA ListingInOrder ==
    ASSUME NEW bucket \in Bucket, NEW f \in Filter
    PROVE  LET list == Listing(bucket, f)
               S == Fitting(bucket, f) IN
           /\ list \in [1 .. Cardinality(S) -> S]
           /\ \A i, j \in 1 .. Cardinality(S) : i < j => InOrder(bucket, f, list[i], list[j])
  <1> DEFINE S == Fitting(bucket, f)
             Listed(list) == /\ list \in [1 .. Cardinality(S) -> S]
                             /\ \A i, j \in DOMAIN list : i < j => InOrder(bucket, f, list[i], list[j])
  <1>1. PICK list : IsShortListing(list, bucket, f)
    BY SortedExists
  <1>2. Listed(list)
    BY <1>1 DEF IsShortListing, InOrder
  <1>3. Listed(Listing(bucket, f))
    BY <1>2 DEF Listing
  <1> QED
    BY <1>3

\* Where the order is settled, no two streams of the listing are equal in the field or
\* the slice is short.
LEMMA SettledOrder ==
    ASSUME NEW bucket \in Bucket, NEW f \in Filter, Settled(bucket, f),
           NEW s \in Fitting(bucket, f), NEW t \in Fitting(bucket, f), InOrder(bucket, f, s, t)
    PROVE  Before(bucket, f, s, t)
  <1>1. Cardinality(Fitting(bucket, f)) \in Nat /\ ShortSlice \in Nat
    BY FittingType, StreamListAssumption
  <1> QED
    BY <1>1 DEF Settled, InOrder

\* A listing is a sequence of all the streams that fit, each of them once; where the order
\* is settled, the place of a stream in it is behind the streams that are ahead of it.
LEMMA ListingPlaces ==
    ASSUME NEW bucket \in Bucket, NEW f \in Filter
    PROVE  LET list == Listing(bucket, f)
               S == Fitting(bucket, f) IN
           /\ list \in Seq(S) /\ Len(list) = Cardinality(S)
           /\ \A s \in S : \E i \in 1 .. Len(list) : list[i] = s
           /\ \A i \in 1 .. Len(list) : list[i] \in S
           /\ \A i, j \in 1 .. Len(list) : i < j => InOrder(bucket, f, list[i], list[j])
           /\ Settled(bucket, f) =>
                \A i \in 1 .. Len(list) : Cardinality(Ahead(bucket, f, list[i])) = i - 1
  <1> DEFINE S == Fitting(bucket, f)
             n == Cardinality(S)
             list == Listing(bucket, f)
  <1>1. n \in Nat /\ IsFiniteSet(S) /\ S \subseteq DOMAIN bucket
    BY FittingType
  <1>2. /\ list \in [1 .. n -> S]
        /\ \A i, j \in 1 .. n : i < j => InOrder(bucket, f, list[i], list[j])
    BY ListingInOrder
  <1> HIDE DEF list
  <1>3. \A i, j \in 1 .. n : list[i] = list[j] => i = j
    <2>1. \A i \in 1 .. n : ~ InOrder(bucket, f, list[i], list[i])
      BY <1>1, <1>2, BeforeIsOrder DEF InOrder
    <2> QED
      BY <1>2, <2>1
  <1>4. IsFiniteSet(1 .. n) /\ Cardinality(1 .. n) = n
    <2>1. 1 \in Int /\ n \in Int
      BY <1>1
    <2>2. IsFiniteSet(1 .. n) /\ Cardinality(1 .. n) = IF 1 > n THEN 0 ELSE n - 1 + 1
      BY <2>1, FS_Interval
    <2> QED
      BY <1>1, <2>2
  <1>5. \A s \in S : \E i \in 1 .. n : list[i] = s
    <2>1. list \in Injection(1 .. n, S)
      BY <1>2, <1>3 DEF Injection, IsInjective
    <2>2. list \in Surjection(1 .. n, S)
      BY <1>1, <1>4, <2>1, FS_Injection
    <2> QED
      BY <2>2 DEF Surjection
  <1>6. ASSUME Settled(bucket, f), NEW i \in 1 .. n
        PROVE  Cardinality(Ahead(bucket, f, list[i])) = i - 1
    <2> DEFINE ahead == [k \in 1 .. (i - 1) |-> list[k]]
    <2>1. i - 1 \in Nat /\ 1 .. (i - 1) \subseteq 1 .. n
      BY <1>1
    <2>2. \A k \in 1 .. n : Before(bucket, f, list[k], list[i]) <=> k < i
      <3>1. \A k, m \in 1 .. n : k < m => Before(bucket, f, list[k], list[m])
        BY <1>2, <1>6, SettledOrder
      <3>2. \A k \in 1 .. n : list[k] \in DOMAIN bucket
        BY <1>1, <1>2
      <3>3. \A k \in 1 .. n : k < i \/ k = i \/ i < k
        BY <1>1
      <3> QED
        BY <1>1, <1>6, <3>1, <3>2, <3>3, BeforeIsOrder
    <2>3. ahead \in [1 .. (i - 1) -> Ahead(bucket, f, list[i])]
      BY <1>2, <2>1, <2>2 DEF Ahead
    <2>4. ahead \in Injection(1 .. (i - 1), Ahead(bucket, f, list[i]))
      BY <1>3, <2>1, <2>3 DEF Injection, IsInjective
    <2>5. \A t \in Ahead(bucket, f, list[i]) : \E k \in 1 .. (i - 1) : ahead[k] = t
      BY <1>1, <1>5, <2>2 DEF Ahead
    <2>6. ExistsBijection(1 .. (i - 1), Ahead(bucket, f, list[i]))
      BY <2>3, <2>4, <2>5 DEF ExistsBijection, Bijection, Surjection
    <2> QED
      BY <2>1, <2>6, FS_CountingElements
  <1>7. list \in Seq(S) /\ Len(list) = n
    BY <1>1, <1>2
  <1> QED
    BY <1>2, <1>5, <1>6, <1>7 DEF list

-----------------------------------------------------------------------------
(* The page of a list.                                                      *)

LEMMA DivMod ==
    ASSUME NEW a \in Int, NEW b \in Nat \ {0}
    PROVE  a \div b \in Int /\ a % b \in 0 .. (b - 1) /\ a = b * (a \div b) + (a % b)
  OBVIOUS

\* An int is itself, and a sum that is not wraps once.
LEMMA WrapOnce ==
    ASSUME NEW n \in Int
    PROVE  /\ n \in (- MaxInt - 1) .. MaxInt => Wrap(n) = n
           /\ n \in (MaxInt + 1) .. (2 * MaxInt + 1) => Wrap(n) = n - (2 * MaxInt + 2)
           /\ n \in (- 2 * MaxInt - 2) .. (- MaxInt - 2) => Wrap(n) = n + (2 * MaxInt + 2)
  <1> DEFINE w == 2 * MaxInt + 2
             m == n + MaxInt + 1
  <1>1. MaxInt \in Nat
    BY StreamListAssumption
  <1>2. w \in Nat \ {0} /\ m \in Int
    BY <1>1
  <1>3. m \div w \in Int /\ m % w \in 0 .. (w - 1) /\ m = w * (m \div w) + (m % w)
    <2> HIDE DEF m, w
    <2> QED BY <1>2, DivMod
  <1>4. ASSUME NEW q \in Int, NEW r \in 0 .. (w - 1), m = w * q + r PROVE m % w = r
    <2>1. (m \div w) \in Int /\ w * ((m \div w) - q) = r - (m % w)
      BY <1>2, <1>3, <1>4
    <2>2. r - (m % w) \in (1 - w) .. (w - 1)
      BY <1>2, <1>3
    <2> HIDE DEF m, w
    <2>3. \A d \in Int : w * d \in (1 - w) .. (w - 1) => d = 0
      BY <1>2
    <2>4. (m \div w) - q = 0
      BY <1>3, <2>1, <2>2, <2>3
    <2>5. w * ((m \div w) - q) = 0
      BY <1>2, <2>4
    <2> QED
      BY <1>3, <2>1, <2>5
  <1>5. Wrap(n) = (m % w) - MaxInt - 1
    BY DEF Wrap
  <1>6. ASSUME n \in (- MaxInt - 1) .. MaxInt PROVE m % w = m
    BY <1>1, <1>4, <1>6
  <1>7. ASSUME n \in (MaxInt + 1) .. (2 * MaxInt + 1) PROVE m % w = m - w
    BY <1>1, <1>4, <1>7
  <1>8. ASSUME n \in (- 2 * MaxInt - 2) .. (- MaxInt - 2) PROVE m % w = m + w
    BY <1>1, <1>4, <1>8
  <1> QED
    BY <1>1, <1>5, <1>6, <1>7, <1>8

LEMMA Scaled ==
    ASSUME NEW a \in Int, NEW b \in Int, NEW size \in Nat \ {0}, a <= b
    PROVE  a * size \in Int /\ b * size \in Int /\ a * size <= b * size
  OBVIOUS

LEMMA PagePositions ==
    ASSUME NEW i \in Nat \ {0}, NEW page \in Nat \ {0}, NEW size \in Nat \ {0}
    PROVE  /\ PageNumber(i, size) = page <=> (page - 1) * size < i /\ i <= page * size
           /\ PageNumber(i, size) > page <=> i > page * size
           /\ PageNumber(i, size) = page => (i - 1) % size = i - 1 - (page - 1) * size
  <1> DEFINE q == (i - 1) \div size
             r == (i - 1) % size
  <1>1. q \in Int /\ r \in 0 .. (size - 1) /\ i - 1 = size * q + r
    <2>1. \A k \in Int :
            k \div size \in Int /\ k % size \in 0 .. (size - 1) /\ k = size * (k \div size) + (k % size)
      BY DivMod
    <2>2. i - 1 \in Int
      OBVIOUS
    <2> QED
      BY <2>1, <2>2
  <1>2. PageNumber(i, size) = q + 1
    BY DEF PageNumber
  <1> HIDE DEF q, r
  <1>3. ASSUME q >= page PROVE i > page * size
    BY <1>1, <1>3, Scaled
  <1>4. ASSUME q < page PROVE i <= page * size
    <2>1. (q + 1) * size <= page * size
      BY <1>1, <1>4, Scaled
    <2> QED
      BY <1>1, <2>1
  <1>5. ASSUME q >= page - 1 PROVE i > (page - 1) * size
    BY <1>1, <1>5, Scaled
  <1>6. ASSUME q < page - 1 PROVE i <= (page - 1) * size
    <2>1. (q + 1) * size <= (page - 1) * size
      BY <1>1, <1>6, Scaled
    <2> QED
      BY <1>1, <2>1
  <1>7. (page - 1) * size \in Int /\ page * size \in Int
    OBVIOUS
  <1>8. q = page - 1 => r = i - 1 - (page - 1) * size
    BY <1>1
  <1> QED
    BY <1>1, <1>2, <1>3, <1>4, <1>5, <1>6, <1>7, <1>8 DEF r

LEMMA StartOfPage ==
    ASSUME NEW page \in Nat \ {0}, NEW size \in Nat \ {0}
    PROVE  /\ (page - 1) * size \in Nat /\ page * size \in Nat
           /\ page * size = (page - 1) * size + size
  <1>1. page - 1 \in Nat /\ page = (page - 1) + 1
    OBVIOUS
  <1>2. \A k \in Nat : k * size \in Nat /\ (k + 1) * size = k * size + size
    OBVIOUS
  <1> QED
    BY <1>1, <1>2

\* What Page stands for: a request for a page of a list that is no longer than the rows
\* counted with it.
LEMMA PageCut ==
    ASSUME NEW S, NEW list \in Seq(S), NEW capacity \in 0 .. MaxInt, Len(list) <= capacity,
           NEW page \in 1 .. MaxInt, NEW size \in 1 .. MaxInt, page * size <= MaxInt
    PROVE  LET start == (page - 1) * size
               cut == PageOf(list, page, size) IN
           /\ ~ Panics(list, capacity, page, size)
           /\ start \in Nat /\ cut \in Seq(S)
           /\ \A k \in Nat \ {0} : k <= Len(cut) <=> k <= size /\ start + k <= Len(list)
           /\ \A k \in 1 .. Len(cut) : cut[k] = list[start + k]
           /\ HasNext(list, page, size) <=> Len(list) > page * size
  <1> DEFINE start == (page - 1) * size
             cut == PageOf(list, page, size)
  <1>1. /\ MaxInt \in Nat /\ Len(list) \in Nat
        /\ page \in Nat \ {0} /\ size \in Nat \ {0} /\ size <= MaxInt
    BY IntBounds
  <1>2. start \in Nat /\ page * size = start + size /\ start + size <= MaxInt
    BY <1>1, StartOfPage
  <1> HIDE DEF start
  <1>3. StartIndex(page, size) = start
    <2>1. start \in Int /\ start \in (- MaxInt - 1) .. MaxInt
      BY <1>1, <1>2
    <2> QED
      BY <2>1, WrapOnce DEF StartIndex, start
  <1>4. EndIndex(page, size) = start + size
    <2>1. start + size \in Int /\ start + size \in (- MaxInt - 1) .. MaxInt
      BY <1>1, <1>2
    <2> QED
      BY <1>3, <2>1, WrapOnce DEF EndIndex
  <1>5. Wrap(EndIndex(page, size) - StartIndex(page, size)) = size
    <2>1. size \in Int /\ size \in (- MaxInt - 1) .. MaxInt
      BY <1>1
    <2>2. Wrap(size) = size
      BY <2>1, WrapOnce
    <2>3. EndIndex(page, size) - StartIndex(page, size) = size
      BY <1>1, <1>2, <1>3, <1>4
    <2> QED
      BY <2>2, <2>3
  <1>6. Wrap(page * size) = page * size
    <2>1. page * size \in Int /\ page * size \in (- MaxInt - 1) .. MaxInt
      BY <1>1, <1>2
    <2> QED
      BY <2>1, WrapOnce
  <1>7. ~ Panics(list, capacity, page, size)
    BY <1>1, <1>2, <1>3, <1>4, <1>5 DEF Panics, Room
  <1>8. HasNext(list, page, size) <=> Len(list) > page * size
    BY <1>6 DEF HasNext
  <1>9. /\ cut \in Seq(S)
        /\ \A k \in Nat \ {0} : k <= Len(cut) <=> k <= size /\ start + k <= Len(list)
        /\ \A k \in 1 .. Len(cut) : cut[k] = list[start + k]
    <2>1. CASE start >= Len(list)
      <3>1. cut = <<>>
        BY <1>1, <1>2, <1>3, <1>4, <2>1 DEF PageOf, Rest
      <3>2. cut \in Seq(S) /\ Len(cut) = 0
        BY <3>1
      <3> HIDE DEF cut
      <3>3. \A k \in Nat \ {0} : ~ k <= Len(cut) /\ ~ start + k <= Len(list)
        BY <1>1, <1>2, <2>1, <3>2
      <3> QED
        BY <3>2, <3>3
    <2>2. CASE start < Len(list)
      <3> DEFINE rest == SubSeq(list, start + 1, Len(list))
      <3>1. /\ rest \in Seq(S) /\ Len(rest) = Len(list) - start
            /\ \A k \in 1 .. Len(rest) : rest[k] = list[start + k]
        BY <1>1, <1>2, <2>2
      <3>2. Rest(list, page, size) = rest
        BY <1>3, <2>2 DEF Rest
      <3> HIDE DEF rest
      <3>3. CASE start + size < Len(list)
        <4>1. cut = [k \in 1 .. size |-> rest[k]]
          <5>1. \A k \in 1 .. size : k <= Len(rest)
            BY <1>1, <1>2, <3>1, <3>3
          <5> QED
            BY <1>4, <1>5, <3>2, <3>3, <5>1 DEF PageOf
        <4>2. \A k \in 1 .. size : rest[k] \in S /\ rest[k] = list[start + k]
          BY <1>1, <1>2, <3>1, <3>3
        <4>3. cut \in Seq(S) /\ Len(cut) = size /\ \A k \in 1 .. size : cut[k] = list[start + k]
          BY <1>1, <4>1, <4>2
        <4> HIDE DEF cut
        <4>4. \A k \in Nat \ {0} : k <= size => start + k <= Len(list)
          BY <1>1, <1>2, <3>3
        <4> QED
          BY <4>3, <4>4
      <3>4. CASE ~ start + size < Len(list)
        <4>1. cut = rest
          BY <1>4, <3>2, <3>4 DEF PageOf
        <4> HIDE DEF cut
        <4>2. \A k \in Nat \ {0} :
                k <= Len(rest) <=> k <= size /\ start + k <= Len(list)
          BY <1>1, <1>2, <3>1, <3>4
        <4> QED
          BY <3>1, <4>1, <4>2
      <3> QED
        BY <3>3, <3>4
    <2> QED
      BY <1>1, <1>2, <2>1, <2>2
  <1> QED
    BY <1>2, <1>7, <1>8, <1>9 DEF start

\* The page whose last position is beyond an int is a panic.
LEMMA PageBeyondInt ==
    ASSUME NEW S, NEW list \in Seq(S), NEW capacity \in 0 .. MaxInt,
           NEW page \in 1 .. MaxInt, NEW size \in 1 .. MaxInt,
           (page - 1) * size <= MaxInt, page * size > MaxInt
    PROVE  Panics(list, capacity, page, size)
  <1> DEFINE start == (page - 1) * size
             w == 2 * MaxInt + 2
  <1>1. /\ MaxInt \in Nat /\ Len(list) \in Nat
        /\ page \in Nat \ {0} /\ size \in Nat \ {0} /\ size <= MaxInt
    BY IntBounds
  <1>2. /\ start \in Nat /\ page * size = start + size
        /\ start <= MaxInt /\ start + size > MaxInt
    BY <1>1, StartOfPage
  <1>3. StartIndex(page, size) = start
    <2>1. start \in Int /\ start \in (- MaxInt - 1) .. MaxInt
      BY <1>1, <1>2
    <2> HIDE DEF start
    <2> QED
      BY <2>1, WrapOnce DEF StartIndex, start
  <1> HIDE DEF start
  <1>4. EndIndex(page, size) = (start + size) - w
    <2>1. start + size \in Int /\ start + size \in (MaxInt + 1) .. (2 * MaxInt + 1)
      BY <1>1, <1>2
    <2>2. Wrap(start + size) = (start + size) - w
      <3> DEFINE n == start + size
      <3>1. n \in Int /\ n \in (MaxInt + 1) .. (2 * MaxInt + 1)
        BY <2>1
      <3> HIDE DEF n
      <3>2. Wrap(n) = n - w
        BY <3>1, WrapOnce
      <3> QED
        BY <3>2 DEF n
    <2> QED
      BY <1>3, <2>2 DEF EndIndex
  <1>5. Wrap(EndIndex(page, size) - StartIndex(page, size)) = size
    <2>1. EndIndex(page, size) - StartIndex(page, size) = size - w
      BY <1>1, <1>2, <1>3, <1>4
    <2>2. size - w \in Int /\ size - w \in (- 2 * MaxInt - 2) .. (- MaxInt - 2)
      BY <1>1
    <2>3. Wrap(size - w) = (size - w) + w
      <3> DEFINE n == size - w
      <3>1. n \in Int /\ n \in (- 2 * MaxInt - 2) .. (- MaxInt - 2)
        BY <2>2
      <3> HIDE DEF n
      <3>2. Wrap(n) = n + w
        BY <3>1, WrapOnce
      <3> QED
        BY <3>2 DEF n
    <2> QED
      BY <1>1, <2>1, <2>3
  <1>6. (start + size) - w < Len(list)
    BY <1>1, <1>2
  <1>7. Room(list, capacity, page, size) < size
    <2>1. capacity - start < size
      BY <1>1, <1>2
    <2> QED
      BY <1>1, <1>3, <2>1 DEF Room
  <1> QED
    BY <1>4, <1>5, <1>6, <1>7 DEF Panics

\* The page holds the streams at its positions, and hasNext tells whether any are left.
LEMMA PageIsCut ==
    ASSUME NEW S, NEW list \in Seq(S), NEW capacity \in 0 .. MaxInt, Len(list) <= capacity,
           NEW page \in 1 .. MaxInt, NEW size \in 1 .. MaxInt, page * size <= MaxInt
    PROVE  RightlyCut(list, capacity, page, size)
  <1> DEFINE start == (page - 1) * size
             cut == PageOf(list, page, size)
             n == Len(cut)
  <1>1. MaxInt \in Nat /\ Len(list) \in Nat /\ page \in Nat \ {0} /\ size \in Nat \ {0}
    BY IntBounds
  <1>2. /\ ~ Panics(list, capacity, page, size)
        /\ start \in Nat /\ cut \in Seq(S)
        /\ \A k \in Nat \ {0} : k <= n <=> k <= size /\ start + k <= Len(list)
        /\ \A k \in 1 .. n : cut[k] = list[start + k]
        /\ HasNext(list, page, size) <=> Len(list) > page * size
    BY PageCut
  <1>3. n \in Nat
    BY <1>2
  <1>4. page * size = start + size
    BY <1>1, StartOfPage
  <1>5. \A i \in 1 .. Len(list) :
          /\ PageNumber(i, size) = page <=> start < i /\ i <= start + size
          /\ PageNumber(i, size) > page <=> i > start + size
          /\ PageNumber(i, size) = page => (i - 1) % size = i - 1 - start
    <2> SUFFICES ASSUME NEW i \in 1 .. Len(list)
                 PROVE  /\ PageNumber(i, size) = page <=> start < i /\ i <= start + size
                        /\ PageNumber(i, size) > page <=> i > start + size
                        /\ PageNumber(i, size) = page => (i - 1) % size = i - 1 - start
      OBVIOUS
    <2>1. i \in Nat \ {0}
      BY <1>1
    <2>2. /\ PageNumber(i, size) = page <=> start < i /\ i <= page * size
          /\ PageNumber(i, size) > page <=> i > page * size
          /\ PageNumber(i, size) = page => (i - 1) % size = i - 1 - start
      BY <1>1, <2>1, PagePositions
    <2> HIDE DEF start
    <2> QED
      BY <1>4, <2>2, Zenon
  <1> HIDE DEF start, cut
  <1>6. ASSUME NEW i \in 1 .. Len(list), PageNumber(i, size) = page
        PROVE  cut[((i - 1) % size) + 1] = list[i]
    <2>1. PICK k \in Nat \ {0} : k = i - start
      BY <1>1, <1>2, <1>5, <1>6
    <2>2. k <= size /\ start + k = i /\ start + k <= Len(list)
      BY <1>1, <1>2, <1>5, <1>6, <2>1
    <2>3. k \in 1 .. n
      <3>1. k <= n
        BY <1>2, <2>2
      <3> QED
        BY <1>3, <3>1
    <2>4. ((i - 1) % size) + 1 = k
      <3>1. (i - 1) % size = i - 1 - start
        BY <1>5, <1>6
      <3>2. (i - 1 - start) + 1 = k
        BY <1>1, <1>2, <2>1
      <3> QED
        BY <3>1, <3>2
    <2> QED
      BY <1>2, <2>2, <2>3, <2>4
  <1>7. n = Cardinality({i \in 1 .. Len(list) : PageNumber(i, size) = page})
    <2>1. {i \in 1 .. Len(list) : PageNumber(i, size) = page} = (start + 1) .. (start + n)
      <3>1. ASSUME NEW i \in 1 .. Len(list), PageNumber(i, size) = page
            PROVE  i \in (start + 1) .. (start + n)
        <4>1. PICK k \in Nat \ {0} : k = i - start
          BY <1>1, <1>2, <1>5, <3>1
        <4>2. k <= size /\ start + k = i /\ start + k <= Len(list)
          BY <1>1, <1>2, <1>5, <3>1, <4>1
        <4>3. k <= n
          BY <1>2, <4>2
        <4> QED
          BY <1>2, <1>3, <4>2, <4>3
      <3>2. ASSUME NEW i \in (start + 1) .. (start + n)
            PROVE  i \in 1 .. Len(list) /\ PageNumber(i, size) = page
        <4>1. PICK k \in Nat \ {0} : k = i - start
          BY <1>2, <1>3
        <4>2. k <= n /\ start + k = i
          BY <1>2, <1>3, <4>1
        <4>3. k <= size /\ i <= Len(list)
          BY <1>2, <4>2
        <4> QED
          BY <1>1, <1>2, <1>5, <4>2, <4>3
      <3> QED
        BY <3>1, <3>2
    <2> DEFINE a == start + 1
               b == start + n
    <2>2. a \in Int /\ b \in Int /\ (IF a > b THEN 0 ELSE b - a + 1) = n
      BY <1>2, <1>3
    <2>3. Cardinality(a .. b) = IF a > b THEN 0 ELSE b - a + 1
      <3> HIDE DEF a, b
      <3> QED
        BY <2>2, FS_Interval
    <2> QED
      BY <2>1, <2>2, <2>3
  <1>8. HasNext(list, page, size) <=> \E i \in 1 .. Len(list) : PageNumber(i, size) > page
    <2>1. ASSUME Len(list) > start + size
          PROVE  \E i \in 1 .. Len(list) : PageNumber(i, size) > page
      <3>1. Len(list) \in 1 .. Len(list)
        BY <1>1, <1>2, <2>1
      <3> QED
        BY <1>5, <2>1, <3>1
    <2>2. ASSUME NEW i \in 1 .. Len(list), PageNumber(i, size) > page
          PROVE  Len(list) > start + size
      BY <1>1, <1>2, <1>5, <2>2
    <2> QED
      BY <1>2, <1>4, <2>1, <2>2
  <1> QED
    BY <1>2, <1>6, <1>7, <1>8 DEF RightlyCut, cut

\* Any page that is no panic consists of streams and zero rows.
LEMMA PageType ==
    ASSUME NEW S, NEW list \in Seq(S), NEW page \in 1 .. MaxInt, NEW size \in 1 .. MaxInt,
           ~ (StartIndex(page, size) < 0)
    PROVE  PageOf(list, page, size) \in Seq(S \cup {0})
  <1> DEFINE start == StartIndex(page, size)
             k == Wrap(EndIndex(page, size) - start)
             rest == Rest(list, page, size)
  <1>1. \A n \in Int : Wrap(n) \in Int
    <2>1. \A n \in Int : (n + MaxInt + 1) % (2 * MaxInt + 2) \in Int
      <3>1. \A n \in Int : n % (2 * MaxInt + 2) \in Int
        BY IntBounds, DivMod
      <3> QED
        BY <3>1, IntBounds
    <2> QED
      BY <2>1, IntBounds DEF Wrap
  <1>2. start \in Int /\ k \in Int
    <2>1. (page - 1) * size \in Int
      BY IntBounds, StartOfPage
    <2>2. start \in Int
      BY <1>1, <2>1 DEF StartIndex
    <2>3. EndIndex(page, size) \in Int
      BY <1>1, <2>2, IntBounds DEF EndIndex
    <2> QED
      BY <1>1, <2>2, <2>3
  <1>3. rest \in Seq(S)
    <2> HIDE DEF start
    <2>1. start \in Nat
      BY <1>2 DEF start
    <2>2. start < Len(list) => SubSeq(list, start + 1, Len(list)) \in Seq(S)
      BY <2>1
    <2> QED
      BY <2>2 DEF Rest, start
  <1>4. [i \in 1 .. k |-> IF i <= Len(rest) THEN rest[i] ELSE 0] \in Seq(S \cup {0})
    <2> HIDE DEF k, rest
    <2> DEFINE n == IF k < 0 THEN 0 ELSE k
    <2>1. n \in Nat /\ 1 .. k = 1 .. n
      BY <1>2
    <2> HIDE DEF n
    <2>2. \A i \in 1 .. n : (IF i <= Len(rest) THEN rest[i] ELSE 0) \in S \cup {0}
      BY <1>3, <2>1
    <2>3. [i \in 1 .. n |-> IF i <= Len(rest) THEN rest[i] ELSE 0] \in [1 .. n -> S \cup {0}]
      BY <2>2
    <2>4. [i \in 1 .. n |-> IF i <= Len(rest) THEN rest[i] ELSE 0] \in Seq(S \cup {0})
      BY <2>1, <2>3
    <2> QED
      BY <2>1, <2>4
  <1>5. rest \in Seq(S \cup {0})
    BY <1>3
  <1> QED
    BY <1>4, <1>5 DEF PageOf

-----------------------------------------------------------------------------
(* Types, and what a request sees of the bucket.                            *)

Request == [filter : Filter, page : 1 .. MaxInt, walk : BOOLEAN]

RowsInv ==
    /\ rows \in Bucket
    /\ grower \in {NoStore} \cup (Streams \X Row)
    /\ cursors \subseteq Clients
    /\ backups \subseteq Backups
    /\ snap \in [Clients -> Bucket]
    /\ first \in [Clients -> Bucket]
    /\ \A c \in Clients : DOMAIN snap[c] \subseteq DOMAIN rows

\* What makes the pages of a walk ints: a client walks on only where the last position
\* of its page was one, for a page beyond an int is a panic.
RequestInv ==
    /\ ask \in [Clients -> {"idle", "opening", "reading", "done", "rejected", "error", "panic"}]
    /\ query \in [Clients -> Request \cup {NoQuery}]
    /\ got \in [Clients -> Seq(Streams \cup {0})]
    /\ \A c \in Clients : ask[c] \in {"opening", "reading", "done"} => query[c] \in Request
    /\ \A c \in Clients :
         ask[c] \in {"opening", "reading"} /\ query[c].walk =>
             (query[c].page - 1) * query[c].filter.pageSize <= MaxInt

LEMMA StoredType ==
    ASSUME NEW bucket \in Bucket, NEW s \in Streams, NEW r \in Row
    PROVE  Stored(bucket, s, r) \in Bucket /\ DOMAIN Stored(bucket, s, r) = DOMAIN bucket \cup {s}
  <1>1. DOMAIN bucket \subseteq Streams /\ \A t \in DOMAIN bucket : bucket[t] \in Row
    BY BucketType
  <1>2. Stored(bucket, s, r) \in [DOMAIN bucket \cup {s} -> Row]
    BY <1>1 DEF Stored
  <1>3. DOMAIN bucket \cup {s} \in SUBSET Streams
    BY <1>1
  <1> QED
    BY <1>2, <1>3 DEF Bucket

\* The row of a Store is one.
LEMMA StoredRow ==
    ASSUME rows \in Bucket, NEW s \in Streams, NEW r \in NewRows(s) \cup EndedRows(s)
    PROVE  r \in Row
  <1>1. CASE r \in NewRows(s)
    BY <1>1 DEF NewRows
  <1>2. CASE r \in EndedRows(s)
    <2>1. rows[s] \in Row /\ r = [rows[s] EXCEPT !.status = "finished"]
      BY <1>2, BucketType DEF EndedRows
    <2> QED
      BY <2>1 DEF Row
  <1> QED
    BY <1>1, <1>2

LEMMA StoreKeepsBucket ==
    ASSUME rows \in Bucket, NEW s \in Streams, NEW r \in Row, rows' = Stored(rows, s, r)
    PROVE  rows' \in Bucket /\ DOMAIN rows \subseteq DOMAIN rows'
  <1>1. Stored(rows, s, r) \in Bucket /\ DOMAIN Stored(rows, s, r) = DOMAIN rows \cup {s}
    BY StoredType
  <1> QED
    BY <1>1

LEMMA RowsInit == Init => RowsInv
  <1>1. NoRows \in Bucket
    BY DEF NoRows, Bucket
  <1> QED
    BY <1>1 DEF Init, RowsInv, NoRows

LEMMA RowsNext == RowsInv /\ [Next]_vars => RowsInv'
  <1> SUFFICES ASSUME RowsInv, [Next]_vars PROVE RowsInv'
    OBVIOUS
  <1> USE DEF RowsInv
  <1>1. ASSUME NEW s \in Streams, NEW r \in NewRows(s) \cup EndedRows(s), Store(s, r)
        PROVE  RowsInv'
    <2>1. r \in Row
      BY StoredRow
    <2>2. rows' \in Bucket /\ DOMAIN rows \subseteq DOMAIN rows'
      BY <1>1, <2>1, StoreKeepsBucket DEF Store
    <2> QED
      BY <1>1, <2>2 DEF Store, clientVars
  <1>2. ASSUME NEW s \in Streams, NEW r \in NewRows(s) \cup EndedRows(s), StoreGrows(s, r)
        PROVE  RowsInv'
    BY <1>2, StoredRow DEF StoreGrows, clientVars
  <1>3. ASSUME Grown PROVE RowsInv'
    <2>1. grower[1] \in Streams /\ grower[2] \in Row
      BY <1>3 DEF Grown
    <2>2. rows' \in Bucket /\ DOMAIN rows \subseteq DOMAIN rows'
      BY <1>3, <2>1, StoreKeepsBucket DEF Grown
    <2> QED
      BY <1>3, <2>2 DEF Grown, clientVars
  <1>4. ASSUME NEW c \in Clients, NEW q \in Queries, Ask(c, q) PROVE RowsInv'
    BY <1>4 DEF Ask
  <1>5. ASSUME NEW c \in Clients, OpenCursor(c) PROVE RowsInv'
    BY <1>5 DEF OpenCursor
  <1>6. ASSUME NEW c \in Clients, ReadPage(c) PROVE RowsInv'
    BY <1>6 DEF ReadPage
  <1>7. ASSUME NEW b \in Backups, BackupBegins(b) \/ BackupEnds(b) PROVE RowsInv'
    BY <1>7 DEF BackupBegins, BackupEnds
  <1>8. ASSUME UNCHANGED vars PROVE RowsInv'
    BY <1>8 DEF vars, clientVars
  <1> QED
    BY <1>1, <1>2, <1>3, <1>4, <1>5, <1>6, <1>7, <1>8 DEF Next, ListStep

\* A query that is valid is one the listing can be asked for.
LEMMA ValidRequest ==
    ASSUME NEW q \in Queries, Valid(Build(q))
    PROVE  /\ [filter |-> FilterOf(Build(q)), page |-> Build(q).page, walk |-> q.page = 0] \in Request
           /\ q.page = 0 => Build(q).page = 1
  <1>1. q \in [sortBy : Fields \cup {"", Bad}, sortOrder : Orders \cup {"", Bad},
               modes : SUBSET (Modes \cup {Bad}), statuses : SUBSET (Statuses \cup {Bad}),
               pageSize : -MaxInt .. MaxInt, page : -MaxInt .. MaxInt]
    BY StreamListAssumption
  <1>2. /\ Build(q).pageSize \in {q.pageSize, DefaultPageSize}
        /\ Build(q).page = IF q.page = 0 THEN 1 ELSE q.page
    BY <1>1 DEF Build
  <1>3. Build(q).pageSize \in 1 .. MaxInt /\ Build(q).page \in 1 .. MaxInt
    <2>1. Build(q).pageSize >= 1 /\ Build(q).page >= 1
      BY DEF Valid
    <2>2. q.pageSize \in -MaxInt .. MaxInt /\ q.page \in -MaxInt .. MaxInt
      BY <1>1
    <2> QED
      BY <1>2, <2>1, <2>2, IntBounds
  <1>4. FilterOf(Build(q)) \in Filter
    BY <1>3 DEF FilterOf, Filter, Valid
  <1> QED
    BY <1>2, <1>3, <1>4 DEF Request

LEMMA RequestInit == Init => RequestInv
  BY DEF Init, RequestInv

\* The list a request reads is no longer than the bucket, though it is a list of the rows
\* the cursor has seen: rows are never deleted.
LEMMA ListRead ==
    ASSUME RowsInv, RequestInv, NEW c \in Clients, ask[c] \in {"opening", "reading", "done"}
    PROVE  LET f == query[c].filter
               list == Listing(snap[c], f)
               capacity == Cardinality(DOMAIN rows) IN
           /\ f \in Filter /\ f.pageSize \in 1 .. MaxInt /\ query[c].page \in 1 .. MaxInt
           /\ snap[c] \in Bucket /\ first[c] \in Bucket
           /\ list \in Seq(Streams)
           /\ capacity \in 0 .. MaxInt /\ Len(list) <= capacity
  <1> DEFINE f == query[c].filter
             list == Listing(snap[c], f)
  <1>1. /\ f \in Filter /\ query[c].page \in 1 .. MaxInt
        /\ snap[c] \in Bucket /\ first[c] \in Bucket /\ rows \in Bucket
    BY DEF RowsInv, RequestInv, Request
  <1>2. f.pageSize \in 1 .. MaxInt
    BY <1>1 DEF Filter
  <1> HIDE DEF f
  <1>3. /\ list \in Seq(Fitting(snap[c], f)) /\ Len(list) = Cardinality(Fitting(snap[c], f))
    BY <1>1, ListingPlaces
  <1>4. Fitting(snap[c], f) \subseteq DOMAIN snap[c] /\ DOMAIN snap[c] \subseteq Streams
    BY <1>1, FittingType, BucketType
  <1>5. list \in Seq(Streams)
    BY <1>3, <1>4
  <1>6. DOMAIN snap[c] \in SUBSET DOMAIN rows /\ IsFiniteSet(DOMAIN rows)
    BY <1>1, BucketType DEF RowsInv
  <1>7. /\ Cardinality(DOMAIN rows) \in 0 .. MaxInt /\ Cardinality(DOMAIN snap[c]) \in 0 .. MaxInt
        /\ Cardinality(DOMAIN snap[c]) <= Cardinality(DOMAIN rows)
    BY <1>1, <1>6, BucketType, FS_Subset
  <1>8. Len(list) <= Cardinality(DOMAIN rows)
    <2>1. /\ Cardinality(Fitting(snap[c], f)) \in Nat
          /\ Cardinality(Fitting(snap[c], f)) <= Cardinality(DOMAIN snap[c])
      BY <1>1, FittingType
    <2> QED
      BY <1>3, <1>7, <2>1, IntBounds
  <1> QED
    BY <1>1, <1>2, <1>5, <1>7, <1>8 DEF f

\* A page of a walk that is answered ends within an int; where another one follows, its
\* number and its start are ints too.
LEMMA PageAnswered ==
    ASSUME RowsInv, RequestInv, NEW c \in Clients, ask[c] = "reading", query[c].walk
    PROVE  LET f == query[c].filter
               page == query[c].page
               list == Listing(snap[c], f) IN
           ~ Panics(list, Cardinality(DOMAIN rows), page, f.pageSize) =>
               /\ page * f.pageSize <= MaxInt
               /\ HasNext(list, page, f.pageSize) => page + 1 \in 1 .. MaxInt
  <1> DEFINE f == query[c].filter
             size == f.pageSize
             page == query[c].page
             list == Listing(snap[c], f)
             capacity == Cardinality(DOMAIN rows)
  <1>1. /\ size \in 1 .. MaxInt /\ page \in 1 .. MaxInt
        /\ list \in Seq(Streams) /\ capacity \in 0 .. MaxInt /\ Len(list) <= capacity
    BY ListRead
  <1>2. (page - 1) * size <= MaxInt
    BY DEF RequestInv
  <1> HIDE DEF list, capacity, page, size
  <1>3. ASSUME ~ Panics(list, capacity, page, size) PROVE page * size <= MaxInt
    <2>1. page \in Nat \ {0} /\ size \in Nat \ {0} /\ MaxInt \in Nat
      BY <1>1, IntBounds
    <2>2. page * size \in Nat
      BY <2>1, StartOfPage
    <2>3. page * size > MaxInt => Panics(list, capacity, page, size)
      BY <1>1, <1>2, PageBeyondInt
    <2> QED
      BY <1>3, <2>1, <2>2, <2>3
  <1>4. ASSUME ~ Panics(list, capacity, page, size), HasNext(list, page, size)
        PROVE  page + 1 \in 1 .. MaxInt
    <2>1. page * size <= MaxInt
      BY <1>3, <1>4
    <2>2. Len(list) > page * size
      BY <1>1, <1>4, <2>1, PageCut
    <2>3. page <= page * size /\ page * size \in Nat
      BY <1>1, IntBounds
    <2> QED
      BY <1>1, <2>2, <2>3, IntBounds
  <1> QED
    BY <1>3, <1>4 DEF list, capacity, page, size

\* What ReadPage does to a request and to what its client has got.
LEMMA PageRead ==
    ASSUME NEW c \in Clients, ReadPage(c)
    PROVE  LET f == query[c].filter
               page == query[c].page
               list == Listing(snap[c], f) IN
           /\ ask[c] = "reading" /\ UNCHANGED <<rows, grower, cursors, snap, first, backups>>
           /\ \/ \E a \in {"panic", "error"} :
                    ask' = [ask EXCEPT ![c] = a] /\ UNCHANGED <<query, got>>
              \/ /\ ~ Panics(list, Cardinality(DOMAIN rows), page, f.pageSize)
                 /\ got' = [got EXCEPT ![c] = @ \o PageOf(list, page, f.pageSize)]
                 /\ \/ /\ query[c].walk /\ HasNext(list, page, f.pageSize)
                       /\ ask' = [ask EXCEPT ![c] = "opening"]
                       /\ query' = [query EXCEPT ![c].page = @ + 1]
                    \/ /\ ~ (query[c].walk /\ HasNext(list, page, f.pageSize))
                       /\ ask' = [ask EXCEPT ![c] = "done"]
                       /\ UNCHANGED query
  BY DEF ReadPage, Answers

LEMMA RequestNext == RowsInv /\ RequestInv /\ [Next]_vars => RequestInv'
  <1> SUFFICES ASSUME RowsInv, RequestInv, [Next]_vars PROVE RequestInv'
    OBVIOUS
  <1>1. ASSUME NEW c \in Clients, NEW q \in Queries, Ask(c, q) PROVE RequestInv'
    <2>1. CASE /\ Valid(Build(q))
               /\ ask' = [ask EXCEPT ![c] = "opening"]
               /\ query' = [query EXCEPT ![c] = [filter |-> FilterOf(Build(q)), page |-> Build(q).page,
                                                 walk |-> q.page = 0]]
      <3> DEFINE r == [filter |-> FilterOf(Build(q)), page |-> Build(q).page, walk |-> q.page = 0]
      <3>1. r \in Request /\ (r.walk => r.page = 1)
        BY <2>1, ValidRequest
      <3>2. r.walk => (r.page - 1) * r.filter.pageSize <= MaxInt
        <4>1. r.filter.pageSize \in Nat
          BY <3>1, IntBounds DEF Request, Filter
        <4> HIDE DEF r
        <4>2. 0 * r.filter.pageSize = 0
          BY <4>1
        <4> QED
          BY <3>1, <4>2, IntBounds
      <3>3. query' = [query EXCEPT ![c] = r] /\ got' = got
        BY <1>1, <2>1 DEF Ask
      <3> HIDE DEF r
      <3> QED
        BY <2>1, <3>1, <3>2, <3>3 DEF RequestInv
    <2>2. CASE ask' = [ask EXCEPT ![c] = "rejected"] /\ UNCHANGED query
      BY <1>1, <2>2 DEF Ask, RequestInv
    <2> QED
      BY <1>1, <2>1, <2>2 DEF Ask
  <1>2. ASSUME NEW c \in Clients, OpenCursor(c) PROVE RequestInv'
    BY <1>2 DEF OpenCursor, RequestInv
  <1>3. ASSUME NEW c \in Clients, ReadPage(c) PROVE RequestInv'
    <2> DEFINE f == query[c].filter
               page == query[c].page
               list == Listing(snap[c], f)
               capacity == Cardinality(DOMAIN rows)
    <2>1. ask[c] = "reading" /\ query[c] \in Request
      BY <1>3, PageRead DEF RequestInv
    <2>2. CASE \E a \in {"panic", "error"} :
                 ask' = [ask EXCEPT ![c] = a] /\ UNCHANGED <<query, got>>
      BY <2>2 DEF RequestInv
    <2>3. ASSUME ~ Panics(list, capacity, page, f.pageSize),
                 got' = [got EXCEPT ![c] = @ \o PageOf(list, page, f.pageSize)]
          PROVE  got' \in [Clients -> Seq(Streams \cup {0})]
      <3>1. /\ f.pageSize \in 1 .. MaxInt /\ page \in 1 .. MaxInt /\ list \in Seq(Streams)
        BY <2>1, ListRead
      <3>2. ~ (StartIndex(page, f.pageSize) < 0)
        BY <2>3 DEF Panics
      <3>3. PageOf(list, page, f.pageSize) \in Seq(Streams \cup {0})
        BY <3>1, <3>2, PageType
      <3>4. got \in [Clients -> Seq(Streams \cup {0})]
        BY DEF RequestInv
      <3> HIDE DEF list, page, f
      <3>5. got[c] \o PageOf(list, page, f.pageSize) \in Seq(Streams \cup {0})
        BY <3>3, <3>4
      <3> QED
        BY <2>3, <3>4, <3>5
    <2>4. CASE /\ ~ Panics(list, capacity, page, f.pageSize)
               /\ got' = [got EXCEPT ![c] = @ \o PageOf(list, page, f.pageSize)]
               /\ query[c].walk /\ HasNext(list, page, f.pageSize)
               /\ ask' = [ask EXCEPT ![c] = "opening"]
               /\ query' = [query EXCEPT ![c].page = @ + 1]
      <3>1. page + 1 \in 1 .. MaxInt /\ page * f.pageSize <= MaxInt
        BY <2>1, <2>4, PageAnswered
      <3>2. query'[c] = [query[c] EXCEPT !.page = page + 1]
        BY <2>4 DEF RequestInv
      <3>3. query'[c] \in Request /\ query'[c].page - 1 = page /\ query'[c].filter = f
        BY <2>1, <3>1, <3>2 DEF Request
      <3>4. \A d \in Clients \ {c} : query'[d] = query[d] /\ ask'[d] = ask[d]
        BY <2>4 DEF RequestInv
      <3>5. /\ ask' \in [Clients -> {"idle", "opening", "reading", "done", "rejected", "error", "panic"}]
            /\ query' \in [Clients -> Request \cup {NoQuery}]
        BY <2>4, <3>3, <3>4 DEF RequestInv
      <3> HIDE DEF f, page, list, capacity
      <3> QED
        BY <2>3, <2>4, <3>1, <3>3, <3>4, <3>5 DEF RequestInv
    <2>5. CASE /\ ~ Panics(list, capacity, page, f.pageSize)
               /\ got' = [got EXCEPT ![c] = @ \o PageOf(list, page, f.pageSize)]
               /\ ask' = [ask EXCEPT ![c] = "done"]
               /\ UNCHANGED query
      <3>1. got' \in [Clients -> Seq(Streams \cup {0})]
        BY <2>3, <2>5
      <3> QED
        BY <2>1, <2>5, <3>1 DEF RequestInv
    <2> QED
      BY <1>3, <2>2, <2>4, <2>5, PageRead
  <1>4. ASSUME \/ \E s \in Streams : \E r \in NewRows(s) \cup EndedRows(s) :
                     Store(s, r) \/ StoreGrows(s, r)
               \/ Grown
               \/ \E b \in Backups : BackupBegins(b) \/ BackupEnds(b)
               \/ UNCHANGED vars
        PROVE  UNCHANGED <<ask, query, got>>
    BY <1>4 DEF Store, StoreGrows, Grown, BackupBegins, BackupEnds, vars, clientVars
  <1>5. UNCHANGED <<ask, query, got>> => RequestInv'
    BY DEF RequestInv
  <1> QED
    BY <1>1, <1>2, <1>3, <1>4, <1>5 DEF Next, ListStep

\* Every variable of StreamList keeps its type; of a walk, so do the numbers of the
\* pages the client goes on with.
THEOREM TypeCorrect == Spec => []TypeOK
  <1>1. RowsInv /\ RequestInv => TypeOK
    BY DEF RowsInv, RequestInv, Request, TypeOK
  <1> QED
    BY RowsInit, RowsNext, RequestInit, RequestNext, <1>1, PTL DEF Spec

\* Whatever the bucket holds and whatever is stored between the cursor and the count, a
\* page whose last position is an int is cut without a panic, holds the streams at its
\* positions, and announces another page exactly when there is one.
THEOREM PageCorrect == Spec => []PageIsRight
  <1>1. ASSUME RowsInv, RequestInv, NEW c \in Clients, ask[c] = "reading",
               query[c].page * query[c].filter.pageSize <= MaxInt
        PROVE  RightlyCut(Listing(snap[c], query[c].filter), Cardinality(DOMAIN rows),
                          query[c].page, query[c].filter.pageSize)
    BY <1>1, ListRead, PageIsCut
  <1>2. RowsInv /\ RequestInv => PageIsRight
    BY <1>1 DEF PageIsRight
  <1> QED
    BY RowsInit, RowsNext, RequestInit, RequestNext, <1>2, PTL DEF Spec

-----------------------------------------------------------------------------
(* Walks.                                                                   *)

\* What may have become of a bucket: streams are added, and some have ended.
Grew(old, new) ==
    /\ DOMAIN old \subseteq DOMAIN new
    /\ \A s \in DOMAIN old :
         \/ new[s] = old[s]
         \/ old[s].status = "running" /\ new[s] = [old[s] EXCEPT !.status = "finished"]

\* The bucket only grows, from the first cursor of a walk to its last one and on, and a
\* Store that waits still fits the bucket it was made for.
WaitingStore == grower # NoStore => grower[2] \in NewRows(grower[1]) \cup EndedRows(grower[1])

GrowthInv ==
    /\ WaitingStore
    /\ \A c \in Clients : Grew(first[c], snap[c]) /\ Grew(snap[c], rows)

Walking(c) == ask[c] \in {"opening", "reading"} /\ query[c].walk
Shown(c) == (query[c].page - 1) * query[c].filter.pageSize

\* The pages a walk has been shown are full, and as long as the bucket has not changed
\* they are the beginning of the listing.
ExactInv(c) ==
    LET list == Listing(snap[c], query[c].filter) IN
    snap[c] = first[c] =>
        /\ Walking(c) => Len(got[c]) <= Len(list)
        /\ Walked(c) => Len(got[c]) = Len(list)
        /\ \A i \in DOMAIN got[c] : got[c][i] = list[i]

\* A stream of the first listing that has not been shown stands at a later place.
NobodyPassed(c) ==
    \A s \in Fitting(first[c], query[c].filter) :
        \/ s \in ToSet(got[c])
        \/ Walking(c) /\ Cardinality(Ahead(snap[c], query[c].filter, s)) >= Shown(c)

\* A stream that has been shown stands where it was shown, or behind that place because a
\* new stream is ahead of it.
OnlyPushed(c) ==
    LET f == query[c].filter IN
    \A i \in DOMAIN got[c] :
        /\ got[c][i] \in Fitting(snap[c], f)
        /\ \/ Cardinality(Ahead(snap[c], f, got[c][i])) = i - 1
           \/ /\ Cardinality(Ahead(snap[c], f, got[c][i])) >= i
              /\ \E t \in Fitting(snap[c], f) \ DOMAIN first[c] : Before(snap[c], f, t, got[c][i])

\* The streams have places that they only lose to new ones.
Placed(c) == Stable(query[c].filter) /\ Settled(snap[c], query[c].filter)

ClientInv(c) ==
    /\ ask[c] = "idle" => got[c] = <<>>
    /\ Walking(c) => Len(got[c]) = Shown(c)
    /\ Walking(c) \/ Walked(c) => ExactInv(c)
    /\ (Walking(c) \/ Walked(c)) /\ Placed(c) => NobodyPassed(c) /\ OnlyPushed(c)

WalkInv == \A c \in Clients : ClientInv(c)

LEMMA GrewTransitive ==
    ASSUME NEW a \in Bucket, NEW b \in Bucket, NEW d \in Bucket, Grew(a, b), Grew(b, d)
    PROVE  Grew(a, d)
  <1>1. DOMAIN a \subseteq DOMAIN d
    BY DEF Grew
  <1>2. ASSUME NEW s \in DOMAIN a
        PROVE  \/ d[s] = a[s]
               \/ a[s].status = "running" /\ d[s] = [a[s] EXCEPT !.status = "finished"]
    <2>1. a[s] \in Row /\ s \in DOMAIN b
      BY BucketType DEF Grew
    <2>2. [a[s] EXCEPT !.status = "finished"].status = "finished"
      BY <2>1 DEF Row
    <2>3. /\ b[s] = a[s] \/ (a[s].status = "running" /\ b[s] = [a[s] EXCEPT !.status = "finished"])
          /\ d[s] = b[s] \/ (b[s].status = "running" /\ d[s] = [b[s] EXCEPT !.status = "finished"])
      BY <2>1 DEF Grew
    <2> QED
      BY <2>2, <2>3
  <1> QED
    BY <1>1, <1>2 DEF Grew

\* What has changed does not change back.
LEMMA GrewAntisymmetric ==
    ASSUME NEW a \in Bucket, NEW b \in Bucket, Grew(a, b), Grew(b, a)
    PROVE  a = b
  <1>1. DOMAIN a = DOMAIN b
    BY DEF Grew
  <1>2. ASSUME NEW s \in DOMAIN a PROVE a[s] = b[s]
    <2>1. a[s] \in Row /\ b[s] \in Row
      BY <1>1, BucketType
    <2>2. /\ [a[s] EXCEPT !.status = "finished"].status = "finished"
          /\ [b[s] EXCEPT !.status = "finished"].status = "finished"
      BY <2>1 DEF Row
    <2>3. /\ b[s] = a[s] \/ (a[s].status = "running" /\ b[s] = [a[s] EXCEPT !.status = "finished"])
          /\ a[s] = b[s] \/ (b[s].status = "running" /\ a[s] = [b[s] EXCEPT !.status = "finished"])
      BY <1>1 DEF Grew
    <2> QED
      BY <2>2, <2>3
  <1>3. a = [s \in DOMAIN a |-> a[s]] /\ b = [s \in DOMAIN b |-> b[s]]
    BY DEF Bucket
  <1> QED
    BY <1>1, <1>2, <1>3

LEMMA StoreGrew ==
    ASSUME rows \in Bucket, NEW s \in Streams, NEW r \in NewRows(s) \cup EndedRows(s)
    PROVE  Grew(rows, Stored(rows, s, r))
  <1>1. CASE r \in NewRows(s)
    BY <1>1 DEF NewRows, Grew, Stored
  <1>2. CASE r \in EndedRows(s)
    BY <1>2 DEF EndedRows, Grew, Stored
  <1> QED
    BY <1>1, <1>2

LEMMA GrowthInit == Init => GrowthInv
  BY DEF Init, GrowthInv, WaitingStore, Grew, NoRows

LEMMA GrowthNext == RowsInv /\ GrowthInv /\ [Next]_vars => GrowthInv'
  <1> SUFFICES ASSUME RowsInv, GrowthInv, [Next]_vars PROVE GrowthInv'
    OBVIOUS
  <1>1. /\ rows \in Bucket /\ rows' \in Bucket
        /\ \A c \in Clients : snap[c] \in Bucket /\ first[c] \in Bucket
    BY RowsNext DEF RowsInv
  <1>2. \A b : Grew(b, b)
    BY DEF Grew
  <1>3. ASSUME Grew(rows, rows'), UNCHANGED <<snap, first>>
        PROVE  \A c \in Clients : Grew(first'[c], snap'[c]) /\ Grew(snap'[c], rows')
    BY <1>1, <1>3, GrewTransitive DEF GrowthInv
  <1>4. ASSUME NEW s \in Streams, NEW r \in NewRows(s) \cup EndedRows(s), Store(s, r)
        PROVE  GrowthInv'
    <2>1. Grew(rows, rows') /\ UNCHANGED <<snap, first>> /\ grower' = NoStore
      BY <1>1, <1>4, StoreGrew DEF Store, clientVars
    <2> QED
      BY <1>3, <2>1 DEF GrowthInv, WaitingStore
  <1>5. ASSUME NEW s \in Streams, NEW r \in NewRows(s) \cup EndedRows(s), StoreGrows(s, r)
        PROVE  GrowthInv'
    <2>1. UNCHANGED <<rows, snap, first>> /\ grower' = <<s, r>>
      BY <1>5 DEF StoreGrows, clientVars
    <2>2. WaitingStore'
      <3>1. grower'[1] = s /\ grower'[2] = r
        BY <2>1
      <3>2. grower'[2] \in (NewRows(grower[1]) \cup EndedRows(grower[1]))'
        BY <2>1, <3>1 DEF NewRows, EndedRows
      <3> QED
        BY <3>2 DEF WaitingStore
    <2> QED
      BY <1>2, <1>3, <2>1, <2>2 DEF GrowthInv
  <1>6. ASSUME Grown PROVE GrowthInv'
    <2>1. /\ grower[1] \in Streams /\ grower[2] \in NewRows(grower[1]) \cup EndedRows(grower[1])
          /\ rows' = Stored(rows, grower[1], grower[2])
      BY <1>6 DEF Grown, GrowthInv, WaitingStore, RowsInv
    <2>2. Grew(rows, rows') /\ UNCHANGED <<snap, first>> /\ grower' = NoStore
      BY <1>1, <1>6, <2>1, StoreGrew DEF Grown, clientVars
    <2> QED
      BY <1>3, <2>2 DEF GrowthInv, WaitingStore
  <1>7. ASSUME NEW c \in Clients, OpenCursor(c) PROVE GrowthInv'
    <2>1. UNCHANGED <<rows, grower>>
      BY <1>7 DEF OpenCursor
    <2>2. \A d \in Clients : \/ UNCHANGED <<first[d], snap[d]>>
                             \/ snap'[d] = rows /\ first'[d] \in {first[d], rows}
      BY <1>7 DEF OpenCursor, RowsInv
    <2>3. \A d \in Clients : Grew(first[d], snap[d]) /\ Grew(snap[d], rows)
      BY DEF GrowthInv
    <2>4. \A d \in Clients : Grew(first[d], rows)
      BY <1>1, <2>3, GrewTransitive
    <2>5. ASSUME NEW d \in Clients PROVE Grew(first'[d], snap'[d]) /\ Grew(snap'[d], rows')
      <3>1. CASE UNCHANGED <<first[d], snap[d]>>
        BY <2>1, <2>3, <3>1
      <3>2. CASE snap'[d] = rows /\ first'[d] \in {first[d], rows}
        BY <1>2, <2>1, <2>4, <3>2
      <3> QED
        BY <2>2, <3>1, <3>2
    <2>6. WaitingStore'
      BY <2>1 DEF GrowthInv, WaitingStore, NewRows, EndedRows
    <2> QED
      BY <2>5, <2>6 DEF GrowthInv
  <1>8. ASSUME \/ \E c \in Clients : ReadPage(c) \/ \E q \in Queries : Ask(c, q)
               \/ \E b \in Backups : BackupBegins(b) \/ BackupEnds(b)
               \/ UNCHANGED vars
        PROVE  GrowthInv'
    <2>1. UNCHANGED <<rows, grower, snap, first>>
      BY <1>8 DEF ReadPage, Ask, BackupBegins, BackupEnds, vars, clientVars
    <2> QED
      BY <2>1 DEF GrowthInv, WaitingStore, NewRows, EndedRows
  <1> QED
    BY <1>4, <1>5, <1>6, <1>7, <1>8 DEF Next, ListStep

-----------------------------------------------------------------------------
(* Places in a bucket that grows.                                           *)

\* Under a filter and in an order that do not look at the status, what fits goes on
\* fitting and keeps its order.
LEMMA StableOrder ==
    ASSUME NEW old \in Bucket, NEW new \in Bucket, Grew(old, new), NEW f \in Filter, Stable(f)
    PROVE  /\ \A s \in DOMAIN old : Fits(new[s], f) <=> Fits(old[s], f)
           /\ \A s, t \in DOMAIN old : Before(new, f, s, t) <=> Before(old, f, s, t)
           /\ Settled(new, f) => Settled(old, f)
  <1>1. \A s \in DOMAIN old : new[s].mode = old[s].mode /\ new[s].started = old[s].started
    <2>1. ASSUME NEW s \in DOMAIN old
          PROVE  new[s].mode = old[s].mode /\ new[s].started = old[s].started
      <3>1. old[s] \in [mode : Modes, started : Streams, status : {"running", "finished"}]
        BY BucketType DEF Row
      <3>2. new[s] = old[s] \/ new[s] = [old[s] EXCEPT !.status = "finished"]
        BY DEF Grew
      <3> QED
        BY <3>1, <3>2
    <2> QED
      BY <2>1
  <1>2. \A s \in DOMAIN old : Fits(new[s], f) <=> Fits(old[s], f)
    BY <1>1 DEF Fits, Stable
  <1>3. f.sortBy \in {"uuid", "launchMode", "started"}
    BY DEF Filter, Fields, Stable
  <1>4. \A s \in DOMAIN old : SortKey(new, f, s) = SortKey(old, f, s)
    BY <1>1, <1>3 DEF SortKey
  <1>5. Fitting(old, f) \subseteq Fitting(new, f) /\ Fitting(old, f) \subseteq DOMAIN old
    BY <1>2 DEF Fitting, Grew
  <1>6. /\ Cardinality(Fitting(old, f)) <= Cardinality(Fitting(new, f))
        /\ Cardinality(Fitting(old, f)) \in Nat /\ Cardinality(Fitting(new, f)) \in Nat
        /\ ShortSlice \in Nat
    BY <1>5, FittingType, FS_Subset, StreamListAssumption
  <1>7. Settled(new, f) => Settled(old, f)
    BY <1>4, <1>5, <1>6 DEF Settled
  <1> QED
    BY <1>2, <1>4, <1>7 DEF Before

\* A stream keeps its place unless a stream that is new is ahead of it.
LEMMA PlaceKept ==
    ASSUME NEW old \in Bucket, NEW new \in Bucket, Grew(old, new), NEW f \in Filter, Stable(f),
           NEW s \in DOMAIN old
    PROVE  /\ Cardinality(Ahead(new, f, s)) >= Cardinality(Ahead(old, f, s))
           /\ \/ Cardinality(Ahead(new, f, s)) = Cardinality(Ahead(old, f, s))
              \/ \E t \in Fitting(new, f) \ DOMAIN old : Before(new, f, t, s)
  <1>1. Ahead(old, f, s) \subseteq Ahead(new, f, s)
    BY StableOrder DEF Ahead, Fitting, Grew
  <1>2. Cardinality(Ahead(old, f, s)) <= Cardinality(Ahead(new, f, s))
    BY <1>1, AheadType, FS_Subset
  <1>3. ASSUME ~ \E t \in Fitting(new, f) \ DOMAIN old : Before(new, f, t, s)
        PROVE  Ahead(new, f, s) = Ahead(old, f, s)
    <2>1. ASSUME NEW t \in Ahead(new, f, s) PROVE t \in Ahead(old, f, s)
      <3>1. t \in Fitting(new, f) /\ Before(new, f, t, s)
        BY DEF Ahead
      <3>2. t \in DOMAIN old /\ Fits(new[t], f)
        BY <1>3, <3>1 DEF Fitting
      <3> QED
        BY <3>1, <3>2, StableOrder DEF Ahead, Fitting
    <2> QED
      BY <1>1, <2>1
  <1> QED
    BY <1>2, <1>3, AheadType

-----------------------------------------------------------------------------
(* The steps of a walk.                                                     *)

LEMMA WalkInit == Init => WalkInv
  BY DEF Init, WalkInv, ClientInv, Walking, Walked

LEMMA PushedAt ==
    ASSUME NEW c, OnlyPushed(c), NEW i \in DOMAIN got[c]
    PROVE  LET f == query[c].filter
               s == got[c][i] IN
           /\ s \in Fitting(snap[c], f)
           /\ \/ Cardinality(Ahead(snap[c], f, s)) = i - 1
              \/ /\ Cardinality(Ahead(snap[c], f, s)) >= i
                 /\ \E t \in Fitting(snap[c], f) \ DOMAIN first[c] : Before(snap[c], f, t, s)
  BY Zenon DEF OnlyPushed

LEMMA ClientKept ==
    ASSUME NEW c, ClientInv(c), UNCHANGED <<ask[c], query[c], snap[c], first[c], got[c]>>
    PROVE  ClientInv(c)'
  BY DEF ClientInv, Walking, Walked, Shown, ExactInv, Placed, NobodyPassed, OnlyPushed

\* A walk that has been shown nothing has passed nobody.
LEMMA NothingShown ==
    ASSUME NEW c, snap'[c] \in Bucket, query'[c].filter \in Filter,
           got'[c] = <<>>, Shown(c)' = 0, Walking(c)'
    PROVE  ClientInv(c)'
  <1> DEFINE f == query'[c].filter
  <1>1. Len(Listing(snap'[c], f)) \in Nat
    <2>1. Listing(snap'[c], f) \in Seq(Fitting(snap'[c], f))
      BY ListingPlaces
    <2> QED
      BY <2>1
  <1>2. \A s : Cardinality(Ahead(snap'[c], f, s)) >= 0
    BY AheadType
  <1>3. got'[c] = <<>> /\ Len(got'[c]) = 0 /\ DOMAIN got'[c] = {}
    OBVIOUS
  <1>4. ~ Walked(c)'
    BY DEF Walking, Walked
  <1>5. ExactInv(c)'
    BY <1>1, <1>3, <1>4 DEF ExactInv
  <1>6. NobodyPassed(c)'
    BY <1>2 DEF NobodyPassed
  <1>7. OnlyPushed(c)'
    BY <1>3 DEF OnlyPushed
  <1> QED
    BY <1>3, <1>5, <1>6, <1>7 DEF ClientInv

LEMMA AskKeepsWalk ==
    ASSUME RowsInv, RequestInv, WalkInv, NEW c \in Clients, NEW q \in Queries, Ask(c, q)
    PROVE  ClientInv(c)'
  <1>1. ask[c] = "idle" /\ UNCHANGED <<snap, got>>
    BY DEF Ask
  <1>2. got'[c] = <<>> /\ snap'[c] \in Bucket
    BY <1>1 DEF WalkInv, ClientInv, RowsInv
  <1>3. CASE /\ Valid(Build(q))
             /\ ask' = [ask EXCEPT ![c] = "opening"]
             /\ query' = [query EXCEPT ![c] = [filter |-> FilterOf(Build(q)), page |-> Build(q).page,
                                               walk |-> q.page = 0]]
    <2> DEFINE r == [filter |-> FilterOf(Build(q)), page |-> Build(q).page, walk |-> q.page = 0]
    <2>1. r \in Request /\ (r.walk => r.page = 1)
      BY <1>3, ValidRequest
    <2> HIDE DEF r
    <2>2. query'[c] = r /\ ask'[c] = "opening"
      BY <1>3 DEF RequestInv, r
    <2>3. r.filter \in Filter /\ r.filter.pageSize \in Nat
      BY <2>1, IntBounds DEF Request, Filter
    <2>4. CASE r.walk
      <3>1. Shown(c)' = 0
        <4>1. 0 * r.filter.pageSize = 0
          BY <2>3
        <4> QED
          BY <2>1, <2>2, <2>4, <4>1 DEF Shown
      <3>2. Walking(c)'
        BY <2>2, <2>4 DEF Walking
      <3> QED
        BY <1>2, <2>2, <2>3, <3>1, <3>2, NothingShown
    <2>5. CASE ~ r.walk
      BY <2>2, <2>5 DEF ClientInv, Walking, Walked
    <2> QED
      BY <2>4, <2>5
  <1>4. CASE ask' = [ask EXCEPT ![c] = "rejected"]
    BY <1>4 DEF ClientInv, Walking, Walked, RequestInv
  <1> QED
    BY <1>3, <1>4 DEF Ask

LEMMA OpenKeepsWalk ==
    ASSUME RowsInv, RequestInv, GrowthInv, WalkInv, NEW c \in Clients, OpenCursor(c)
    PROVE  ClientInv(c)'
  <1> DEFINE f == query[c].filter
  <1>1. /\ ask[c] = "opening" /\ query[c] \in Request /\ UNCHANGED <<query, got>>
        /\ f \in Filter /\ f.pageSize \in Nat
        /\ snap[c] \in Bucket /\ first[c] \in Bucket /\ rows \in Bucket
    BY IntBounds DEF OpenCursor, RequestInv, RowsInv, Request, Filter
  <1>2. CASE ask' = [ask EXCEPT ![c] = "error"]
    BY <1>2 DEF ClientInv, Walking, Walked, RequestInv
  <1>3. CASE ask'[c] = "reading" /\ snap'[c] = rows /\ ~ query[c].walk
    BY <1>1, <1>3 DEF ClientInv, Walking, Walked
  <1>4. CASE ask'[c] = "reading" /\ snap'[c] = rows /\ query[c].walk /\ query[c].page = 1
    <2>1. Walking(c) /\ Walking(c)'
      BY <1>1, <1>4 DEF Walking
    <2>2. Shown(c) = 0 /\ Shown(c)' = 0
      <3>1. 0 * f.pageSize = 0
        BY <1>1
      <3> QED
        BY <1>1, <1>4, <3>1 DEF Shown
    <2>3. got'[c] = <<>>
      <3>1. Len(got[c]) = 0 /\ got[c] \in Seq(Streams \cup {0})
        BY <2>1, <2>2 DEF WalkInv, ClientInv, RequestInv
      <3> QED
        BY <1>1, <3>1
    <2> QED
      BY <1>1, <1>4, <2>1, <2>2, <2>3, NothingShown
  <1>5. CASE /\ ask'[c] = "reading" /\ snap'[c] = rows /\ query[c].walk
             /\ first'[c] = first[c]
    <2>1. /\ Walking(c) /\ Walking(c)' /\ ~ Walked(c)' /\ Shown(c)' = Shown(c)
      BY <1>1, <1>5 DEF Walking, Walked, Shown
    <2>2. Grew(first[c], snap[c]) /\ Grew(snap[c], rows)
      BY DEF GrowthInv
    <2>3. ClientInv(c)
      BY DEF WalkInv
    <2>4. ExactInv(c)'
      <3>1. SUFFICES ASSUME snap'[c] = first'[c] PROVE ExactInv(c)'
        BY DEF ExactInv
      <3>2. rows = first[c]
        BY <1>5, <3>1
      <3>3. snap[c] = rows
        BY <1>1, <2>2, <3>2, GrewAntisymmetric
      <3> QED
        BY <1>1, <1>5, <2>1, <2>3, <3>3 DEF ExactInv, ClientInv
    <2>a. ASSUME Placed(c)' PROVE Stable(f) /\ Placed(c)
      <3>1. Stable(f) /\ Settled(rows, f)
        BY <1>1, <1>5, <2>a DEF Placed
      <3>2. Settled(snap[c], f)
        BY <1>1, <2>2, <3>1, StableOrder
      <3> QED
        BY <3>1, <3>2 DEF Placed
    <2>5. ASSUME Placed(c)' PROVE NobodyPassed(c)'
      <3>1. ASSUME NEW s \in Fitting(first[c], f)
            PROVE  s \in ToSet(got[c]) \/ Cardinality(Ahead(rows, f, s)) >= Shown(c)
        <4>1. s \in ToSet(got[c]) \/ Cardinality(Ahead(snap[c], f, s)) >= Shown(c)
          BY <2>1, <2>3, <2>5, <2>a DEF ClientInv, NobodyPassed
        <4>2. s \in DOMAIN snap[c]
          BY <2>2 DEF Grew, Fitting
        <4>3. Cardinality(Ahead(rows, f, s)) >= Cardinality(Ahead(snap[c], f, s))
          BY <1>1, <2>2, <2>5, <2>a, <4>2, PlaceKept
        <4>4. Shown(c) \in Int
          BY <1>1 DEF Shown, Request
        <4> QED
          BY <4>1, <4>3, <4>4, <1>1, AheadType
      <3> QED
        BY <1>1, <1>5, <2>1, <3>1 DEF NobodyPassed
    <2>6. ASSUME Placed(c)' PROVE OnlyPushed(c)'
      <3>0. OnlyPushed(c)
        BY <2>1, <2>3, <2>6, <2>a DEF ClientInv
      <3>s. Stable(f)
        BY <2>6, <2>a
      <3>1. ASSUME NEW i \in DOMAIN got[c]
            PROVE  /\ got[c][i] \in Fitting(rows, f)
                   /\ \/ Cardinality(Ahead(rows, f, got[c][i])) = i - 1
                      \/ /\ Cardinality(Ahead(rows, f, got[c][i])) >= i
                         /\ \E t \in Fitting(rows, f) \ DOMAIN first[c] : Before(rows, f, t, got[c][i])
        <4> DEFINE s == got[c][i]
        <4>1. /\ s \in Fitting(snap[c], f)
              /\ \/ Cardinality(Ahead(snap[c], f, s)) = i - 1
                 \/ /\ Cardinality(Ahead(snap[c], f, s)) >= i
                    /\ \E t \in Fitting(snap[c], f) \ DOMAIN first[c] : Before(snap[c], f, t, s)
          BY <3>0, PushedAt
        <4>2. s \in DOMAIN snap[c]
          BY <4>1 DEF Fitting
        <4>3. \A t \in Fitting(snap[c], f) : t \in Fitting(rows, f)
          <5>1. /\ DOMAIN snap[c] \subseteq DOMAIN rows
                /\ \A t \in DOMAIN snap[c] : Fits(rows[t], f) <=> Fits(snap[c][t], f)
            BY <1>1, <2>2, <3>s, StableOrder DEF Grew
          <5> QED
            BY <5>1 DEF Fitting
        <4>4. i \in Nat
          BY DEF RequestInv
        <4> HIDE DEF s
        <4>5. /\ Cardinality(Ahead(rows, f, s)) >= Cardinality(Ahead(snap[c], f, s))
              /\ \/ Cardinality(Ahead(rows, f, s)) = Cardinality(Ahead(snap[c], f, s))
                 \/ \E t \in Fitting(rows, f) \ DOMAIN snap[c] : Before(rows, f, t, s)
          BY <1>1, <2>2, <3>s, <4>2, PlaceKept
        <4>6. /\ Cardinality(Ahead(rows, f, s)) \in Nat
              /\ Cardinality(Ahead(snap[c], f, s)) \in Nat
          BY <1>1, AheadType
        <4>7. DOMAIN first[c] \subseteq DOMAIN snap[c]
          BY <2>2 DEF Grew
        <4>8. CASE Cardinality(Ahead(snap[c], f, s)) = i - 1
          BY <4>1, <4>3, <4>4, <4>5, <4>6, <4>7, <4>8 DEF s
        <4>9. CASE /\ Cardinality(Ahead(snap[c], f, s)) >= i
                   /\ \E t \in Fitting(snap[c], f) \ DOMAIN first[c] : Before(snap[c], f, t, s)
          <5>1. PICK t \in Fitting(snap[c], f) \ DOMAIN first[c] : Before(snap[c], f, t, s)
            BY <4>9
          <5>2. Before(rows, f, t, s)
            BY <1>1, <2>2, <3>s, <4>2, <5>1, StableOrder DEF Fitting
          <5> QED
            BY <4>1, <4>3, <4>4, <4>5, <4>6, <4>9, <5>1, <5>2 DEF s
        <4> QED
          BY <4>1, <4>8, <4>9
      <3> QED
        BY <1>1, <1>5, <3>1 DEF OnlyPushed
    <2>7. ask'[c] # "idle" /\ Len(got'[c]) = Shown(c)'
      BY <1>1, <1>5, <2>1, <2>3 DEF ClientInv
    <2> QED
      BY <1>1, <2>4, <2>5, <2>6, <2>7 DEF ClientInv
  <1> QED
    <2>1. CASE ask' = [ask EXCEPT ![c] = "reading"]
      <3>1. ask'[c] = "reading" /\ snap'[c] = rows /\ (query[c].page # 1 => first'[c] = first[c])
        BY <2>1 DEF OpenCursor, RequestInv, RowsInv
      <3> QED
        BY <1>3, <1>4, <1>5, <3>1
    <2> QED
      BY <1>2, <2>1 DEF OpenCursor

LEMMA Concatenated ==
    ASSUME NEW T, NEW a \in Seq(T), NEW b \in Seq(T)
    PROVE  /\ Len(a \o b) = Len(a) + Len(b) /\ DOMAIN (a \o b) = 1 .. (Len(a) + Len(b))
           /\ \A i \in 1 .. Len(a) : (a \o b)[i] = a[i]
           /\ \A i \in 1 .. (Len(a) + Len(b)) : i > Len(a) => (a \o b)[i] = b[i - Len(a)]
  OBVIOUS

\* The positions an answered page adds to what a walk has been shown hold the streams at
\* these places of the listing.
Adds(list, page, size, shown, more) ==
    LET n == Len(shown) IN
    /\ n \in Nat /\ Len(more) \in Nat /\ DOMAIN more = 1 .. Len(more) /\ n <= Len(more)
    /\ page * size = n + size
    /\ \A i \in 1 .. n : more[i] = shown[i]
    /\ \A i \in 1 .. Len(more) : i > n => i <= Len(list) /\ more[i] = list[i]
    /\ \A i \in 1 .. Len(list) : i > n /\ i <= n + size => i \in 1 .. Len(more)
    /\ HasNext(list, page, size) => Len(more) = n + size /\ n + size < Len(list)
    /\ ~ HasNext(list, page, size) => Len(list) <= n + size
    /\ ~ HasNext(list, page, size) /\ n <= Len(list) => Len(more) = Len(list)

LEMMA PageAdds ==
    ASSUME NEW S, NEW list \in Seq(S), NEW capacity \in 0 .. MaxInt, Len(list) <= capacity,
           NEW page \in 1 .. MaxInt, NEW size \in 1 .. MaxInt, page * size <= MaxInt,
           NEW T, NEW shown \in Seq(T), Len(shown) = (page - 1) * size
    PROVE  Adds(list, page, size, shown, shown \o PageOf(list, page, size))
  <1> DEFINE cut == PageOf(list, page, size)
             n == Len(shown)
             more == shown \o cut
  <1>1. page \in Nat \ {0} /\ size \in Nat \ {0} /\ Len(list) \in Nat /\ n \in Nat
    BY IntBounds
  <1>2. /\ cut \in Seq(S)
        /\ \A k \in Nat \ {0} : k <= Len(cut) <=> k <= size /\ n + k <= Len(list)
        /\ \A k \in 1 .. Len(cut) : cut[k] = list[n + k]
        /\ HasNext(list, page, size) <=> Len(list) > page * size
    <2> DEFINE start == (page - 1) * size
    <2>1. /\ cut \in Seq(S)
          /\ \A k \in Nat \ {0} : k <= Len(cut) <=> k <= size /\ start + k <= Len(list)
          /\ \A k \in 1 .. Len(cut) : cut[k] = list[start + k]
          /\ HasNext(list, page, size) <=> Len(list) > page * size
      BY PageCut
    <2> HIDE DEF cut
    <2> QED
      BY <2>1
  <1>3. page * size = n + size
    BY <1>1, StartOfPage
  <1> HIDE DEF cut
  <1>4. Len(cut) \in Nat
    BY <1>2
  <1>5. /\ Len(more) = n + Len(cut) /\ DOMAIN more = 1 .. (n + Len(cut))
        /\ \A i \in 1 .. n : more[i] = shown[i]
        /\ \A i \in 1 .. (n + Len(cut)) : i > n => more[i] = cut[i - n]
    <2>1. shown \in Seq(S \cup T) /\ cut \in Seq(S \cup T)
      BY <1>2
    <2> QED
      BY <2>1, Concatenated
  <1> HIDE DEF more, n
  <1>6. ASSUME NEW i \in 1 .. Len(more), i > n PROVE i <= Len(list) /\ more[i] = list[i]
    <2>1. i - n \in Nat \ {0} /\ i - n <= Len(cut) /\ n + (i - n) = i /\ i - n \in 1 .. Len(cut)
      BY <1>1, <1>4, <1>5, <1>6
    <2>2. n + (i - n) <= Len(list) /\ cut[i - n] = list[n + (i - n)]
      BY <1>2, <2>1
    <2> QED
      BY <1>5, <1>6, <2>1, <2>2
  <1>7. ASSUME NEW i \in 1 .. Len(list), i > n, i <= n + size PROVE i \in 1 .. Len(more)
    <2>1. i - n \in Nat \ {0} /\ i - n <= size /\ n + (i - n) = i
      BY <1>1, <1>7
    <2>2. n + (i - n) <= Len(list)
      BY <1>1, <2>1
    <2>3. i - n <= Len(cut)
      BY <1>2, <2>1, <2>2
    <2> QED
      BY <1>1, <1>4, <1>5, <2>1, <2>3
  <1>8. HasNext(list, page, size) => Len(more) = n + size /\ n + size < Len(list)
    <2>1. HasNext(list, page, size) => n + size < Len(list)
      BY <1>1, <1>2, <1>3
    <2>2. ASSUME n + size < Len(list) PROVE Len(cut) = size
      <3>1. size <= Len(cut)
        <4>1. n + size <= Len(list) /\ size <= size
          BY <1>1, <2>2
        <4> QED
          BY <1>1, <1>2, <4>1
      <3>2. Len(cut) \in Nat \ {0}
        BY <1>1, <1>4, <3>1
      <3>3. Len(cut) <= size
        BY <1>2, <3>2
      <3> QED
        BY <1>1, <1>4, <3>1, <3>3
    <2> QED
      BY <1>5, <2>1, <2>2
  <1>9. ~ HasNext(list, page, size) => Len(list) <= n + size
    BY <1>1, <1>2, <1>3
  <1>10. ASSUME Len(list) <= n + size, n <= Len(list) PROVE Len(more) = Len(list)
    <2>1. CASE Len(list) = n
      <3>1. Len(cut) = 0
        <4>1. Len(cut) \in Nat \ {0} => n + Len(cut) <= Len(list)
          BY <1>2
        <4> QED
          BY <1>1, <1>4, <2>1, <4>1
      <3> QED
        BY <1>1, <1>5, <2>1, <3>1
    <2>2. CASE Len(list) > n
      <3>1. Len(list) \in 1 .. Len(more)
        <4>1. Len(list) \in 1 .. Len(list)
          BY <1>1, <2>2
        <4> QED
          BY <1>7, <1>10, <2>2, <4>1
      <3>2. Len(more) \in 1 .. Len(more) /\ Len(more) > n
        BY <1>1, <1>4, <1>5, <2>2, <3>1
      <3>3. Len(more) <= Len(list)
        BY <1>6, <3>2
      <3> QED
        BY <1>1, <1>4, <1>5, <3>1, <3>3
    <2> QED
      BY <1>1, <1>10, <2>1, <2>2
  <1>11. n \in Nat /\ Len(more) \in Nat /\ DOMAIN more = 1 .. Len(more) /\ n <= Len(more)
    BY <1>1, <1>4, <1>5
  <1> QED
    BY <1>3, <1>5, <1>6, <1>7, <1>8, <1>9, <1>10, <1>11 DEF Adds, more, n, cut

LEMMA ReadKeepsWalk ==
    ASSUME RowsInv, RequestInv, GrowthInv, WalkInv, NEW c \in Clients, ReadPage(c)
    PROVE  ClientInv(c)'
  <1> DEFINE f == query[c].filter
             page == query[c].page
             size == f.pageSize
             list == Listing(snap[c], f)
             capacity == Cardinality(DOMAIN rows)
             more == got[c] \o PageOf(list, page, size)
             n == Len(got[c])
  <1>1. ask[c] = "reading" /\ query[c] \in Request /\ UNCHANGED <<snap, first>>
    BY PageRead DEF RequestInv
  <1>2. CASE ~ query[c].walk
    <2>1. query'[c].walk = query[c].walk /\ ask'[c] # "idle"
      BY <1>1, PageRead DEF RequestInv, Request
    <2> QED
      BY <1>2, <2>1 DEF ClientInv, Walking, Walked
  <1>3. CASE \E a \in {"panic", "error"} : ask' = [ask EXCEPT ![c] = a]
    BY <1>3 DEF ClientInv, Walking, Walked, RequestInv
  <1>4. CASE /\ query[c].walk /\ ~ Panics(list, capacity, page, size)
             /\ got' = [got EXCEPT ![c] = more]
             /\ \/ /\ HasNext(list, page, size)
                   /\ ask' = [ask EXCEPT ![c] = "opening"]
                   /\ query' = [query EXCEPT ![c].page = @ + 1]
                \/ /\ ~ HasNext(list, page, size)
                   /\ ask' = [ask EXCEPT ![c] = "done"]
                   /\ UNCHANGED query
    <2>1. /\ f \in Filter /\ size \in 1 .. MaxInt /\ page \in 1 .. MaxInt
          /\ snap[c] \in Bucket /\ first[c] \in Bucket
          /\ list \in Seq(Streams) /\ capacity \in 0 .. MaxInt /\ Len(list) <= capacity
      BY <1>1, ListRead
    <2>2. page * size <= MaxInt
      BY <1>1, <1>4, PageAnswered
    <2>3. Walking(c) /\ ~ Walked(c) /\ Shown(c) = (page - 1) * size
      BY <1>1, <1>4 DEF Walking, Walked, Shown
    <2>4. /\ n = (page - 1) * size /\ ExactInv(c)
          /\ Placed(c) => NobodyPassed(c) /\ OnlyPushed(c)
      BY <2>3 DEF WalkInv, ClientInv
    <2>5. got[c] \in Seq(Streams \cup {0})
      BY DEF RequestInv
    <2>6. /\ n \in Nat /\ Len(more) \in Nat /\ DOMAIN more = 1 .. Len(more) /\ n <= Len(more)
          /\ page * size = n + size
          /\ \A i \in 1 .. n : more[i] = got[c][i]
          /\ \A i \in 1 .. Len(more) : i > n => i <= Len(list) /\ more[i] = list[i]
          /\ \A i \in 1 .. Len(list) : i > n /\ i <= n + size => i \in 1 .. Len(more)
          /\ HasNext(list, page, size) => Len(more) = n + size /\ n + size < Len(list)
          /\ ~ HasNext(list, page, size) => Len(list) <= n + size
          /\ ~ HasNext(list, page, size) /\ n <= Len(list) => Len(more) = Len(list)
      <3>1. Len(got[c]) = (page - 1) * size
        BY <2>4
      <3>2. Adds(list, page, size, got[c], more)
        <4> HIDE DEF f, page, size, list, capacity
        <4> QED
          BY <2>1, <2>2, <2>5, <3>1, PageAdds
      <3> HIDE DEF f, page, size, list, capacity, more
      <3> QED
        BY <3>2 DEF Adds
    <2>7. DOMAIN got[c] = 1 .. n
      BY <2>5
    <2>8. /\ \A s \in Fitting(snap[c], f) : \E i \in 1 .. Len(list) : list[i] = s
          /\ \A i \in 1 .. Len(list) : list[i] \in Fitting(snap[c], f)
          /\ Placed(c) => \A i \in 1 .. Len(list) : Cardinality(Ahead(snap[c], f, list[i])) = i - 1
      BY <2>1, ListingPlaces DEF Placed
    <2>9. got'[c] = more
      BY <1>4 DEF RequestInv
    <2>10. \/ /\ HasNext(list, page, size) /\ ask'[c] = "opening"
              /\ query'[c].walk /\ query'[c].filter = f /\ Shown(c)' = page * size
           \/ /\ ~ HasNext(list, page, size) /\ ask'[c] = "done" /\ query'[c] = query[c]
      <3>1. CASE /\ HasNext(list, page, size)
                 /\ ask' = [ask EXCEPT ![c] = "opening"]
                 /\ query' = [query EXCEPT ![c].page = @ + 1]
        <4>1. query'[c] = [query[c] EXCEPT !.page = page + 1]
          BY <3>1 DEF RequestInv
        <4>2. query'[c].walk = query[c].walk /\ query'[c].filter = f /\ query'[c].page = page + 1
          BY <1>1, <4>1 DEF Request
        <4>3. (page + 1) - 1 = page
          BY <2>1
        <4>4. Shown(c)' = page * size
          BY <4>2, <4>3 DEF Shown
        <4> QED
          BY <1>4, <3>1, <4>2, <4>4 DEF RequestInv
      <3>2. CASE /\ ~ HasNext(list, page, size)
                 /\ ask' = [ask EXCEPT ![c] = "done"]
                 /\ UNCHANGED query
        BY <3>2 DEF RequestInv
      <3> QED
        BY <1>4, <3>1, <3>2
    <2>11. query'[c].filter = f /\ (ask'[c] = "opening" \/ ask'[c] = "done")
      BY <2>10
    <2>12. (Walking(c)' <=> HasNext(list, page, size)) /\ (Walked(c)' <=> ~ HasNext(list, page, size))
      BY <1>4, <2>10 DEF Walking, Walked
    <2>a. /\ Placed(c)' => Placed(c)
          /\ Placed(c) => Stable(f)
      BY <1>1, <2>11 DEF Placed
    <2> HIDE DEF f, page, size, list, capacity, more, n
    <2>13. ExactInv(c)'
      <3>1. SUFFICES ASSUME snap[c] = first[c]
                     PROVE  /\ Walking(c)' => Len(more) <= Len(list)
                            /\ Walked(c)' => Len(more) = Len(list)
                            /\ \A i \in DOMAIN more : more[i] = list[i]
        BY <1>1, <2>9, <2>11 DEF ExactInv, list
      <3>2. n <= Len(list) /\ \A i \in 1 .. n : got[c][i] = list[i]
        BY <2>3, <2>4, <2>7, <3>1 DEF ExactInv, list, f, n
      <3>3. \A i \in 1 .. Len(more) : i <= n => i \in 1 .. n
        BY <2>6
      <3>4. \A i \in 1 .. Len(more) : i > n \/ i <= n
        BY <2>6
      <3>5. Walking(c)' => Len(more) <= Len(list)
        BY <2>1, <2>6, <2>12
      <3> QED
        BY <2>6, <2>12, <3>2, <3>3, <3>4, <3>5
    <2>14. ASSUME Placed(c)' PROVE NobodyPassed(c)'
      <3>1. ASSUME NEW s \in Fitting(first[c], f)
            PROVE  \/ s \in ToSet(more)
                   \/ Walking(c)' /\ Cardinality(Ahead(snap[c], f, s)) >= n + size
        <4>1. s \in ToSet(got[c]) \/ Cardinality(Ahead(snap[c], f, s)) >= n
          BY <2>3, <2>4, <2>14, <2>a DEF NobodyPassed, f, n, page, size
        <4>2. CASE s \in ToSet(got[c])
          <5>1. PICK i \in 1 .. n : got[c][i] = s
            BY <2>7, <4>2 DEF ToSet
          <5>2. i \in DOMAIN more /\ more[i] = s
            BY <2>6, <5>1
          <5> QED
            BY <5>2 DEF ToSet
        <4>3. CASE Cardinality(Ahead(snap[c], f, s)) >= n
          <5>1. s \in Fitting(snap[c], f)
            <6>1. Grew(first[c], snap[c])
              BY DEF GrowthInv
            <6> QED
              BY <2>1, <2>14, <2>a, <6>1, StableOrder DEF Fitting, Grew
          <5>2. PICK i \in 1 .. Len(list) : list[i] = s
            BY <2>8, <5>1
          <5>3. i > n /\ Cardinality(Ahead(snap[c], f, s)) = i - 1 /\ i \in Nat /\ Len(list) \in Nat
            <6>1. i \in Nat /\ Len(list) \in Nat /\ n \in Nat
              <7>1. Len(list) \in Nat
                BY <2>1
              <7>2. n \in Nat
                BY <2>6
              <7> QED
                BY <7>1, <7>2
            <6>2. Cardinality(Ahead(snap[c], f, s)) = i - 1
              BY <2>8, <2>14, <2>a, <5>2
            <6> QED
              BY <4>3, <6>1, <6>2
          <5>4. CASE i <= n + size
            <6>1. i \in 1 .. Len(more) /\ more[i] = list[i]
              BY <2>6, <5>3, <5>4
            <6> QED
              BY <2>6, <5>2, <6>1 DEF ToSet
          <5>5. CASE i > n + size
            <6>1. size \in Nat
              BY <2>1, IntBounds
            <6>2. Len(list) > n + size
              <7>1. n \in Nat /\ i <= Len(list)
                BY <2>6, <5>3
              <7> QED
                BY <5>3, <5>5, <6>1, <7>1
            <6>3. HasNext(list, page, size)
              <7>1. n \in Nat /\ (~ HasNext(list, page, size) => Len(list) <= n + size)
                BY <2>6
              <7> QED
                BY <5>3, <6>1, <6>2, <7>1
            <6> QED
              BY <2>6, <2>12, <5>3, <5>5, <6>1, <6>3
          <5> QED
            BY <2>1, <2>6, <5>3, <5>4, <5>5
        <4> QED
          BY <4>1, <4>2, <4>3
      <3>2. Walking(c)' => Shown(c)' = n + size
        BY <2>6, <2>10, <2>12
      <3> QED
        BY <1>1, <2>9, <2>11, <3>1, <3>2 DEF NobodyPassed
    <2>15. ASSUME Placed(c)' PROVE OnlyPushed(c)'
      <3>1. ASSUME NEW i \in 1 .. Len(more)
            PROVE  /\ more[i] \in Fitting(snap[c], f)
                   /\ \/ Cardinality(Ahead(snap[c], f, more[i])) = i - 1
                      \/ /\ Cardinality(Ahead(snap[c], f, more[i])) >= i
                         /\ \E t \in Fitting(snap[c], f) \ DOMAIN first[c] :
                               Before(snap[c], f, t, more[i])
        <4>1. CASE i <= n
          <5>1. i \in 1 .. n /\ more[i] = got[c][i]
            BY <2>6, <4>1
          <5>2. OnlyPushed(c)
            BY <2>4, <2>15, <2>a
          <5>3. i \in DOMAIN got[c]
            BY <2>7, <5>1
          <5> QED
            BY <5>1, <5>2, <5>3, PushedAt DEF f
        <4>2. CASE i > n
          <5>1. i \in 1 .. Len(list) /\ more[i] = list[i]
            <6>1. i <= Len(list) /\ more[i] = list[i]
              BY <2>6, <4>2
            <6>2. Len(list) \in Nat /\ i \in Nat /\ i >= 1
              <7>1. Len(list) \in Nat
                BY <2>1
              <7>2. Len(more) \in Nat
                BY <2>6
              <7> QED
                BY <7>1, <7>2
            <6> QED
              BY <6>1, <6>2
          <5> QED
            BY <2>8, <2>15, <2>a, <5>1
        <4> QED
          BY <2>6, <4>1, <4>2
      <3> QED
        BY <1>1, <2>6, <2>9, <2>11, <3>1 DEF OnlyPushed
    <2>16. Walking(c)' => Len(got'[c]) = Shown(c)'
      BY <2>6, <2>9, <2>10, <2>12
    <2> QED
      BY <2>11, <2>13, <2>14, <2>15, <2>16 DEF ClientInv
  <1> QED
    BY <1>2, <1>3, <1>4, PageRead

LEMMA WalkNext == RowsInv /\ RequestInv /\ GrowthInv /\ WalkInv /\ [Next]_vars => WalkInv'
  <1> SUFFICES ASSUME RowsInv, RequestInv, GrowthInv, WalkInv, [Next]_vars, NEW d \in Clients
               PROVE  ClientInv(d)'
    BY DEF WalkInv
  <1>1. ClientInv(d)
    BY DEF WalkInv
  <1>2. ASSUME NEW c \in Clients, c # d,
               OpenCursor(c) \/ ReadPage(c) \/ \E q \in Queries : Ask(c, q)
        PROVE  UNCHANGED <<ask[d], query[d], snap[d], first[d], got[d]>>
    <2>1. ASSUME NEW q \in Queries, Ask(c, q)
          PROVE  UNCHANGED <<ask[d], query[d], snap[d], first[d], got[d]>>
      BY <1>2, <2>1 DEF Ask, RequestInv
    <2>2. ASSUME OpenCursor(c)
          PROVE  UNCHANGED <<ask[d], query[d], snap[d], first[d], got[d]>>
      BY <1>2, <2>2 DEF OpenCursor, RequestInv, RowsInv
    <2>3. ASSUME ReadPage(c)
          PROVE  UNCHANGED <<ask[d], query[d], snap[d], first[d], got[d]>>
      BY <1>2, <2>3 DEF ReadPage, Answers, RequestInv
    <2> QED
      BY <1>2, <2>1, <2>2, <2>3
  <1>3. ASSUME \/ \E s \in Streams : \E r \in NewRows(s) \cup EndedRows(s) :
                     Store(s, r) \/ StoreGrows(s, r)
               \/ Grown
               \/ \E b \in Backups : BackupBegins(b) \/ BackupEnds(b)
               \/ UNCHANGED vars
        PROVE  UNCHANGED <<ask[d], query[d], snap[d], first[d], got[d]>>
    BY <1>3 DEF Store, StoreGrows, Grown, BackupBegins, BackupEnds, vars, clientVars
  <1>4. UNCHANGED <<ask[d], query[d], snap[d], first[d], got[d]>> => ClientInv(d)'
    BY <1>1, ClientKept
  <1>5. (OpenCursor(d) \/ ReadPage(d) \/ \E q \in Queries : Ask(d, q)) => ClientInv(d)'
    BY AskKeepsWalk, OpenKeepsWalk, ReadKeepsWalk
  <1> QED
    BY <1>2, <1>3, <1>4, <1>5 DEF Next, ListStep

LEMMA ListInvariants == Spec => [](RowsInv /\ RequestInv /\ GrowthInv /\ WalkInv)
  BY RowsInit, RowsNext, RequestInit, RequestNext, GrowthInit, GrowthNext, WalkInit, WalkNext, PTL
  DEF Spec

-----------------------------------------------------------------------------
(* What a walk shows.                                                       *)

\* However many streams are stored and end while a client pages through the listing, in
\* an order they keep, no stream that was there at the start is skipped: while the listing
\* is short, for every build of sort.Slice, and longer ones if no two are equal in the field.
THEOREM NobodyMissed == Spec => []WalkMissesNobody
  <1>1. WalkInv => WalkMissesNobody
    BY DEF WalkInv, ClientInv, WalkMissesNobody, Placed, NobodyPassed, Walking, Walked
  <1> QED
    BY ListInvariants, <1>1, PTL

\* A stream is shown to a walk twice only behind a new stream that sorts before it.
THEOREM RepeatsOnlyPushed == Spec => []WalkRepeatsOnlyPushed
  <1>1. ASSUME RowsInv, RequestInv, WalkInv, NEW c \in Clients, Walked(c), Placed(c),
               NEW i \in DOMAIN got[c], NEW j \in DOMAIN got[c], i < j, got[c][i] = got[c][j]
        PROVE  \E t \in Fitting(snap[c], query[c].filter) \ DOMAIN first[c] :
                   Before(snap[c], query[c].filter, t, got[c][i])
    <2> DEFINE n == Cardinality(Ahead(snap[c], query[c].filter, got[c][i]))
    <2>1. OnlyPushed(c)
      BY <1>1 DEF WalkInv, ClientInv
    <2>2. n = j - 1 \/ n >= j
      <3>1. \/ Cardinality(Ahead(snap[c], query[c].filter, got[c][j])) = j - 1
            \/ Cardinality(Ahead(snap[c], query[c].filter, got[c][j])) >= j
        BY <2>1 DEF OnlyPushed
      <3> QED
        BY <1>1, <3>1
    <2>3. i \in Nat /\ j \in Nat
      BY <1>1 DEF RequestInv
    <2>4. n \in Nat
      BY <1>1, AheadType DEF RowsInv
    <2>5. n # i - 1
      <3> HIDE DEF n
      <3> QED
        BY <1>1, <2>2, <2>3, <2>4
    <2> QED
      BY <2>1, <2>5 DEF OnlyPushed
  <1>2. ASSUME RowsInv, RequestInv, WalkInv PROVE WalkRepeatsOnlyPushed
    <2>1. \A c \in Clients : \A i, j \in DOMAIN got[c] : i # j => i < j \/ j < i
      BY <1>2 DEF RequestInv
    <2> QED
      BY <1>1, <1>2, <2>1 DEF WalkRepeatsOnlyPushed, Placed
  <1> QED
    BY ListInvariants, <1>2, PTL

\* While nothing is stored, the pages of a walk make up the listing: each stream that
\* fits once, in order, under every filter.
THEOREM WalkCorrect == Spec => []WalkIsExact
  <1>1. ASSUME RowsInv, RequestInv, WalkInv, NEW c \in Clients, Walked(c), snap[c] = first[c]
        PROVE  /\ ToSet(got[c]) = Fitting(first[c], query[c].filter)
               /\ \A i, j \in DOMAIN got[c] :
                    i < j => InOrder(first[c], query[c].filter, got[c][i], got[c][j])
    <2> DEFINE f == query[c].filter
               list == Listing(snap[c], f)
    <2>1. f \in Filter /\ snap[c] \in Bucket
      BY <1>1, ListRead DEF Walked
    <2>2. /\ list \in Seq(Fitting(snap[c], f))
          /\ \A s \in Fitting(snap[c], f) : \E i \in 1 .. Len(list) : list[i] = s
          /\ \A i, j \in 1 .. Len(list) : i < j => InOrder(snap[c], f, list[i], list[j])
      BY <2>1, ListingPlaces
    <2>3. Len(got[c]) = Len(list) /\ \A i \in DOMAIN got[c] : got[c][i] = list[i]
      BY <1>1 DEF WalkInv, ClientInv, ExactInv
    <2>4. DOMAIN got[c] = 1 .. Len(list)
      BY <2>3 DEF RequestInv
    <2> HIDE DEF list
    <2>5. ToSet(got[c]) = Fitting(snap[c], f)
      BY <2>2, <2>3, <2>4 DEF ToSet
    <2> QED
      BY <1>1, <2>2, <2>3, <2>4, <2>5
  <1>2. RowsInv /\ RequestInv /\ WalkInv => WalkIsExact
    BY <1>1 DEF WalkIsExact
  <1> QED
    BY ListInvariants, <1>2, PTL
=============================================================================
