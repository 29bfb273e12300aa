------------------------- MODULE AddressSpace_proofs -------------------------
(***************************************************************************)
(* The region list stays sorted and disjoint, and the caches and fast paths *)
(* are invisible, for every address width, every set of regions and every   *)
(* history of mappings and accesses; the two ways of a store write the same  *)
(* bytes for every value, width, byte size and byte order.                  *)
(***************************************************************************)
EXTENDS AddressSpace, FiniteSetTheorems, SequenceTheorems, WellFoundedInduction, TLAPS

\* What the proofs know about a single region.
LEMMA RegionFacts ==
    ASSUME BusTypeOK, NEW i \in DOMAIN regions
    PROVE  /\ regions[i].start \in Nat /\ regions[i].end \in Nat
           /\ regions[i].start < regions[i].end
           /\ i \in 1..Len(regions)
  <1>1. regions[i] \in Regions /\ i \in 1..Len(regions)
    BY DEF BusTypeOK
  <1>2. QED
    BY <1>1, AddressSpaceAssumption DEF BusTypeOK

\* The cardinality of an initial interval.
LEMMA PrefixCardinality ==
    ASSUME NEW n \in Nat
    PROVE  IsFiniteSet(1..n) /\ Cardinality(1..n) = n
  <1>1. 1 \in Int /\ n \in Int
    OBVIOUS
  <1>2. /\ IsFiniteSet(1..n)
        /\ Cardinality(1..n) = IF 1 > n THEN 0 ELSE n - 1 + 1
    BY <1>1, FS_Interval
  <1>3. QED
    BY <1>2

\* In a sorted, disjoint list the regions that begin at or below a are a
\* prefix, and partition_point is its length.
LEMMA PartitionPointFacts ==
    ASSUME BusTypeOK, RegionsDisjoint, NEW a \in Nat
    PROVE  /\ PartitionPoint(a) \in 0..Len(regions)
           /\ \A i \in DOMAIN regions : regions[i].start <= a <=> i <= PartitionPoint(a)
  <1> DEFINE S == {i \in DOMAIN regions : regions[i].start <= a}
             n == Cardinality(S)
  <1>1. Len(regions) \in Nat /\ DOMAIN regions = 1..Len(regions)
    BY DEF BusTypeOK
  <1>2. IsFiniteSet(S) /\ n <= Len(regions) /\ n \in Nat
    <2>1. IsFiniteSet(1..Len(regions)) /\ Cardinality(1..Len(regions)) = Len(regions)
      BY <1>1, PrefixCardinality
    <2>2. S \in SUBSET (1..Len(regions))
      BY <1>1
    <2>3. IsFiniteSet(S) /\ n <= Len(regions)
      BY <2>1, <2>2, FS_Subset
    <2>4. QED
      BY <2>3, FS_CardinalityType
  <1>3. ASSUME NEW j \in S, NEW i \in 1..j
        PROVE  i \in S
    <2>1. i \in DOMAIN regions /\ j \in DOMAIN regions
      BY <1>1
    <2>2. CASE i = j
      BY <2>2
    <2>3. CASE i < j
      <3>1. regions[i].end <= regions[j].start
        BY <2>1, <2>3 DEF RegionsDisjoint
      <3>2. QED
        BY <2>1, <3>1, RegionFacts
    <2>4. QED
      BY <1>1, <2>1, <2>2, <2>3
  <1>4. ASSUME NEW j \in S
        PROVE  j <= n
    <2>1. j \in Nat /\ j >= 1
      BY <1>1
    <2>2. 1..j \in SUBSET S
      BY <1>3
    <2>3. Cardinality(1..j) = j
      BY <2>1, PrefixCardinality
    <2>4. QED
      BY <1>2, <2>2, <2>3, FS_Subset
  <1>5. S = 1..n
    <2>1. S \in SUBSET (1..n)
      BY <1>1, <1>2, <1>4
    <2>2. IsFiniteSet(1..n) /\ Cardinality(1..n) = n
      BY <1>2, PrefixCardinality
    <2>3. QED
      BY <2>1, <2>2, FS_Subset
  <1>6. PartitionPoint(a) = n
    BY DEF PartitionPoint
  <1>7. \A i \in DOMAIN regions : regions[i].start <= a <=> i \in 1..n
    BY <1>5
  <1> HIDE DEF S, n
  <1>8. QED
    BY <1>1, <1>2, <1>6, <1>7

\* A region that holds the address is the one partition_point points at.
LEMMA HoldingIsUnique ==
    ASSUME BusTypeOK, RegionsDisjoint, NEW a \in Nat,
           NEW i \in DOMAIN regions, regions[i].start <= a, a < regions[i].end
    PROVE  i = PartitionPoint(a)
  <1> DEFINE p == PartitionPoint(a)
  <1>1. p \in 0..Len(regions) /\ i <= p /\ i \in 1..Len(regions)
    BY PartitionPointFacts, RegionFacts
  <1>2. p \in DOMAIN regions /\ Len(regions) \in Nat
    BY <1>1 DEF BusTypeOK
  <1>3. regions[p].start <= a
    <2>1. \A j \in DOMAIN regions : regions[j].start <= a <=> j <= p
      BY PartitionPointFacts
    <2>2. p <= p
      BY <1>1
    <2>3. QED
      BY <1>2, <2>1, <2>2
  <1>4. i < p => regions[i].end <= regions[p].start
    BY <1>2 DEF RegionsDisjoint
  <1>5. regions[p].start \in Nat /\ regions[i].end \in Nat
    BY <1>2, RegionFacts
  <1> HIDE DEF p
  <1>6. i = p
    BY <1>1, <1>2, <1>3, <1>4, <1>5
  <1>7. QED
    BY <1>6 DEF p

\* The answer of partition_point, without the cache, is the meaning of the
\* access.
LEMMA LookupIsMeaning ==
    ASSUME BusTypeOK, RegionsDisjoint, NEW k \in Kinds, NEW a \in Nat, NEW w \in Width
    PROVE  /\ a + w > AddressMax => Meaning(k, a, w) = Fault("boundary")
           /\ a + w <= AddressMax =>
                LET p == PartitionPoint(a)
                IN  /\ p = 0 => Meaning(k, a, w) = Fault("unmapped")
                    /\ p # 0 => Meaning(k, a, w) =
                         IF a >= regions[p].end THEN Fault("unmapped")
                         ELSE IF a + w > regions[p].end THEN Fault("boundary")
                         ELSE IF k \notin regions[p].perms THEN Fault("permission")
                         ELSE Found(p)
  <1> DEFINE p == PartitionPoint(a)
             holding == {i \in DOMAIN regions : regions[i].start <= a /\ a < regions[i].end}
  <1>0. a + w \in Nat /\ AddressMax \in Nat
    BY AddressSpaceAssumption
  <1>1. p \in 0..Len(regions) /\ Len(regions) \in Nat /\ DOMAIN regions = 1..Len(regions)
    BY PartitionPointFacts DEF BusTypeOK
  <1>2. holding \subseteq {p}
    BY HoldingIsUnique
  <1>3. p # 0 => p \in DOMAIN regions /\ regions[p].start <= a /\ regions[p].end \in Nat
    <2>1. \A j \in DOMAIN regions : regions[j].start <= a <=> j <= p
      BY PartitionPointFacts
    <2>2. p <= p /\ (p # 0 => p \in DOMAIN regions)
      BY <1>1
    <2>3. \A j \in DOMAIN regions : regions[j].end \in Nat
      BY RegionFacts
    <2>4. QED
      BY <2>1, <2>2, <2>3
  <1>4. p = 0 => holding = {}
    BY <1>1, <1>2
  <1>5. p # 0 => holding = IF a >= regions[p].end THEN {} ELSE {p}
    BY <1>2, <1>3
  <1>6. Meaning(k, a, w) =
          IF a + w > AddressMax THEN Fault("boundary")
          ELSE IF holding = {} THEN Fault("unmapped")
          ELSE LET i == CHOOSE i \in holding : TRUE
               IN  IF a + w > regions[i].end THEN Fault("boundary")
                   ELSE IF k \notin regions[i].perms THEN Fault("permission")
                   ELSE Found(i)
    BY DEF Meaning
  <1>7. holding = {p} => (CHOOSE i \in holding : TRUE) = p
    OBVIOUS
  <1> HIDE DEF p, holding
  <1>8. a + w > AddressMax => Meaning(k, a, w) = Fault("boundary")
    BY <1>6
  <1>9. a + w <= AddressMax /\ p = 0 => Meaning(k, a, w) = Fault("unmapped")
    BY <1>0, <1>4, <1>6
  <1>10. ASSUME a + w <= AddressMax, p # 0
         PROVE  Meaning(k, a, w) =
                  IF a >= regions[p].end THEN Fault("unmapped")
                  ELSE IF a + w > regions[p].end THEN Fault("boundary")
                  ELSE IF k \notin regions[p].perms THEN Fault("permission")
                  ELSE Found(p)
    <2>1. CASE a >= regions[p].end
      BY <1>0, <1>5, <1>6, <1>10, <2>1
    <2>2. CASE ~(a >= regions[p].end)
      <3>1. holding = {p} /\ holding # {}
        BY <1>5, <1>10, <2>2
      <3>2. (CHOOSE i \in holding : TRUE) = p
        BY <1>7, <3>1
      <3>3. QED
        BY <1>0, <1>6, <1>10, <2>2, <3>1, <3>2
    <2>3. QED
      BY <2>1, <2>2
  <1>11. QED
    BY <1>8, <1>9, <1>10 DEF p

\* A cache hit names the region partition_point would find.
LEMMA CacheHitIsLookup ==
    ASSUME BusTypeOK, RegionsDisjoint, NEW k \in Kinds, NEW a \in Nat, NEW w \in Width,
           CacheHit(k, a, w)
    PROVE  /\ region_cache[k] = PartitionPoint(a)
           /\ PartitionPoint(a) # 0
           /\ a < regions[PartitionPoint(a)].end
           /\ a + w <= regions[PartitionPoint(a)].end
           /\ k \in regions[PartitionPoint(a)].perms
  <1> DEFINE i == region_cache[k]
  <1>1. i \in DOMAIN regions
    BY DEF CacheHit, BusTypeOK
  <1>2. regions[i].start <= a /\ a + w <= regions[i].end /\ k \in regions[i].perms
    BY DEF CacheHit
  <1>3. w \in Nat /\ w >= 1 /\ regions[i].end \in Nat
    BY <1>1, RegionFacts, AddressSpaceAssumption
  <1>4. a < regions[i].end
    BY <1>2, <1>3
  <1>5. i = PartitionPoint(a)
    BY <1>1, <1>2, <1>4, HoldingIsUnique
  <1>6. i # 0
    BY DEF CacheHit
  <1>7. QED
    BY <1>2, <1>4, <1>5, <1>6

\* With a sorted, disjoint list and cache entries that are indices, the
\* caches and the fast paths are invisible.
LEMMA TransparencyFromInvariant ==
    ASSUME BusTypeOK, RegionsDisjoint
    PROVE  CacheTransparent
  <1> SUFFICES ASSUME NEW k \in Kinds, NEW a \in Address, NEW w \in Width
               PROVE  /\ RegionFor(k, a, w) = Meaning(k, a, w)
                      /\ FastRegion(k, a, w) # 0 =>
                            Found(FastRegion(k, a, w)) = Meaning(k, a, w)
    BY DEF CacheTransparent
  <1> DEFINE p == PartitionPoint(a)
  <1>0. a \in Nat /\ w \in Nat /\ w >= 1 /\ AddressMax \in Nat
    BY AddressSpaceAssumption DEF Address
  <1>1. p \in 0..Len(regions) /\ Len(regions) \in Nat
    BY <1>0, PartitionPointFacts DEF BusTypeOK
  <1>2. p # 0 => regions[p].end \in Nat
    BY <1>1, RegionFacts DEF BusTypeOK
  <1>3. CacheHit(k, a, w) =>
          /\ region_cache[k] = p /\ p # 0 /\ a < regions[p].end
          /\ a + w <= regions[p].end /\ k \in regions[p].perms
    BY <1>0, CacheHitIsLookup
  <1>4. /\ a + w > AddressMax => Meaning(k, a, w) = Fault("boundary")
        /\ a + w <= AddressMax =>
             /\ p = 0 => Meaning(k, a, w) = Fault("unmapped")
             /\ p # 0 => Meaning(k, a, w) =
                  IF a >= regions[p].end THEN Fault("unmapped")
                  ELSE IF a + w > regions[p].end THEN Fault("boundary")
                  ELSE IF k \notin regions[p].perms THEN Fault("permission")
                  ELSE Found(p)
    BY <1>0, LookupIsMeaning
  <1>5. RegionFor(k, a, w) =
          IF a + w > AddressMax THEN Fault("boundary")
          ELSE IF CacheHit(k, a, w) THEN Found(region_cache[k])
          ELSE IF p = 0 THEN Fault("unmapped")
          ELSE IF a >= regions[p].end THEN Fault("unmapped")
          ELSE IF a + w > regions[p].end THEN Fault("boundary")
          ELSE IF k \notin regions[p].perms THEN Fault("permission")
          ELSE Found(p)
    BY DEF RegionFor
  <1>6. FastRegion(k, a, w) # 0 =>
          /\ a + w <= AddressMax
          /\ \/ CacheHit(k, a, w) /\ FastRegion(k, a, w) = region_cache[k]
             \/ /\ p # 0 /\ a + w <= regions[p].end /\ k \in regions[p].perms
                /\ FastRegion(k, a, w) = p
    BY <1>0 DEF FastRegion
  <1> HIDE DEF p
  <1>7. RegionFor(k, a, w) = Meaning(k, a, w)
    <2>1. CASE a + w > AddressMax
      BY <1>4, <1>5, <2>1
    <2>2. CASE a + w <= AddressMax /\ CacheHit(k, a, w)
      <3>1. RegionFor(k, a, w) = Found(p)
        BY <1>0, <1>3, <1>5, <2>2
      <3>2. ~(a >= regions[p].end) /\ ~(a + w > regions[p].end)
        BY <1>0, <1>2, <1>3, <2>2
      <3>3. QED
        BY <1>3, <1>4, <2>2, <3>1, <3>2
    <2>3. CASE a + w <= AddressMax /\ ~CacheHit(k, a, w)
      <3>1. ~(a + w > AddressMax)
        BY <1>0, <2>3
      <3>2. CASE p = 0
        BY <1>4, <1>5, <2>3, <3>1, <3>2
      <3>3. CASE p # 0
        BY <1>4, <1>5, <2>3, <3>1, <3>3
      <3>4. QED
        BY <3>2, <3>3
    <2>4. QED
      BY <1>0, <2>1, <2>2, <2>3
  <1>8. ASSUME FastRegion(k, a, w) # 0
        PROVE  Found(FastRegion(k, a, w)) = Meaning(k, a, w)
    <2>1. /\ a + w <= AddressMax /\ p # 0
          /\ a + w <= regions[p].end /\ k \in regions[p].perms
          /\ FastRegion(k, a, w) = p
      BY <1>3, <1>6, <1>8
    <2>2. ~(a >= regions[p].end) /\ ~(a + w > regions[p].end)
      BY <1>0, <1>2, <2>1
    <2>3. QED
      BY <1>4, <2>1, <2>2
  <1>9. QED
    BY <1>7, <1>8

\* The inductive invariant: types, order, and the two witnesses.
BusInv ==
    /\ BusTypeOK
    /\ RegionsDisjoint
    /\ HitIsFirstWatched
    /\ DeviceAccessSeen

\* A region inserted at its place keeps the list sorted and disjoint.
LEMMA InsertStep ==
    ASSUME BusTypeOK, RegionsDisjoint, NEW r \in Regions, InsertRegion(r)
    PROVE  BusTypeOK' /\ RegionsDisjoint'
  <1> DEFINE L == Len(regions)
             b == PartitionPoint(r.start)
  <1>1. /\ r.start \in Nat /\ r.end \in Nat /\ r.start < r.end /\ r.end \in Address
    BY AddressSpaceAssumption DEF InsertRegion, Fits, Address
  <1>2. /\ L \in Nat /\ DOMAIN regions = 1..L /\ b \in 0..L
        /\ \A i \in 1..L : regions[i].start <= r.start <=> i <= b
    <2>1. L \in Nat /\ DOMAIN regions = 1..L
      BY DEF BusTypeOK
    <2>2. /\ b \in 0..L
          /\ \A i \in DOMAIN regions : regions[i].start <= r.start <=> i <= b
      BY <1>1, PartitionPointFacts
    <2>3. QED
      BY <2>1, <2>2
  <1>3. regions' = SubSeq(regions, 1, b) \o <<r>> \o SubSeq(regions, b + 1, L)
    BY DEF InsertRegion, PartitionPoint
  <1>4. /\ regions' \in Seq(Regions) /\ Len(regions') = L + 1
        /\ \A i \in 1..(L + 1) :
             regions'[i] = IF i <= b THEN regions[i]
                           ELSE IF i = b + 1 THEN r ELSE regions[i - 1]
    <2>1. regions \in Seq(Regions)
      BY DEF BusTypeOK
    <2>2. /\ SubSeq(regions, 1, b) \in Seq(Regions) /\ Len(SubSeq(regions, 1, b)) = b
          /\ \A i \in 1..b : SubSeq(regions, 1, b)[i] = regions[i]
      BY <1>2, <2>1
    <2>3. /\ SubSeq(regions, b + 1, L) \in Seq(Regions)
          /\ Len(SubSeq(regions, b + 1, L)) = L - b
          /\ \A i \in 1..(L - b) : SubSeq(regions, b + 1, L)[i] = regions[b + i]
      BY <1>2, <2>1
    <2> DEFINE lo == SubSeq(regions, 1, b)
               hi == SubSeq(regions, b + 1, L)
    <2> HIDE DEF lo, hi, L, b
    <2>4. /\ lo \in Seq(Regions) /\ Len(lo) = b /\ \A i \in 1..b : lo[i] = regions[i]
          /\ hi \in Seq(Regions) /\ Len(hi) = L - b
          /\ \A i \in 1..(L - b) : hi[i] = regions[b + i]
      BY <2>2, <2>3 DEF lo, hi
    <2>5. regions' = lo \o <<r>> \o hi
      BY <1>3 DEF lo, hi
    <2>6. regions' \in Seq(Regions) /\ Len(regions') = L + 1
      BY <1>2, <2>4, <2>5
    <2>7. ASSUME NEW i \in 1..(L + 1)
          PROVE  regions'[i] = IF i <= b THEN regions[i]
                               ELSE IF i = b + 1 THEN r ELSE regions[i - 1]
      <3>1. CASE i <= b
        BY <1>2, <2>4, <2>5, <3>1
      <3>2. CASE i = b + 1
        BY <1>2, <2>4, <2>5, <3>2
      <3>3. CASE i > b + 1
        <4>1. regions'[i] = hi[i - (b + 1)]
          BY <1>2, <2>4, <2>5, <3>3
        <4>2. i - (b + 1) \in 1..(L - b) /\ b + (i - (b + 1)) = i - 1
          BY <1>2, <3>3
        <4>3. hi[i - (b + 1)] = regions[b + (i - (b + 1))]
          BY <2>4, <4>2
        <4>4. ~(i <= b) /\ i # b + 1
          BY <1>2, <3>3
        <4>5. QED
          BY <4>1, <4>2, <4>3, <4>4
      <3>4. QED
        BY <1>2, <3>1, <3>2, <3>3
    <2>8. QED
      BY <2>6, <2>7
  <1>5. \A i \in 1..L : /\ regions[i].start \in Nat /\ regions[i].end \in Nat
                        /\ regions[i].start < regions[i].end
                        /\ regions[i].end \in Address
    BY <1>2, RegionFacts DEF BusTypeOK
  <1>6. ASSUME NEW i \in 1..L
        PROVE  /\ i <= b => regions[i].end <= r.start
               /\ i > b => r.end <= regions[i].start
    <2>1. ~Overlaps(r, regions[i])
      BY <1>2 DEF InsertRegion
    <2>2. r.start >= regions[i].end \/ r.end <= regions[i].start
      BY <1>1, <1>5, <2>1 DEF Overlaps
    <2>3. regions[i].start <= r.start <=> i <= b
      BY <1>2
    <2> HIDE DEF b, L
    <2>4. QED
      BY <1>1, <1>2, <1>5, <2>2, <2>3
  <1> HIDE DEF L, b
  <1>7. RegionsDisjoint'
    <2> SUFFICES ASSUME NEW i \in 1..(L + 1), NEW j \in 1..(L + 1), i < j
                 PROVE  regions'[i].end <= regions'[j].start
      BY <1>2, <1>4 DEF RegionsDisjoint
    <2>1. \A x, y \in 1..L : x < y => regions[x].end <= regions[y].start
      BY <1>2 DEF RegionsDisjoint
    <2>2. CASE j <= b
      <3>1. regions'[i] = regions[i] /\ regions'[j] = regions[j] /\ i \in 1..L /\ j \in 1..L
        BY <1>2, <1>4, <2>2
      <3>2. QED
        BY <2>1, <3>1
    <2>3. CASE j = b + 1
      <3>1. regions'[i] = regions[i] /\ regions'[j] = r /\ i \in 1..L /\ i <= b
        BY <1>2, <1>4, <2>3
      <3>2. QED
        BY <1>6, <3>1
    <2>4. CASE j > b + 1 /\ i <= b
      <3>1. /\ regions'[i] = regions[i] /\ regions'[j] = regions[j - 1]
            /\ i \in 1..L /\ j - 1 \in 1..L /\ i < j - 1
        BY <1>2, <1>4, <2>4
      <3>2. QED
        BY <2>1, <3>1
    <2>5. CASE j > b + 1 /\ i = b + 1
      <3>1. /\ regions'[i] = r /\ regions'[j] = regions[j - 1]
            /\ j - 1 \in 1..L /\ j - 1 > b
        BY <1>2, <1>4, <2>5
      <3>2. QED
        BY <1>6, <3>1
    <2>6. CASE j > b + 1 /\ i > b + 1
      <3>1. /\ regions'[i] = regions[i - 1] /\ regions'[j] = regions[j - 1]
            /\ i - 1 \in 1..L /\ j - 1 \in 1..L /\ i - 1 < j - 1
        BY <1>2, <1>4, <2>6
      <3>2. QED
        BY <2>1, <3>1
    <2>7. QED
      BY <1>2, <2>2, <2>3, <2>4, <2>5, <2>6
  <1>8. BusTypeOK'
    <2>1. \A i \in DOMAIN regions' :
             regions'[i].start < regions'[i].end /\ regions'[i].end \in Address
      <3> SUFFICES ASSUME NEW i \in 1..(L + 1)
                   PROVE  regions'[i].start < regions'[i].end /\ regions'[i].end \in Address
        BY <1>2, <1>4
      <3>1. CASE i <= b
        <4>1. regions'[i] = regions[i] /\ i \in 1..L
          BY <1>2, <1>4, <3>1
        <4>2. QED
          BY <1>5, <4>1
      <3>2. CASE i = b + 1
        <4>1. regions'[i] = r
          BY <1>2, <1>4, <3>2
        <4>2. QED
          BY <1>1, <4>1
      <3>3. CASE i > b + 1
        <4>1. regions'[i] = regions[i - 1] /\ i - 1 \in 1..L
          BY <1>2, <1>4, <3>3
        <4>2. QED
          BY <1>5, <4>1
      <3>4. QED
        BY <1>2, <3>1, <3>2, <3>3
    <2>2. region_cache' \in [Kinds -> 0..Len(regions')]
      <3>1. region_cache' = [k \in Kinds |-> 0]
        BY DEF InsertRegion, NoCache
      <3>2. 0 \in 0..Len(regions')
        BY <1>2, <1>4
      <3>3. QED
        BY <3>1, <3>2
    <2>3. QED
      BY <1>4, <2>1, <2>2 DEF BusTypeOK, InsertRegion, config_vars, seen_vars
  <1>9. QED
    BY <1>7, <1>8

\* Both ways of finding a region return an index of the list.
LEMMA FoundIsIndex ==
    ASSUME BusTypeOK, RegionsDisjoint, NEW k \in Kinds, NEW a \in Address, NEW w \in Width
    PROVE  /\ FastRegion(k, a, w) \in 0..Len(regions)
           /\ RegionFor(k, a, w).index \in 0..Len(regions)
           /\ RegionFor(k, a, w).fault = "none" => RegionFor(k, a, w).index # 0
  <1>1. PartitionPoint(a) \in 0..Len(regions) /\ Len(regions) \in Nat
    <2>1. a \in Nat
      BY AddressSpaceAssumption DEF Address
    <2>2. QED
      BY <2>1, PartitionPointFacts DEF BusTypeOK
  <1>2. region_cache[k] \in 0..Len(regions)
    BY DEF BusTypeOK
  <1>3. FastRegion(k, a, w) \in {0, region_cache[k], PartitionPoint(a)}
    BY DEF FastRegion
  <1>4. \/ RegionFor(k, a, w).index = 0 /\ RegionFor(k, a, w).fault # "none"
        \/ RegionFor(k, a, w).index = region_cache[k] /\ region_cache[k] # 0
        \/ RegionFor(k, a, w).index = PartitionPoint(a) /\ PartitionPoint(a) # 0
    BY DEF RegionFor, Fault, Found, CacheHit
  <1>5. QED
    BY <1>1, <1>2, <1>3, <1>4

\* Somebody watches whenever an access can be watched.
LEMMA WatchedIsMonitored ==
    ASSUME NEW k, NEW a, NEW w, NEW v, Watched(k, a, w, v)
    PROVE  MonitorsAccesses
  BY DEF Watched, MonitorsAccesses

\* A fast access records nothing, and needs to record nothing.
LEMMA FastStep ==
    ASSUME BusInv, NEW k \in Kinds, NEW a \in Address, NEW w \in Width, NEW v,
           FastAccess(k, a, w, v)
    PROVE  BusInv'
  <1> DEFINE i == FastRegion(k, a, w)
  <1>0. BusTypeOK /\ RegionsDisjoint /\ HitIsFirstWatched /\ DeviceAccessSeen
    BY DEF BusInv
  <1>1. /\ i \in 0..Len(regions) /\ i # 0
        /\ region_cache' = [region_cache EXCEPT ![k] = i]
    BY <1>0, FoundIsIndex DEF FastAccess
  <1>2. ~MonitorsAccesses
    BY <1>1 DEF FastRegion
  <1>3. first_watched' = first_watched /\ recent_device' = recent_device
    BY <1>2, WatchedIsMonitored DEF FastAccess, Witness
  <1>4. region_cache' \in [Kinds -> 0..Len(regions)]
    BY <1>0, <1>1 DEF BusTypeOK
  <1>5. UNCHANGED <<regions, config_vars, watchpoint_hit, last_device_access>>
    BY DEF FastAccess
  <1>6. BusTypeOK'
    BY <1>0, <1>3, <1>4, <1>5 DEF BusTypeOK, config_vars
  <1>7. QED
    BY <1>0, <1>3, <1>5, <1>6
    DEF BusInv, RegionsDisjoint, HitIsFirstWatched, DeviceAccessSeen

\* An ordinary access reports exactly what completed.
LEMMA SlowStep ==
    ASSUME BusInv, NEW k \in Kinds, NEW a \in Address, NEW w \in Width, NEW v,
           SlowAccess(k, a, w, v)
    PROVE  BusInv'
  <1> DEFINE i == RegionFor(k, a, w).index
  <1>0. BusTypeOK /\ RegionsDisjoint /\ HitIsFirstWatched /\ DeviceAccessSeen
    BY DEF BusInv
  <1>1. /\ i \in 0..Len(regions)
        /\ region_cache' = [region_cache EXCEPT ![k] = i]
        /\ UNCHANGED <<regions, config_vars>>
    BY <1>0, FoundIsIndex DEF SlowAccess
  <1>2. region_cache' \in [Kinds -> 0..Len(regions)]
    BY <1>0, <1>1 DEF BusTypeOK
  <1>3. Access(k, a, w) \in AccessRecord
    BY DEF Access, AccessRecord
  <1>4. watchpoint_hit' \in {watchpoint_hit, Access(k, a, w)} /\ watchpoint_hit' = first_watched'
    BY <1>0, WatchedIsMonitored DEF SlowAccess, Witness, HitIsFirstWatched, seen_vars
  <1>5. /\ last_device_access' \in {last_device_access, Access(k, a, w)}
        /\ last_device_access' = recent_device'
    BY <1>0 DEF SlowAccess, Witness, DeviceAccessSeen, seen_vars
  <1> HIDE DEF i
  <1>6. \A s \in {watchpoint_hit', last_device_access', first_watched', recent_device'} :
          s = None \/ s \in AccessRecord
    BY <1>0, <1>3, <1>4, <1>5 DEF BusTypeOK
  <1>7. BusTypeOK'
    BY <1>0, <1>1, <1>2, <1>6 DEF BusTypeOK, config_vars
  <1>8. QED
    BY <1>0, <1>1, <1>4, <1>5, <1>7
    DEF BusInv, RegionsDisjoint, HitIsFirstWatched, DeviceAccessSeen

\* The bus keeps its invariant through every mapping, configuration change
\* and access.
THEOREM BusInvariance == BusSpec => []BusInv
  <1>1. ASSUME BusInit
        PROVE  BusInv
    <2>1. /\ regions = << >> /\ region_cache = [k \in Kinds |-> 0]
          /\ recording = FALSE /\ watchpoints = {} /\ write_watchpoints = {}
          /\ masked_write_watchpoints = << >> /\ access_guard = None
          /\ watchpoint_hit = None /\ last_device_access = None
          /\ first_watched = None /\ recent_device = None
      BY <1>1 DEF BusInit, NoCache
    <2>2. regions \in Seq(Regions) /\ Len(regions) = 0 /\ DOMAIN regions = {}
      BY <2>1
    <2>3. region_cache \in [Kinds -> 0..Len(regions)]
      BY <2>1, <2>2
    <2>4. DOMAIN masked_write_watchpoints = {}
      BY <2>1
    <2>5. BusTypeOK
      BY <2>1, <2>2, <2>3, <2>4 DEF BusTypeOK
    <2>6. QED
      BY <2>1, <2>2, <2>5
      DEF BusInv, RegionsDisjoint, HitIsFirstWatched, DeviceAccessSeen
  <1>2. ASSUME BusInv, [BusNext]_bus_vars
        PROVE  BusInv'
    <2>0. BusTypeOK /\ RegionsDisjoint /\ HitIsFirstWatched /\ DeviceAccessSeen
      BY <1>2 DEF BusInv
    <2>1. CASE \E r \in Regions : InsertRegion(r)
      <3>1. PICK r \in Regions : InsertRegion(r)
        BY <2>1
      <3>2. BusTypeOK' /\ RegionsDisjoint'
        BY <2>0, <3>1, InsertStep
      <3>3. QED
        BY <2>0, <3>1, <3>2
        DEF BusInv, InsertRegion, seen_vars, HitIsFirstWatched, DeviceAccessSeen
    <2>2. CASE \E b \in BOOLEAN : SetRecording(b)
      BY <2>0, <2>2
      DEF BusInv, BusTypeOK, RegionsDisjoint, HitIsFirstWatched, DeviceAccessSeen,
          SetRecording, seen_vars
    <2>3. CASE \E g \in Guards \cup {None} : SetAccessGuard(g)
      <3>1. PICK g \in Guards \cup {None} : SetAccessGuard(g)
        BY <2>3
      <3>2. access_guard' = None \/ access_guard' \subseteq Address
        BY <3>1, AddressSpaceAssumption DEF SetAccessGuard
      <3>3. region_cache' \in [Kinds -> 0..Len(regions)]
        <4>1. Len(regions) \in Nat
          BY <2>0 DEF BusTypeOK
        <4>2. QED
          BY <3>1, <4>1 DEF SetAccessGuard, NoCache
      <3>4. QED
        BY <2>0, <3>1, <3>2, <3>3
        DEF BusInv, BusTypeOK, RegionsDisjoint, HitIsFirstWatched, DeviceAccessSeen,
            SetAccessGuard, seen_vars
    <2>4. CASE \E a \in Watchable : AddWatchpoint(a)
      BY <2>0, <2>4, AddressSpaceAssumption
      DEF BusInv, BusTypeOK, RegionsDisjoint, HitIsFirstWatched, DeviceAccessSeen,
          AddWatchpoint, seen_vars
    <2>5. CASE \E a \in Watchable : AddWriteWatchpoint(a)
      BY <2>0, <2>5, AddressSpaceAssumption
      DEF BusInv, BusTypeOK, RegionsDisjoint, HitIsFirstWatched, DeviceAccessSeen,
          AddWriteWatchpoint, seen_vars
    <2>6. CASE \E a \in Watchable, values \in Masks : AddMaskedWriteWatchpoint(a, values)
      <3>1. PICK a \in Watchable, values \in Masks : AddMaskedWriteWatchpoint(a, values)
        BY <2>6
      <3>2. DOMAIN masked_write_watchpoints' = DOMAIN masked_write_watchpoints \cup {a}
        BY <3>1 DEF AddMaskedWriteWatchpoint
      <3>3. DOMAIN masked_write_watchpoints' \subseteq Address
        BY <2>0, <3>2, AddressSpaceAssumption DEF BusTypeOK
      <3>4. UNCHANGED <<regions, region_cache, recording, watchpoints, write_watchpoints,
                        access_guard, seen_vars>>
        BY <3>1 DEF AddMaskedWriteWatchpoint
      <3>5. QED
        BY <2>0, <3>3, <3>4
        DEF BusInv, BusTypeOK, RegionsDisjoint, HitIsFirstWatched, DeviceAccessSeen, seen_vars
    <2>7. CASE ClearWatchpoints
      <3>1. DOMAIN masked_write_watchpoints' = {}
        BY <2>7 DEF ClearWatchpoints
      <3>2. /\ watchpoints' = {} /\ write_watchpoints' = {}
            /\ watchpoint_hit' = None /\ first_watched' = None
            /\ UNCHANGED <<regions, region_cache, recording, access_guard,
                           last_device_access, recent_device>>
        BY <2>7 DEF ClearWatchpoints
      <3>3. QED
        BY <2>0, <3>1, <3>2
        DEF BusInv, BusTypeOK, RegionsDisjoint, HitIsFirstWatched, DeviceAccessSeen
    <2>8. CASE TakeWatchpointHit
      BY <2>0, <2>8
      DEF BusInv, BusTypeOK, RegionsDisjoint, HitIsFirstWatched, DeviceAccessSeen,
          TakeWatchpointHit, config_vars
    <2>9. CASE TakeDeviceAccess
      BY <2>0, <2>9
      DEF BusInv, BusTypeOK, RegionsDisjoint, HitIsFirstWatched, DeviceAccessSeen,
          TakeDeviceAccess, config_vars
    <2>10. CASE \E k \in Kinds, a \in Address, w \in Width, v \in Byte : FastAccess(k, a, w, v)
      BY <1>2, <2>10, FastStep
    <2>11. CASE \E k \in Kinds, a \in Address, w \in Width, v \in Byte : SlowAccess(k, a, w, v)
      BY <1>2, <2>11, SlowStep
    <2>12. CASE UNCHANGED bus_vars
      BY <2>0, <2>12
      DEF BusInv, BusTypeOK, RegionsDisjoint, HitIsFirstWatched, DeviceAccessSeen,
          bus_vars, config_vars, seen_vars
    <2>13. QED
      BY <1>2, <2>1, <2>2, <2>3, <2>4, <2>5, <2>6, <2>7, <2>8, <2>9, <2>10, <2>11, <2>12
      DEF BusNext
  <1>3. QED
    BY <1>1, <1>2, PTL DEF BusSpec

\* After any history of mappings the regions are sorted and disjoint.
THEOREM BusRegionsDisjoint == BusSpec => []RegionsDisjoint
  <1>1. BusInv => RegionsDisjoint
    BY DEF BusInv
  <1>2. QED
    BY <1>1, BusInvariance, PTL

\* The cached regions and the fast paths never change what an access means.
THEOREM BusCacheTransparent == BusSpec => []CacheTransparent
  <1>1. BusInv => CacheTransparent
    BY TransparencyFromInvariant DEF BusInv
  <1>2. QED
    BY <1>1, BusInvariance, PTL

\* No access slips past a watchpoint, the first hit is the one reported, and every
\* completed device access is seen, whichever path it took.
THEOREM BusNotes == BusSpec => []NotesFaithful
  <1>1. BusInv => NotesFaithful
    BY DEF BusInv, NotesFaithful
  <1>2. QED
    BY <1>1, BusInvariance, PTL

\* The types of the regions, the caches and the watchpoints.
THEOREM BusTypes == BusSpec => []BusTypeOK
  <1>1. BusInv => BusTypeOK
    BY DEF BusInv
  <1>2. QED
    BY <1>1, BusInvariance, PTL

-----------------------------------------------------------------------------
(* The byte order of the two ways *)

\* Every set of natural numbers has a least element.
LEMMA LeastNatural ==
    ASSUME NEW S \in SUBSET Nat, S # {}
    PROVE  \E n \in S : \A m \in S : n <= m
  <1>1. PICK n \in S : \A m \in S : ~(<<m, n>> \in OpToRel(<, Nat))
    BY NatLessThanWellFounded, WFMin
  <1>2. \A m \in S : ~(m < n)
    BY <1>1 DEF OpToRel
  <1>3. QED
    BY <1>2

\* Induction over a set of numbers.
LEMMA SetInduction ==
    ASSUME NEW P, 0 \in P, \A n \in Nat : n \in P => n + 1 \in P
    PROVE  \A n \in Nat : n \in P
  <1> DEFINE Out == Nat \ P
  <1>1. SUFFICES ASSUME Out # {} PROVE FALSE
    OBVIOUS
  <1>2. Out \in SUBSET Nat
    OBVIOUS
  <1>3. PICK k \in Out : \A m \in Out : k <= m
    BY <1>1, <1>2, LeastNatural
  <1>4. k \in Nat /\ k # 0 /\ k - 1 \in Nat /\ ~(k <= k - 1) /\ (k - 1) + 1 = k
    BY <1>3
  <1>5. k - 1 \in P
    BY <1>3, <1>4
  <1>6. QED
    BY <1>3, <1>4, <1>5

\* The weights up to n.
Chain(n, f) ==
    /\ f \in [0..n -> Nat]
    /\ f[0] = 1
    /\ \A i \in 1..n : f[i] = Base * f[i - 1]

\* For every n there are weights up to n.
LEMMA ChainExists == \A n \in Nat : \E f : Chain(n, f)
  <1> DEFINE P == {n \in Nat : \E f : Chain(n, f)}
  <1>1. 0 \in P
    <2>1. Chain(0, [i \in 0..0 |-> 1])
      BY DEF Chain
    <2>2. QED
      BY <2>1
  <1>2. ASSUME NEW n \in Nat, n \in P PROVE n + 1 \in P
    <2>1. PICK f : Chain(n, f)
      BY <1>2
    <2> DEFINE g == [i \in 0..(n + 1) |-> IF i = n + 1 THEN Base * f[n] ELSE f[i]]
    <2>2. f \in [0..n -> Nat] /\ f[0] = 1 /\ f[n] \in Nat
      BY <2>1 DEF Chain
    <2>3. Base * f[n] \in Nat
      BY <2>2, AddressSpaceAssumption
    <2>4. g \in [0..(n + 1) -> Nat]
      BY <2>2, <2>3
    <2>5. g[0] = 1
      BY <2>2
    <2>6. ASSUME NEW i \in 1..(n + 1) PROVE g[i] = Base * g[i - 1]
      <3>1. g[i - 1] = f[i - 1]
        OBVIOUS
      <3>2. CASE i = n + 1
        BY <3>1, <3>2
      <3>3. CASE i # n + 1
        <4>1. i \in 1..n /\ g[i] = f[i]
          BY <3>3
        <4>2. f[i] = Base * f[i - 1]
          BY <2>1, <4>1 DEF Chain
        <4>3. QED
          BY <3>1, <4>1, <4>2
      <3>4. QED
        BY <3>2, <3>3
    <2> HIDE DEF g
    <2>7. Chain(n + 1, g)
      BY <2>4, <2>5, <2>6 DEF Chain
    <2>8. QED
      BY <2>7
  <1> HIDE DEF P
  <1>3. \A n \in Nat : n \in P
    BY <1>1, <1>2, SetInduction
  <1>4. QED
    BY <1>3 DEF P

\* Two lists of weights agree as far as both reach.
LEMMA ChainUnique ==
    ASSUME NEW m \in Nat, NEW n \in Nat, NEW f, NEW g, Chain(m, f), Chain(n, g)
    PROVE  \A k \in Nat : k <= m /\ k <= n => f[k] = g[k]
  <1> DEFINE P == {k \in Nat : k <= m /\ k <= n => f[k] = g[k]}
  <1>1. 0 \in P
    BY DEF Chain
  <1>2. ASSUME NEW k \in Nat, k \in P PROVE k + 1 \in P
    <2>1. SUFFICES ASSUME k + 1 <= m, k + 1 <= n PROVE f[k + 1] = g[k + 1]
      OBVIOUS
    <2>2. f[k] = g[k]
      BY <1>2, <2>1
    <2>3. k + 1 \in 1..m /\ k + 1 \in 1..n /\ (k + 1) - 1 = k
      BY <2>1
    <2>4. f[k + 1] = Base * f[(k + 1) - 1] /\ g[k + 1] = Base * g[(k + 1) - 1]
      BY <2>3 DEF Chain
    <2>5. QED
      BY <2>2, <2>3, <2>4
  <1> HIDE DEF P
  <1>3. \A k \in Nat : k \in P
    BY <1>1, <1>2, SetInduction
  <1>4. QED
    BY <1>3 DEF P

\* The recursive definition has a solution, so that Weight is one.
LEMMA WeightUnrolled ==
    Weight = [n \in Nat |-> IF n = 0 THEN 1 ELSE Base * Weight[n - 1]]
  <1> DEFINE F(n) == CHOOSE f : Chain(n, f)
             g == [n \in Nat |-> F(n)[n]]
  <1>1. \A n \in Nat : Chain(n, F(n))
    BY ChainExists
  <1> HIDE DEF F
  <1>2. ASSUME NEW n \in Nat PROVE g[n] = IF n = 0 THEN 1 ELSE Base * g[n - 1]
    <2>1. CASE n = 0
      BY <1>1, <2>1 DEF Chain
    <2>2. CASE n # 0
      <3>1. n - 1 \in Nat /\ n - 1 <= n /\ n - 1 <= n - 1 /\ n \in 1..n
        BY <2>2
      <3>2. F(n)[n] = Base * F(n)[n - 1]
        BY <1>1, <3>1 DEF Chain
      <3>3. F(n)[n - 1] = F(n - 1)[n - 1]
        BY <1>1, <3>1, ChainUnique
      <3>4. QED
        BY <2>2, <3>1, <3>2, <3>3
    <2>3. QED
      BY <2>1, <2>2
  <1>3. g = [n \in Nat |-> IF n = 0 THEN 1 ELSE Base * g[n - 1]]
    BY <1>2
  <1> HIDE DEF g
  <1>4. \E h : h = [n \in Nat |-> IF n = 0 THEN 1 ELSE Base * h[n - 1]]
    BY <1>3
  <1>5. QED
    BY <1>4 DEF Weight

\* Each weight is Base times the one before, and none is zero.
LEMMA WeightSteps ==
    /\ Weight[0] = 1
    /\ \A n \in Nat : Weight[n + 1] = Base * Weight[n]
    /\ \A n \in Nat : Weight[n] \in Nat \ {0}
  <1>1. \A n \in Nat : Weight[n] = IF n = 0 THEN 1 ELSE Base * Weight[n - 1]
    BY WeightUnrolled
  <1>2. Weight[0] = 1
    BY <1>1
  <1>3. ASSUME NEW n \in Nat PROVE Weight[n + 1] = Base * Weight[n]
    <2>1. n + 1 \in Nat /\ n + 1 # 0 /\ (n + 1) - 1 = n
      OBVIOUS
    <2>2. QED
      BY <1>1, <2>1
  <1> DEFINE P == {n \in Nat : Weight[n] \in Nat \ {0}}
  <1>4. 0 \in P
    BY <1>2
  <1>5. ASSUME NEW n \in Nat, n \in P PROVE n + 1 \in P
    <2>1. \A b, x \in Nat \ {0} : b * x \in Nat \ {0}
      BY Z3T(30)
    <2>2. QED
      BY <1>3, <1>5, <2>1, AddressSpaceAssumption
  <1> HIDE DEF P
  <1>6. \A n \in Nat : n \in P
    BY <1>4, <1>5, SetInduction
  <1>7. QED
    BY <1>2, <1>3, <1>6 DEF P

\* The weight of a sum of places is the product of their weights.
LEMMA WeightsMultiply ==
    ASSUME NEW n \in Nat
    PROVE  \A m \in Nat : Weight[m + n] = Weight[m] * Weight[n]
  <1> DEFINE P == {m \in Nat : Weight[m + n] = Weight[m] * Weight[n]}
  <1>1. 0 \in P
    <2>1. Weight[0] = 1 /\ Weight[n] \in Nat /\ 0 + n = n
      BY WeightSteps
    <2>2. QED
      BY <2>1
  <1>2. ASSUME NEW m \in Nat, m \in P PROVE m + 1 \in P
    <2>1. (m + 1) + n = (m + n) + 1 /\ m + n \in Nat
      OBVIOUS
    <2>2. Weight[(m + 1) + n] = Base * Weight[m + n]
      BY <2>1, WeightSteps
    <2>3. Weight[m + 1] = Base * Weight[m]
      BY WeightSteps
    <2>4. \A b, x, y \in Nat : b * (x * y) = (b * x) * y
      BY Z3T(30)
    <2>5. Base \in Nat /\ Weight[m] \in Nat /\ Weight[n] \in Nat
      BY WeightSteps, AddressSpaceAssumption
    <2>6. Base * (Weight[m] * Weight[n]) = (Base * Weight[m]) * Weight[n]
      BY <2>4, <2>5
    <2>7. QED
      BY <1>2, <2>2, <2>3, <2>6
  <1> HIDE DEF P
  <1>3. \A m \in Nat : m \in P
    BY <1>1, <1>2, SetInduction
  <1>4. QED
    BY <1>3 DEF P

\* What a quotient and a remainder are.
LEMMA DivMod ==
    \A n, d \in Nat : d > 0 =>
        /\ n \div d \in Nat /\ n % d \in 0..(d - 1)
        /\ n = d * (n \div d) + (n % d)
  BY Z3T(30)

\* Two quotients and remainders of one number are the same.
LEMMA DivUnique ==
    ASSUME NEW d \in Nat, d > 0, NEW q \in Nat, NEW p \in Nat,
           NEW r \in 0..(d - 1), NEW s \in 0..(d - 1), d * q + r = d * p + s
    PROVE  q = p /\ r = s
  <1>1. ASSUME NEW x \in Nat, NEW y \in Nat, x < y PROVE d * x + d <= d * y
    <2>1. d * (y - x - 1) >= 0
      BY <1>1, Z3T(30)
    <2>2. d * (y - x - 1) = d * y - d * x - d
      BY <1>1, Z3T(30)
    <2>3. d * x \in Nat /\ d * y \in Nat
      OBVIOUS
    <2>4. QED
      BY <2>1, <2>2, <2>3
  <1>2. d * q \in Nat /\ d * p \in Nat
    OBVIOUS
  <1>3. ~(q < p)
    <2>1. SUFFICES ASSUME q < p PROVE FALSE
      OBVIOUS
    <2>2. d * q + d <= d * p
      BY <1>1, <2>1
    <2>3. QED
      BY <1>2, <2>2
  <1>4. ~(p < q)
    <2>1. SUFFICES ASSUME p < q PROVE FALSE
      OBVIOUS
    <2>2. d * p + d <= d * q
      BY <1>1, <2>1
    <2>3. QED
      BY <1>2, <2>2
  <1>5. q = p
    BY <1>3, <1>4
  <1>6. QED
    BY <1>2, <1>5

\* A number is known by its quotient and its remainder.
LEMMA QuotientIs ==
    ASSUME NEW v \in Nat, NEW d \in Nat, d > 0, NEW q \in Nat, NEW r \in 0..(d - 1), v = d * q + r
    PROVE  v \div d = q /\ v % d = r
  <1>1. PICK p \in Nat, s \in 0..(d - 1) : p = v \div d /\ s = v % d /\ v = d * p + s
    BY DivMod
  <1>2. d * q + r = d * p + s
    BY <1>1
  <1>3. q = p /\ r = s
    BY <1>2, DivUnique
  <1>4. QED
    BY <1>1, <1>3

\* Adding a multiple of the divisor does not change the remainder.
LEMMA SameRemainder ==
    ASSUME NEW b \in Nat, b > 0, NEW e \in Nat, NEW x \in Nat
    PROVE  (b * e + x) % b = x % b
  <1>1. PICK p \in Nat, s \in 0..(b - 1) : p = x \div b /\ s = x % b /\ x = b * p + s
    BY DivMod
  <1>2. PICK f \in Nat : f = e + p
    BY <1>1
  <1>3. b * f = b * e + b * p /\ b * e \in Nat /\ b * p \in Nat /\ b * f \in Nat
    BY <1>1, <1>2, Z3T(30)
  <1>4. b * e + x = b * f + s /\ b * e + x \in Nat
    <2>1. PICK g \in Nat, h \in Nat, l \in Nat : g = b * e /\ h = b * p /\ l = b * f
      BY <1>3, Zenon
    <2>2. g + x = l + s /\ g + x \in Nat
      BY <1>1, <1>3, <2>1
    <2>3. QED
      BY <2>1, <2>2, Zenon
  <1>5. (b * e + x) % b = s
    <2>1. PICK t \in Nat : t = b * e + x
      BY <1>4, Zenon
    <2>2. PICK h \in Nat, i \in 0..(b - 1) : h = t \div b /\ i = t % b /\ t = b * h + i
      BY DivMod
    <2>3. b * f + s = b * h + i
      BY <1>4, <2>1, <2>2, Zenon
    <2>4. s = i
      BY <2>3, DivUnique
    <2>5. QED
      BY <2>1, <2>2, <2>4, Zenon
  <1>6. QED
    BY <1>1, <1>5

\* A byte below the width of the access is that of the unmasked value: the mask
\* takes a multiple of Weight[w] away, which is a multiple of Base * Weight[n].
LEMMA DigitMasked ==
    ASSUME NEW v \in Nat, NEW w \in Nat, NEW n \in Nat, n < w
    PROVE  Digit(v % Weight[w], n) = Digit(v, n)
  <1>1. PICK j \in Nat : j + (n + 1) = w
    <2>1. w - n - 1 \in Nat /\ (w - n - 1) + (n + 1) = w
      OBVIOUS
    <2>2. QED
      BY <2>1
  <1>2. Weight[w] = Weight[j] * (Base * Weight[n])
    <2>1. Weight[j + (n + 1)] = Weight[j] * Weight[n + 1]
      BY <1>1, WeightsMultiply
    <2>2. QED
      BY <1>1, <2>1, WeightSteps
  <1>3. PICK q \in Nat, p \in Nat, b \in Nat, m \in Nat :
            /\ q = Weight[j] /\ p = Weight[n] /\ b = Base /\ m = Weight[w]
            /\ p > 0 /\ b > 0 /\ m > 0
    <2>1. /\ Weight[j] \in Nat \ {0} /\ Weight[n] \in Nat \ {0} /\ Weight[w] \in Nat \ {0}
          /\ Base \in Nat \ {0}
      BY WeightSteps, AddressSpaceAssumption
    <2>2. \A i \in Nat \ {0} : i \in Nat /\ i > 0
      OBVIOUS
    <2>3. QED
      BY <2>1, <2>2, Zenon
  <1>4. m = q * (b * p) /\ p > 0 /\ b > 0 /\ m > 0
    BY <1>2, <1>3, Zenon
  <1>5. PICK k \in Nat, u \in Nat : u = v % m /\ v = m * k + u
    <2>1. m > 0
      BY <1>4
    <2>2. v \div m \in Nat /\ v % m \in 0..(m - 1) /\ v = m * (v \div m) + (v % m)
      BY <2>1, DivMod, Zenon
    <2>3. v % m \in Nat
      BY <2>2
    <2>4. QED
      BY <2>2, <2>3, Zenon
  <1>6. PICK x \in Nat, y \in 0..(p - 1) : x = u \div p /\ u = p * x + y
    <2>1. p > 0
      BY <1>4
    <2>2. QED
      BY <2>1, DivMod
  <1>7. PICK e \in Nat : e = q * k
    OBVIOUS
  <1>8. PICK t \in Nat : t = b * e + x
    OBVIOUS
  <1>9. v = p * t + y
    <2>1. m * k = p * (b * e)
      BY <1>4, <1>7, Z3T(30)
    <2>2. p * t = p * (b * e) + p * x
      BY <1>8, Z3T(30)
    <2>3. p * x \in Nat /\ p * (b * e) \in Nat /\ p * t \in Nat
      BY Z3T(30)
    <2>4. PICK g \in Nat, h \in Nat, l \in Nat :
              g = p * x /\ h = p * (b * e) /\ l = p * t
      BY <2>3, Zenon
    <2>5. v = h + u /\ l = h + g /\ u = g + y
      BY <1>5, <1>6, <2>1, <2>2, <2>4, Zenon
    <2>6. v = l + y
      BY <2>5
    <2>7. QED
      BY <2>4, <2>6, Zenon
  <1>10. v \div p = t
    BY <1>4, <1>9, QuotientIs
  <1>11. t % b = x % b
    <2>1. b > 0
      BY <1>4
    <2>2. (b * e + x) % b = x % b
      BY <2>1, SameRemainder, Zenon
    <2>3. QED
      BY <1>8, <2>2, Zenon
  <1>12. ((v % m) \div p) % b = (v \div p) % b
    BY <1>5, <1>6, <1>10, <1>11, Zenon
  <1>13. QED
    BY <1>3, <1>12, Zenon DEF Digit

\* fast_write and write put the same bytes in the same order, for every value,
\* every width, every byte size and both byte orders.
LEMMA SameBytes ==
    ASSUME NEW w \in Width, NEW v \in Nat
    PROVE  FastBytes(v, w) = SlowBytes(v, w)
  <1>1. w \in Nat /\ FullWidth \in Nat /\ 1 <= w /\ w <= FullWidth /\ BigEndian \in BOOLEAN
    BY AddressSpaceAssumption
  <1> DEFINE place(n, i) == IF BigEndian THEN n - i ELSE i - 1
             encoded == [i \in 1..FullWidth |-> Digit(v, place(FullWidth, i))]
             low == IF BigEndian THEN FullWidth - w + 1 ELSE 1
             high == IF BigEndian THEN FullWidth ELSE w
             D == {Digit(v, n) : n \in Nat}
  <1>2. FastBytes(v, w) = SubSeq(encoded, low, high)
    BY DEF FastBytes
  <1>3. encoded \in Seq(D)
    <2>1. \A i \in 1..FullWidth : place(FullWidth, i) \in Nat
      BY <1>1
    <2>2. \A i \in 1..FullWidth : Digit(v, place(FullWidth, i)) \in D
      BY <2>1
    <2> HIDE DEF D, place
    <2>3. QED
      BY <1>1, <2>2, IsASeq
  <1>4. Len(encoded) = FullWidth /\ \A i \in 1..FullWidth : encoded[i] = Digit(v, place(FullWidth, i))
    <2>1. DOMAIN encoded = 1..FullWidth /\ DOMAIN encoded = 1..Len(encoded) /\ Len(encoded) \in Nat
      BY <1>3, LenProperties
    <2> HIDE DEF encoded
    <2>2. Len(encoded) = FullWidth
      BY <1>1, <2>1
    <2>3. QED
      BY <2>2 DEF encoded
  <1>5. /\ low \in 1..(Len(encoded) + 1) /\ high \in Int /\ low \in Int /\ high - low + 1 = w
        /\ low <= high /\ high <= Len(encoded) /\ low >= 1
        /\ \A i \in 1..w : low + i - 1 \in 1..FullWidth
    BY <1>1, <1>4
  <1>6. ASSUME NEW i \in 1..w
        PROVE  /\ place(w, i) \in Nat /\ place(w, i) < w
               /\ place(FullWidth, low + i - 1) = place(w, i)
    BY <1>1
  <1> HIDE DEF low, high, encoded, place, D
  <1>7. /\ Len(SubSeq(encoded, low, high)) = w
        /\ SubSeq(encoded, low, high) \in Seq(D)
        /\ \A i \in 1..w : SubSeq(encoded, low, high)[i] = encoded[low + i - 1]
    <2>1. \A i \in low..high : encoded[i] \in D
      BY <1>3, <1>5, LenProperties
    <2>2. QED
      BY <1>3, <1>5, <2>1, SubSeqProperties
  <1>8. ASSUME NEW i \in 1..w PROVE SubSeq(encoded, low, high)[i] = Digit(v % Weight[w], place(w, i))
    <2>1. SubSeq(encoded, low, high)[i] = Digit(v, place(FullWidth, low + i - 1))
      BY <1>4, <1>5, <1>7
    <2>2. Digit(v % Weight[w], place(w, i)) = Digit(v, place(w, i))
      BY <1>1, <1>6, DigitMasked
    <2>3. QED
      BY <1>6, <2>1, <2>2
  <1>9. SubSeq(encoded, low, high) = [i \in 1..w |-> Digit(v % Weight[w], place(w, i))]
    <2> DEFINE cut == SubSeq(encoded, low, high)
    <2>1. cut = [i \in DOMAIN cut |-> cut[i]] /\ DOMAIN cut = 1..w
      BY <1>7, LenProperties
    <2> HIDE DEF cut
    <2>2. \A i \in 1..w : cut[i] = Digit(v % Weight[w], place(w, i))
      BY <1>8 DEF cut
    <2>3. cut = [i \in 1..w |-> Digit(v % Weight[w], place(w, i))]
      BY <2>1, <2>2
    <2>4. QED
      BY <2>3 DEF cut
  <1>10. SlowBytes(v, w) = [i \in 1..w |-> Digit(v % Weight[w], place(w, i))]
    BY DEF SlowBytes, place
  <1>11. QED
    BY <1>2, <1>9, <1>10

\* Wherever fast_write takes a store, it puts the bytes there that write would,
\* for every value, width and byte size and in both byte orders.
THEOREM BusEncodings == BusSpec => []EncodingsAgree
  <1>1. Value \subseteq Nat
    BY DEF Value
  <1>2. EncodingsAgree
    BY <1>1, SameBytes DEF EncodingsAgree
  <1>3. QED
    BY <1>2, PTL
=============================================================================
