---------------------------- MODULE AddressSpace ----------------------------
(***************************************************************************)
(* The bus of every machine (crates/remu-bus/src/lib.rs, AddressSpace): a   *)
(* sorted list of disjoint regions, one cached region per access kind, and  *)
(* two ways through it.  The ordinary way checks the guard, finds the       *)
(* region, performs the access and reports it to recorder, observer and     *)
(* watchpoints; the fast way skips all reporting and has to decline         *)
(* whenever somebody is watching.                                           *)
(*                                                                          *)
(* Memory bytes are left out, except for the byte order of the two ways; a  *)
(* device is outside and succeeds or fails as it likes.                     *)
(***************************************************************************)
EXTENDS Integers, Sequences, FiniteSets

CONSTANTS
    AddressMax,     \* u64::MAX
    Width,          \* access widths in bytes
    FetchWidth,     \* the width of fast_fetch32
    FullWidth,      \* bytes of a u64 value
    Base,           \* values of a byte
    BigEndian,
    Regions,        \* regions the machine may map
    MaxRegions,     \* bound on their number
    Watchable,      \* addresses that get watchpoints
    Masks,          \* value sets a (mask, expected) pair selects
    Guards,         \* denied address sets of access policies
    None

Kinds == {"execute", "read", "write"}
Address == 0..AddressMax

ASSUME AddressSpaceAssumption ==
    /\ AddressMax \in Nat
    /\ FullWidth \in Nat
    /\ Width \subseteq 1..FullWidth /\ FetchWidth \in Width
    /\ Base \in Nat \ {0}
    /\ BigEndian \in BOOLEAN
    /\ Regions \subseteq [start : Nat, end : Nat, perms : SUBSET Kinds, device : BOOLEAN]
    /\ MaxRegions \in Nat
    /\ Watchable \subseteq Address
    /\ Guards \subseteq SUBSET Address

VARIABLES
    regions,            \* sorted by start
    region_cache,       \* an index per kind, 0 for None
    recording,          \* record_accesses or an observer
    watchpoints, write_watchpoints,
    masked_write_watchpoints,
    access_guard,
    watchpoint_hit,
    last_device_access,
    first_watched,      \* the first watched access completed since the last take
    recent_device       \* the last device access completed since the last take

seen_vars == <<watchpoint_hit, last_device_access, first_watched, recent_device>>
config_vars == <<recording, watchpoints, write_watchpoints, masked_write_watchpoints,
                 access_guard>>
bus_vars == <<regions, region_cache, config_vars, seen_vars>>

NoCache == [k \in Kinds |-> 0]

BusInit ==
    /\ regions = << >>
    /\ region_cache = NoCache
    /\ recording = FALSE
    /\ watchpoints = {}
    /\ write_watchpoints = {}
    /\ masked_write_watchpoints = << >>
    /\ access_guard = None
    /\ watchpoint_hit = None
    /\ last_device_access = None
    /\ first_watched = None
    /\ recent_device = None

-----------------------------------------------------------------------------
(* Mapping *)

\* Only the first address of the new region is compared.
Overlaps_StartOnly(r, s) == s.start <= r.start /\ r.start < s.end

Overlaps(r, s) == r.start < s.end /\ r.end > s.start

\* The region is not empty and its end is an address.
Fits(r) == r.start < r.end /\ r.end <= AddressMax

\* insert_region: an empty, overflowing or overlapping region is refused;
\* otherwise it is pushed and sorted to its place.
InsertRegion(r) ==
    /\ Fits(r)
    /\ \A i \in DOMAIN regions : ~Overlaps(r, regions[i])
    /\ LET below == Cardinality({i \in DOMAIN regions : regions[i].start <= r.start})
       IN  regions' = SubSeq(regions, 1, below) \o <<r>>
                        \o SubSeq(regions, below + 1, Len(regions))
    /\ region_cache' = NoCache
    /\ UNCHANGED <<config_vars, seen_vars>>

-----------------------------------------------------------------------------
(* Configuration *)

\* set_access_recording, set_access_observer, add_access_observer.
SetRecording(b) ==
    /\ recording' = b
    /\ UNCHANGED <<regions, region_cache, watchpoints, write_watchpoints,
                   masked_write_watchpoints, access_guard, seen_vars>>

SetAccessGuard(g) ==
    /\ access_guard' = g
    /\ region_cache' = NoCache
    /\ UNCHANGED <<regions, recording, watchpoints, write_watchpoints,
                   masked_write_watchpoints, seen_vars>>

AddWatchpoint(a) ==
    /\ watchpoints' = watchpoints \cup {a}
    /\ UNCHANGED <<regions, region_cache, recording, write_watchpoints,
                   masked_write_watchpoints, access_guard, seen_vars>>

AddWriteWatchpoint(a) ==
    /\ write_watchpoints' = write_watchpoints \cup {a}
    /\ UNCHANGED <<regions, region_cache, recording, watchpoints,
                   masked_write_watchpoints, access_guard, seen_vars>>

\* A second mask at the same address replaces the first.
AddMaskedWriteWatchpoint(a, values) ==
    /\ masked_write_watchpoints' =
          [x \in DOMAIN masked_write_watchpoints \cup {a} |->
             IF x = a THEN values ELSE masked_write_watchpoints[x]]
    /\ UNCHANGED <<regions, region_cache, recording, watchpoints, write_watchpoints,
                   access_guard, seen_vars>>

ClearWatchpoints ==
    /\ watchpoints' = {}
    /\ write_watchpoints' = {}
    /\ masked_write_watchpoints' = << >>
    /\ watchpoint_hit' = None
    /\ first_watched' = None
    /\ UNCHANGED <<regions, region_cache, recording, access_guard, last_device_access,
                   recent_device>>

\* take_watchpoint_hit, clear_watchpoint_hit.
TakeWatchpointHit ==
    /\ watchpoint_hit' = None
    /\ first_watched' = None
    /\ UNCHANGED <<regions, region_cache, config_vars, last_device_access, recent_device>>

TakeDeviceAccess ==
    /\ last_device_access' = None
    /\ recent_device' = None
    /\ UNCHANGED <<regions, region_cache, config_vars, watchpoint_hit, first_watched>>

\* The masked watchpoints are forgotten.
MonitorsAccesses_NoMasked ==
    recording \/ watchpoints # {} \/ write_watchpoints # {} \/ access_guard # None

MonitorsAccesses ==
    \/ recording
    \/ watchpoints # {} \/ write_watchpoints # {}
    \/ DOMAIN masked_write_watchpoints # {}
    \/ access_guard # None

-----------------------------------------------------------------------------
(* Finding the region *)

\* partition_point on the starts: how many regions begin at or below a.
PartitionPoint(a) == Cardinality({i \in DOMAIN regions : regions[i].start <= a})

\* The cached region of the kind serves the whole access.
CacheHit(k, a, w) ==
    LET i == region_cache[k]
    IN  /\ i # 0
        /\ regions[i].start <= a /\ a + w <= regions[i].end
        /\ k \in regions[i].perms

Fault(f) == [fault |-> f, index |-> 0]
Found(i) == [fault |-> "none", index |-> i]

\* region_for.
RegionFor(k, a, w) ==
    LET i == PartitionPoint(a)
    IN  IF a + w > AddressMax THEN Fault("boundary")
        ELSE IF CacheHit(k, a, w) THEN Found(region_cache[k])
        ELSE IF i = 0 THEN Fault("unmapped")
        ELSE IF a >= regions[i].end THEN Fault("unmapped")
        ELSE IF a + w > regions[i].end THEN Fault("boundary")
        ELSE IF k \notin regions[i].perms THEN Fault("permission")
        ELSE Found(i)

\* The region found is taken without looking at its permissions.
FastRegion_NoPermission(k, a, w) ==
    LET i == PartitionPoint(a)
    IN  IF MonitorsAccesses \/ a + w > AddressMax THEN 0
        ELSE IF CacheHit(k, a, w) THEN region_cache[k]
        ELSE IF i = 0 THEN 0
        ELSE IF a + w <= regions[i].end THEN i ELSE 0

\* fast_fetch32, fast_read, fast_write up to the region they cache; 0 when
\* they decline before.
FastRegion(k, a, w) ==
    LET i == PartitionPoint(a)
    IN  IF MonitorsAccesses \/ a + w > AddressMax THEN 0
        ELSE IF CacheHit(k, a, w) THEN region_cache[k]
        ELSE IF i = 0 THEN 0
        ELSE IF a + w <= regions[i].end /\ k \in regions[i].perms THEN i ELSE 0

-----------------------------------------------------------------------------
(* Accesses *)

Access(k, a, w) == [kind |-> k, address |-> a, width |-> w]

\* record_watchpoint_hit: instruction fetches never count; a masked
\* watchpoint looks at the value of the whole access.
Watched(k, a, w, v) ==
    /\ k # "execute"
    /\ \E x \in a..(a + w - 1) :
          \/ x \in watchpoints
          \/ k = "write" /\ x \in write_watchpoints
          \/ /\ k = "write" /\ x \in DOMAIN masked_write_watchpoints
             /\ v \in masked_write_watchpoints[x]

\* What really happened: the access is complete, to a device or not.
Witness(k, a, w, v, device) ==
    /\ first_watched' = IF first_watched = None /\ Watched(k, a, w, v)
                        THEN Access(k, a, w) ELSE first_watched
    /\ recent_device' = IF device THEN Access(k, a, w) ELSE recent_device

\* A fast path: a device region is declined after it was cached.
FastAccess(k, a, w, v) ==
    /\ k = "execute" => w = FetchWidth
    /\ LET i == FastRegion(k, a, w)
       IN  /\ i # 0
           /\ region_cache' = [region_cache EXCEPT ![k] = i]
           /\ IF regions[i].device THEN UNCHANGED <<first_watched, recent_device>>
              ELSE Witness(k, a, w, v, FALSE)
    /\ UNCHANGED <<regions, config_vars, watchpoint_hit, last_device_access>>

Denied(a, w) == access_guard # None /\ access_guard \cap (a..(a + w - 1)) # {}

\* read and write: the guard, the region, the access, the report.
SlowAccess(k, a, w, v) ==
    /\ ~Denied(a, w)
    /\ LET found == RegionFor(k, a, w)
           i == found.index
       IN  /\ found.fault = "none"
           /\ region_cache' = [region_cache EXCEPT ![k] = i]
           /\ \/ \* the device refuses, after the region was cached
                 /\ regions[i].device
                 /\ UNCHANGED seen_vars
              \/ /\ watchpoint_hit' =
                       IF MonitorsAccesses /\ watchpoint_hit = None /\ Watched(k, a, w, v)
                       THEN Access(k, a, w) ELSE watchpoint_hit
                 /\ last_device_access' = IF regions[i].device THEN Access(k, a, w)
                                          ELSE last_device_access
                 /\ Witness(k, a, w, v, regions[i].device)
    /\ UNCHANGED <<regions, config_vars>>

Byte == 0..(Base - 1)

BusNext ==
    \/ Len(regions) < MaxRegions /\ \E r \in Regions : InsertRegion(r)
    \/ \E b \in BOOLEAN : SetRecording(b)
    \/ \E g \in Guards \cup {None} : SetAccessGuard(g)
    \/ \E a \in Watchable : AddWatchpoint(a) \/ AddWriteWatchpoint(a)
    \/ \E a \in Watchable, values \in Masks : AddMaskedWriteWatchpoint(a, values)
    \/ ClearWatchpoints
    \/ TakeWatchpointHit
    \/ TakeDeviceAccess
    \/ \E k \in Kinds, a \in Address, w \in Width, v \in Byte :
          FastAccess(k, a, w, v) \/ SlowAccess(k, a, w, v)

BusSpec == BusInit /\ [][BusNext]_bus_vars

-----------------------------------------------------------------------------
(* The byte order of the two ways *)

\* What the n-th byte of a value counts, 1 << (8 * n).
Weight[n \in Nat] == IF n = 0 THEN 1 ELSE Base * Weight[n - 1]

Value == 0..(Weight[FullWidth] - 1)

Digit(v, n) == (v \div Weight[n]) % Base

\* write: byte i of the access, from the value masked to the width.
SlowBytes(v, w) ==
    [i \in 1..w |-> Digit(v % Weight[w], IF BigEndian THEN w - i ELSE i - 1)]

\* The big-endian encoding is cut at the wrong end.
FastBytes_Head(v, w) ==
    LET encoded == [i \in 1..FullWidth |->
                      Digit(v, IF BigEndian THEN FullWidth - i ELSE i - 1)]
    IN  SubSeq(encoded, 1, w)

\* fast_write: the full encoding, cut to the width.
FastBytes(v, w) ==
    LET encoded == [i \in 1..FullWidth |->
                      Digit(v, IF BigEndian THEN FullWidth - i ELSE i - 1)]
    IN  IF BigEndian THEN SubSeq(encoded, FullWidth - w + 1, FullWidth)
        ELSE SubSeq(encoded, 1, w)

-----------------------------------------------------------------------------
(* Properties *)

AccessRecord == [kind : Kinds, address : Address, width : Width]

\* Type invariant.
BusTypeOK ==
    /\ regions \in Seq(Regions)
    /\ \A i \in DOMAIN regions : regions[i].start < regions[i].end /\ regions[i].end \in Address
    /\ region_cache \in [Kinds -> 0..Len(regions)]
    /\ recording \in BOOLEAN
    /\ watchpoints \subseteq Address /\ write_watchpoints \subseteq Address
    /\ DOMAIN masked_write_watchpoints \subseteq Address
    /\ access_guard = None \/ access_guard \subseteq Address
    /\ \A s \in {watchpoint_hit, last_device_access, first_watched, recent_device} :
          s = None \/ s \in AccessRecord

\* The list is sorted and disjoint after any history of mappings, so that
\* partition_point is a lookup at all.
RegionsDisjoint ==
    \A i, j \in DOMAIN regions : i < j => regions[i].end <= regions[j].start

\* What an access means, with neither cache nor order: the one region that
\* holds the first byte decides.
Meaning(k, a, w) ==
    LET holding == {i \in DOMAIN regions : regions[i].start <= a /\ a < regions[i].end}
    IN  IF a + w > AddressMax THEN Fault("boundary")
        ELSE IF holding = {} THEN Fault("unmapped")
        ELSE LET i == CHOOSE i \in holding : TRUE
             IN  IF a + w > regions[i].end THEN Fault("boundary")
                 ELSE IF k \notin regions[i].perms THEN Fault("permission")
                 ELSE Found(i)

\* The cache and the fast paths are invisible: whatever was accessed before
\* and in which order, region_for answers by the map alone, and a fast path
\* that does not decline reaches the region the ordinary one would.
CacheTransparent ==
    \A k \in Kinds, a \in Address, w \in Width :
        /\ RegionFor(k, a, w) = Meaning(k, a, w)
        /\ FastRegion(k, a, w) # 0 => Found(FastRegion(k, a, w)) = Meaning(k, a, w)

HitIsFirstWatched == watchpoint_hit = first_watched
DeviceAccessSeen == last_device_access = recent_device

\* The two notes that the bus leaves for the machine are right.  The pending hit
\* is the first watched access completed since the last clear or take: none
\* slips past a watchpoint on a fast path, and no later one replaces it.  The
\* last device access, by which machines wake their peripherals, misses none.
NotesFaithful == HitIsFirstWatched /\ DeviceAccessSeen

\* Wherever fast_write takes a store, it puts the bytes there that write
\* would, in the same order.
EncodingsAgree ==
    \A w \in Width :
        (\E a \in Address : FastRegion("write", a, w) # 0) =>
            \A v \in Value : FastBytes(v, w) = SlowBytes(v, w)
=============================================================================
