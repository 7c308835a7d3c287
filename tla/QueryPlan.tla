----------------------------- MODULE QueryPlan -----------------------------
(***************************************************************************)
(* HybridSpatioTemporalIndexer (crates/interstellar-index/src/lib.rs): the *)
(* keys of observations and the key ranges of a query, in small numbers:   *)
(* AxisBits for 21, Ticks for the nanoseconds of a second, a word of       *)
(* 3 * AxisBits + 1 bits for the u64 of a Morton code, whose top bit is    *)
(* never set.                                                              *)
(*                                                                         *)
(* Coordinates are integers, Scale apart on the grid the axis integers     *)
(* stand for, so what is a float in the code is exact here.  Observations  *)
(* are made on the grid, between its points and past the edge of the space;*)
(* a key holds the grid point they are rounded to.                         *)
(***************************************************************************)
EXTENDS Integers, Sequences, FiniteSets

CONSTANTS
    AxisBits,   \* bits of an axis integer
    Scale,      \* distance of neighbouring grid points, even
    EpochSecs,  \* epoch_duration
    Ticks,      \* timestamp units of a second
    Coordinates,\* the coordinates observations are made at
    Seconds     \* the seconds they are made in

Word == 3 * AxisBits + 1
Pow2[n \in 0..Word] == IF n = 0 THEN 1 ELSE 2 * Pow2[n - 1]
AxisMax == Pow2[AxisBits] - 1
MaxRange == (Scale * AxisMax) \div 2
MaxOffset == EpochSecs * Ticks      \* above every offset, as u64::MAX is

ASSUME IndexerAssumption ==
    /\ {AxisBits, EpochSecs, Ticks, Scale} \subseteq Nat \ {0} /\ Scale % 2 = 0
    /\ Coordinates \subseteq Int /\ Seconds \subseteq Nat

Axes == 0..AxisMax
Observations ==
    [x : Coordinates, y : Coordinates, z : Coordinates,
     secs : Seconds, tick : 0..Ticks - 1]

-----------------------------------------------------------------------------
(* Slips: operations below with one plausible mistake in them. *)

\* A cell may be narrower than the search.
LevelCeil(radius) ==
    LET fits == {a \in 1..AxisBits : Pow2[a - 1] * radius <= MaxRange}
    IN IF fits = {} THEN 1 ELSE CHOOSE a \in fits : \A b \in fits : b <= a

\* The walk starts at the corner of the box instead of at a cell's.
CornersUnsnapped(lo, hi, a) ==
    LET step == Pow2[AxisBits - a] IN {v \in lo..hi : (v - lo) % step = 0}

\* The bits below the cell are left in its prefix.
PrefixRaw(m, a) == m

\* The window's first offset holds for every epoch.
OffsetLoAlways(e, q) == (q.start % EpochSecs) * Ticks

-----------------------------------------------------------------------------
(* Keys *)

Clamp(v) == IF v < -MaxRange THEN -MaxRange ELSE IF v > MaxRange THEN MaxRange ELSE v

\* Axis integers are cut off instead of rounded: a slip.
NormalizeDown(v) == (Clamp(v) + MaxRange) \div Scale

\* To the nearest axis integer, halves up; and back.
Normalize(v) == (2 * (Clamp(v) + MaxRange) + Scale) \div (2 * Scale)
Denormalize(n) == n * Scale - MaxRange

Bit(v, i) == (v \div Pow2[i]) % 2
Octal(x, y, z, i) == 4 * Bit(x, i) + 2 * Bit(y, i) + Bit(z, i)
Morton(x, y, z) ==
    LET low[i \in 0..AxisBits] ==
          IF i = 0 THEN 0
          ELSE low[i - 1] + Pow2[3 * (i - 1)] * Octal(x, y, z, i - 1)
    IN low[AxisBits]
AxisOf(morton, o) ==
    LET low[i \in 0..AxisBits] ==
          IF i = 0 THEN 0
          ELSE low[i - 1] + Pow2[i - 1] * Bit(morton, 3 * (i - 1) + o)
    IN low[AxisBits]

GenerateKey(x, y, z, secs, tick) ==
    [epoch |-> secs \div EpochSecs,
     morton |-> Morton(Normalize(x), Normalize(y), Normalize(z)),
     offset |-> (secs % EpochSecs) * Ticks + tick]

DecodeKey(key) ==
    LET total == key.epoch * EpochSecs * Ticks + key.offset
    IN [x |-> Denormalize(AxisOf(key.morton, 2)),
        y |-> Denormalize(AxisOf(key.morton, 1)),
        z |-> Denormalize(AxisOf(key.morton, 0)),
        secs |-> total \div Ticks, tick |-> total % Ticks]

\* The key an observation is stored under.
KeyOf == [o \in Observations |-> GenerateKey(o.x, o.y, o.z, o.secs, o.tick)]

\* The order of the keys' bytes.
AtMost(k, l) ==
    \/ k.epoch < l.epoch
    \/ k.epoch = l.epoch /\ k.morton < l.morton
    \/ k.epoch = l.epoch /\ k.morton = l.morton /\ k.offset <= l.offset
InRange(key, r) == AtMost(r.first, key) /\ AtMost(key, r.last)

-----------------------------------------------------------------------------
(* Range planning *)

\* calculate_optimal_depth / 3: halve while a cell is as wide as the search.
LevelFor(radius) ==
    LET fits == {a \in 1..AxisBits : Pow2[a] * radius <= MaxRange}
    IN IF fits = {} THEN 1 ELSE CHOOSE a \in fits : \A b \in fits : b <= a

\* The corners of the cells of width step that meet lo..hi.
Corners(lo, hi, a) ==
    LET step == Pow2[AxisBits - a]
    IN {v \in (lo \div step) * step..hi : v % step = 0}

Mask(a) == Pow2[Word - 3 * a] - 1
Prefix(m, a) == (m \div Pow2[Word - 3 * a]) * Pow2[Word - 3 * a]

SpatialPrefixes(q, a) ==
    LET Along(i) == Corners(Normalize(q.centre[i] - q.radius),
                            Normalize(q.centre[i] + q.radius), a)
    IN {Prefix(Morton(x, y, z), a) : x \in Along(1), y \in Along(2), z \in Along(3)}

Cell(e, prefix, lo, hi, a) ==
    [first |-> [epoch |-> e, morton |-> prefix, offset |-> lo],
     last |-> [epoch |-> e, morton |-> prefix + Mask(a), offset |-> hi]]

\* get_boundary_protected_ranges, for the epoch of q.start.
EpochRanges(q) ==
    LET a == LevelFor(q.radius)
    IN {Cell(q.start \div EpochSecs, prefix, 0, MaxOffset, a) :
          prefix \in SpatialPrefixes(q, a)}

\* get_boundary_protected_ranges_time_window.
OffsetLo(e, q) ==
    IF e = q.start \div EpochSecs THEN (q.start % EpochSecs) * Ticks ELSE 0
OffsetHi(e, q) ==
    IF e = q.end \div EpochSecs THEN (q.end % EpochSecs) * Ticks ELSE MaxOffset
WindowRanges(q) ==
    LET a == LevelFor(q.radius)
    IN {Cell(e, prefix, OffsetLo(e, q), OffsetHi(e, q), a) :
          e \in (q.start \div EpochSecs)..(q.end \div EpochSecs),
          prefix \in SpatialPrefixes(q, a)}

-----------------------------------------------------------------------------
(* The exact filters on what a scan finds *)

InSphere(o, q) ==
    LET dx == o.x - q.centre[1]
        dy == o.y - q.centre[2]
        dz == o.z - q.centre[3]
    IN dx * dx + dy * dy + dz * dz <= q.radius * q.radius
InTime(o, q) == q.start <= o.secs /\ o.secs <= q.end
=============================================================================
