------------------------------- MODULE Cells -------------------------------
(***************************************************************************)
(* Morton cells.  A key's Path is its Morton code cut into octal digits,   *)
(* most significant first, down to the deepest level any forest uses; a    *)
(* cell at level l (depth_bits = 3 * l) is an epoch and the first l digits *)
(* of a path, (morton >> (64 - 3l)) << (64 - 3l) in the code.  Only the    *)
(* cells on some key's path are named: the others are empty everywhere.    *)
(***************************************************************************)
EXTENDS Rows

CONSTANTS
    Path,       \* the octal digits of each key's Morton code
    Levels      \* how many of them

ASSUME PathAssumption ==
    Levels \in Nat \ {0} /\ Path \in [Keys -> [1..Levels -> 0..7]]

CellAt(k, l) == <<KeyEpoch[k], SubSeq(Path[k], 1, l)>>
Level(c) == Len(c[2])
Root(e) == <<e, <<>>>>

CellsAt(l) == {CellAt(k, l) : k \in Keys}
CellsTo(l) == UNION {CellsAt(m) : m \in 0..l}

\* The items whose key lies in cell c.
Below(items, c) == {i \in items : CellAt(i[1], Level(c)) = c}

Children(c) ==
    {d \in CellsAt(Level(c) + 1) : <<d[1], SubSeq(d[2], 1, Level(c))>> = c}
=============================================================================
