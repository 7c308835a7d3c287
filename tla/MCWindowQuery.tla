--------------------------- MODULE MCWindowQuery ---------------------------
(* WindowQuery on small instances. *)
EXTENDS WindowQuery

Query(c, r, s, e) == [centre |-> c, radius |-> r, start |-> s, end |-> e]

\* With two bits an axis and grid points 4 apart, from -6 to 6: centres on, at
\* and between grid points and past the edge; radii from a point to more than
\* everything.
Coords == {-9, -4, 0, 1, 6}
SpaceQueries ==
    {Query(<<x, y, z>>, r, 1, 2) : x \in Coords, y \in {-4, 6}, z \in {-6, 1},
                                   r \in {0, 1, 3, 4, 6, 8}}

\* Every window over three epochs of two seconds, also one that ends before it
\* starts, and spheres that reach the first and the last corner of a cell.
TimeQueries ==
    {Query(<<x, 0, z>>, r, w[1], w[2]) : x \in {-4, 6}, z \in {-6, 6}, r \in {3},
        w \in {v \in (0..5) \X (0..5) : v[1] <= v[2] + 1}}
MCQueries == SpaceQueries \union TimeQueries
LastSecond == {Query(<<6, 6, 6>>, 3, 1, s) : s \in {1, 2}}

\* Observations past the edge, on the grid, half way between two of its points
\* and nearer to the one or the other.
MCCoordinates == {-8, -1, 0, 5, 6}

\* Two rows of one epoch, the one of the smaller Morton code made later, and a
\* third in the next epoch.  One batch replaces a row and adds another.
At(x, y, z, secs, tick) ==
    GenerateKey(Denormalize(x), Denormalize(y), Denormalize(z), secs, tick)
P1 == At(1, 2, 1, 1, 1)
P2 == At(2, 1, 2, 1, 0)
P3 == At(1, 1, 2, 2, 0)
MCBatches == {{<<P1, 1>>}, {<<P1, 2>>, <<P2, 1>>, <<P3, 1>>}}
MCItems == UNION MCBatches
=============================================================================
