-------------------------- MODULE MCBrowserWorker --------------------------
(* BrowserWorker on small instances. *)
EXTENDS BrowserWorker

\* Two bits an axis: grid points 6 apart from -9 to 9, or 2 apart from -3 to 3;
\* observations are made at points of both.
Wide == [scale |-> 6, epochSecs |-> 2]
Narrow == [scale |-> 2, epochSecs |-> 2]

\* A batch across both epochs, and one that replaces a row of it.
Observation(x, secs, label) ==
    [x |-> x, y |-> 3, z |-> 3, secs |-> secs, tick |-> 0, label |-> label]
Store(records) == [op |-> "store", records |-> records]
Two == Store(<<Observation(-3, 1, "a"), Observation(3, 2, "a")>>)
Again == Store(<<Observation(3, 2, "b")>>)
Once == Store(<<Observation(3, 1, "a")>>)

Query(op, x, r, s, e) ==
    [op |-> op, query |-> [centre |-> <<x, 3, 3>>, radius |-> r, start |-> s, end |-> e]]
Near == Query("epoch", -3, 3, 1, 1)
All == Query("window", 0, 3, 0, 3)

Config(g) == [op |-> "config", config |-> g]
Count == [op |-> "count"]
Clear == [op |-> "clear"]

OneConfig == {Wide}
MCSessions == {
    <<Two, All, Again>>, <<Two, Again, All>>, <<All, Two, Again>>,
    <<Two, Near, Clear>>, <<Clear, Two, All>>, <<Two, Clear, Again>>,
    <<Config(Wide), Two, Near>>, <<Two, Count, Clear>>, <<Count, All, Two>>}

BothConfigs == {Wide, Narrow}
Reseeded == {<<Once, Query("window", 3, 1, 0, 3), Config(Narrow)>>}
=============================================================================
