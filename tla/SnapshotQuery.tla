--------------------------- MODULE SnapshotQuery ---------------------------
(***************************************************************************)
(* What a query promises, of a server (WindowQuery) as of a browser        *)
(* (BrowserWorker): its answer is what the store held of the rows asked    *)
(* for at one moment after it was asked.  A batch of rows a writer commits *)
(* is in it as a whole or not at all, and one whose call returned before   *)
(* the question was put is.  The answer is handed over bit by bit, and     *)
(* only a whole one ends well.                                             *)
(***************************************************************************)
CONSTANTS
    Items,      \* the rows a store can hold: <<key, payload>> pairs
    Batches,    \* the sets of rows writers commit
    Clearable   \* a caller may clear the store

VARIABLES
    stored,     \* the rows held
    wanted,     \* the rows the query asks for, whether they are held or not
    taken,      \* the answer has been taken from the store
    answer,     \* it
    shown,      \* what the caller has got of it
    outcome     \* "open", "complete" or "failed"

queryVars == <<stored, wanted, taken, answer, shown, outcome>>

\* A row replaces the one of its key.
Over(held, batch) ==
    batch \union {i \in held : \A j \in batch : i[1] # j[1]}

Init ==
    /\ stored = {} /\ wanted = {}
    /\ taken = FALSE /\ answer = {} /\ shown = {}
    /\ outcome = "open"

Write(batch) ==
    /\ stored' = Over(stored, batch)
    /\ UNCHANGED <<wanted, taken, answer, shown, outcome>>

Clear ==
    /\ Clearable
    /\ stored' = {}
    /\ UNCHANGED <<wanted, taken, answer, shown, outcome>>

Ask ==
    /\ ~taken /\ wanted = {}
    /\ wanted' \in SUBSET Items
    /\ UNCHANGED <<stored, taken, answer, shown, outcome>>

Take ==
    /\ ~taken
    /\ taken' = TRUE
    /\ answer' = wanted \intersect stored
    /\ UNCHANGED <<stored, wanted, shown, outcome>>

Show ==
    /\ taken /\ outcome = "open"
    /\ shown' \in SUBSET answer /\ shown \subseteq shown'
    /\ UNCHANGED <<stored, wanted, taken, answer, outcome>>

Complete ==
    /\ taken /\ outcome = "open" /\ shown = answer
    /\ outcome' = "complete"
    /\ UNCHANGED <<stored, wanted, taken, answer, shown>>

Fail ==
    /\ outcome = "open"
    /\ outcome' = "failed"
    /\ UNCHANGED <<stored, wanted, taken, answer, shown>>

Next ==
    \/ \E batch \in Batches : Write(batch)
    \/ Clear \/ Ask \/ Take \/ Show \/ Complete \/ Fail

Spec == Init /\ [][Next]_queryVars
=============================================================================
