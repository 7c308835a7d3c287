-------------------------- MODULE SealedStoreLive --------------------------
(***************************************************************************)
(* SealedStore with a moment from which no call comes in and the process   *)
(* does not end any more, to say what must have happened some time later.  *)
(***************************************************************************)
EXTENDS SealedStore

VARIABLE calm   \* that moment has come (no step of the store reads it)

liveVars == <<vars, calm>>

CalmDown ==
    /\ ~calm /\ calm' = TRUE
    /\ UNCHANGED vars

\* What is under way goes on, and the sealer with it.
GoOn ==
    \/ \E w \in Writers : WriterStep(w) \/ Drop(w)
    \/ \E now \in Times : SealPass(now)
    \/ SealerStep

LiveNext ==
    \/ ~calm /\ Next /\ UNCHANGED calm
    \/ CalmDown
    \/ calm /\ GoOn /\ UNCHANGED calm

LiveInit == Init /\ calm = FALSE

LiveSpec == LiveInit /\ [][LiveNext]_liveVars /\ Fairness

-----------------------------------------------------------------------------
\* Once writes and restarts stop, every settled epoch that has rows gets a
\* record and keeps it: "the epoch is resealed on a later pass".
Sealable(e) == DataOf(e) # {} /\ \E now \in Times : Settled(e, now)
EventuallySealed ==
    <>calm => <>[](\A e \in Epochs : Sealable(e) => record[e] # NoRecord)

\* The same but for the epochs of a dropped call, whose marks are not given
\* back, or whose record is deleted and epoch still taken for sealed: what it
\* leaves behind keeps nobody from sealing another epoch.
Abandoned(e) == \E w \in Writers : pc[w] = "dropped" /\ e \in EpochsOf(rows[w])
OthersSealed ==
    <>calm => <>[](\A e \in Epochs :
                     Sealable(e) /\ ~Abandoned(e) => record[e] # NoRecord)
=============================================================================
