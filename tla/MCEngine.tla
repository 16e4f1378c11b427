------------------------------ MODULE MCEngine ------------------------------
(***************************************************************************)
(* What hangs on the engine's threads and addresses: the observer table    *)
(* and the prop tracker, which share no state here.  A behaviour is one of *)
(* either.  Two subsystems observe one function and two functions share a  *)
(* callback; three slots hold all pairs, so that holes come and go.        *)
(***************************************************************************)
EXTENDS ObserverTable, PropTracker

CONSTANTS f1, f2, a, b

MCObservers == {<<f1, a>>, <<f1, b>>, <<f2, b>>}

VARIABLE part       \* which

EngineInit ==
    /\ part \in {"table", "tracker"}
    /\ Init /\ TrackerInit

EngineNext ==
    /\ UNCHANGED part
    /\ \/ part = "table" /\ Next /\ UNCHANGED trackerVars
       \/ part = "tracker" /\ TrackerNext /\ UNCHANGED vars

EngineSpec ==
    /\ EngineInit
    /\ [][EngineNext]_<<part, vars, trackerVars>>
    /\ WF_trackerVars(part = "tracker" /\ Tick)
    /\ WF_trackerVars(part = "tracker" /\ TakeStruckOff)
=============================================================================
