------------------------------ MODULE MCPoses ------------------------------
(***************************************************************************)
(* A pose on its way to a screen, in two parts that share no state here: a *)
(* behaviour is one of PoseStream's, up to the stores of host and viewer,   *)
(* or one of Puppet's, from the store on.                                   *)
(***************************************************************************)
EXTENDS PoseStream, Puppet

VARIABLE part       \* which

PosesInit == part \in {"stream", "puppet"} /\ Init /\ PuppetInit

PosesNext ==
    /\ UNCHANGED part
    /\ \/ part = "stream" /\ Next /\ UNCHANGED puppetVars
       \/ part = "puppet" /\ PuppetNext /\ UNCHANGED vars

PosesSpec ==
    /\ PosesInit
    /\ [][PosesNext]_<<part, vars, puppetVars>>
    /\ PuppetFairness       \* in an initial state it asks for nothing
=============================================================================
