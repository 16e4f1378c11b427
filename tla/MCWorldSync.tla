---------------------------- MODULE MCWorldSync ----------------------------
(***************************************************************************)
(* Weather, the flashlight and the NPCs, which share no state: a behaviour *)
(* is one of Weather's, one of Flashlight's in which one player's lamp is  *)
(* touched and looked at, or one of Npc's.                                 *)
(***************************************************************************)
EXTENDS Weather, Flashlight, Npc

VARIABLE part       \* which

Parts == {"weather", "hostLamp", "clientLamp", "npc"}

(* Nobody's lamp but p's is touched or looked at.  The host's lamp has one *)
(* stretch to go, on which one message at a time is enough.                *)
OnlyLamp(p) ==
    /\ \A q \in LampPlayers \ {p} :
          lamp'[q] = lamp[q] /\ \A v \in LampPlayers : puppet'[v][q] = puppet[v][q]
    /\ p = 0 => \A c \in LampClients : Len(down'[c]) <= 1

WorldInit == part \in Parts /\ WeatherInit /\ FlashlightInit /\ NpcInit

WorldNext ==
    /\ UNCHANGED part
    /\ \/ /\ part = "weather" /\ WeatherNext
          /\ UNCHANGED <<lampVars, npcVars>>
       \/ /\ part \in {"hostLamp", "clientLamp"} /\ FlashlightNext
          /\ OnlyLamp(IF part = "hostLamp" THEN 0 ELSE 1)
          /\ UNCHANGED <<weatherVars, npcVars>>
       \/ /\ part = "npc" /\ NpcNext
          /\ UNCHANGED <<weatherVars, lampVars>>

WorldSpec ==
    /\ WorldInit
    /\ [][WorldNext]_<<part, weatherVars, lampVars, npcVars>>
    /\ part = "weather" => WeatherFairness

(* The types of the part that moves; the others keep their initial state.  *)
WorldTypeOK ==
    /\ part = "weather" => WeatherTypeOK
    /\ part \in {"hostLamp", "clientLamp"} => FlashlightTypeOK
    /\ part = "npc" => NpcTypeOK
=============================================================================
