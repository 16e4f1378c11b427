------------------------------ MODULE Weather ------------------------------
(***************************************************************************)
(* Weather, red sky and lightning: weather_sync.cpp, weather_redsky.cpp,   *)
(* weather_lightning.cpp and the handlers of event_feed.cpp.               *)
(*                                                                         *)
(* The engine keeps the weather in one actor, the daynightCycle, which is  *)
(* gone while no level is loaded.  The host observes eight engine          *)
(* functions that change it and announces what changed; a client cancels   *)
(* five of them, the schedulers, and applies what it is told, or stashes   *)
(* it until it can.                                                        *)
(*                                                                         *)
(* A tick of the host's game thread is one step: nothing of it depends on  *)
(* what the network does meanwhile.  A client's tick is a series of steps, *)
(* one per message; engine code runs only between ticks.  A level stands   *)
(* for what comes and goes with it: cycle, game mode and local player.     *)
(*                                                                         *)
(* A client is a process; after it has left, its slot is taken again, but  *)
(* not before the host's tick has seen it free (HostTick has what happens  *)
(* otherwise).                                                             *)
(***************************************************************************)
EXTENDS Naturals, Sequences

CONSTANTS
    Clients,
    Skies,          \* the states a daynightCycle can be in
    NoSky,          \* no level, no stash, nothing sent (kNoSendYet)
    MaxWire         \* bound: messages on their way to one client

ASSUME WeatherAssumption == NoSky \notin Skies /\ MaxWire \in Nat

VARIABLES
    hostSky,        \* the host's daynightCycle
    hostRed,        \* the host's redSky actor: "none", "red" or "clear"
    hostLoaded,     \* content classes loaded in the host process
    hostInstalled,  \* weather_sync g_installed on the host
    observing,      \* the POST observers that are registered
    everObserved,   \* ghost: those that have been
    lastSent,       \* g_lastSentSig
    ready,          \* the clients whose slot is ready
    seen,           \* g_wasConnectedBySlot
    wire,           \* wire[c]: messages to c, in the order of their lane
    told,           \* ghost: the last weather sent to c
    sky, red,       \* the client's daynightCycle and redSky actor
    installed,      \* g_installed
    pending,        \* g_pendingApplyPayload, NoSky unless g_pendingApply
    busy,           \* the client is in its tick
    heard,          \* ghost: weather has come that this level shows or will
    raced,          \* ghost: weather was applied past a stashed one
    strayed         \* ghost: its own game has changed the sky since it was told

hostVars == <<hostSky, hostRed, hostLoaded, hostInstalled, observing,
              everObserved, lastSent>>
linkVars == <<ready, seen, wire, told>>
clientVars == <<sky, red, installed, pending, busy, heard, raced, strayed>>
weatherVars == <<hostVars, linkVars, clientVars>>

ContentClasses == {"redSky", "strike"}
WeatherObservers == {"sky", "redSpawn", "redSet", "strike"}

WeatherMsg(s) == [kind |-> "WeatherState", value |-> s]
RedSkyMsg(r) == [kind |-> "RedSky", value |-> r]
StrikeMsg == [kind |-> "LightningStrike"]
WeatherMessages ==
    {WeatherMsg(s) : s \in Skies} \cup {RedSkyMsg(r) : r \in {"red", "clear"}}
        \cup {StrikeMsg}

Room(n) == \A c \in ready : Len(wire[c]) + n <= MaxWire

WeatherInit ==
    /\ hostSky = NoSky /\ hostRed = "none" /\ hostLoaded = {}
    /\ hostInstalled = FALSE /\ observing = {} /\ everObserved = {}
    /\ lastSent = NoSky
    /\ ready = {} /\ seen = {}
    /\ wire = [c \in Clients |-> <<>>]
    /\ told = [c \in Clients |-> NoSky]
    /\ sky = [c \in Clients |-> NoSky]
    /\ red = [c \in Clients |-> "none"]
    /\ installed = [c \in Clients |-> FALSE]
    /\ pending = [c \in Clients |-> NoSky]
    /\ busy = [c \in Clients |-> FALSE]
    /\ heard = [c \in Clients |-> FALSE]
    /\ raced = [c \in Clients |-> FALSE]
    /\ strayed = [c \in Clients |-> FALSE]

-----------------------------------------------------------------------------
(* The host's engine. *)

(* SendReliable: every client whose slot is ready. *)
Announce(ms) ==
    wire' = [c \in Clients |-> IF c \in ready THEN wire[c] \o ms ELSE wire[c]]

Unless(last, s) == IF s = last THEN <<>> ELSE <<WeatherMsg(s)>>

(* OnSchedulerPost, after observed engine functions have left the sky in   *)
(* state s; ms is what its dedup lets through. *)
Observed(s, ms) ==
    /\ hostSky # NoSky /\ hostSky' = s
    /\ Room(Len(ms))
    /\ IF "sky" \in observing /\ ready # {}
       THEN /\ Announce(ms)
            /\ lastSent' = s
            /\ told' = [c \in Clients |-> IF ms # <<>> /\ c \in ready THEN s ELSE told[c]]
       ELSE UNCHANGED <<wire, lastSent, told>>
    /\ UNCHANGED <<hostRed, hostLoaded, hostInstalled, observing, everObserved,
                   ready, seen, clientVars>>

(* A scheduler or a mutator. *)
SkyChanges(s) == Observed(s, Unless(lastSent, s))

(* DebugForceSnow, at the host's hotkey. *)
ForceSnow(s) == hostInstalled /\ SkyChanges(s)

(* DebugForceRain: setRainProperties, then causeRain, which rolls again. *)
ForceRain(s, t) ==
    hostInstalled /\ Observed(t, Unless(lastSent, s) \o Unless(s, t))

(* Engine code changes the sky, and no dispatch of the eight shows it. *)
SkyChangesSilently(s) ==
    /\ hostSky # NoSky /\ hostSky' = s
    /\ UNCHANGED <<hostRed, hostLoaded, hostInstalled, observing, everObserved,
                   lastSent, linkVars, clientVars>>

(* A level comes, with content classes or without, and goes. *)
HostLoads(s, classes) ==
    /\ hostSky = NoSky /\ hostSky' = s
    /\ hostLoaded' = hostLoaded \cup classes
    /\ UNCHANGED <<hostRed, hostInstalled, observing, everObserved, lastSent,
                   linkVars, clientVars>>

HostUnloads ==
    /\ hostSky # NoSky /\ hostSky' = NoSky /\ hostRed' = "none"
    /\ UNCHANGED <<hostLoaded, hostInstalled, observing, everObserved, lastSent,
                   linkVars, clientVars>>

(* An event of the host's world.  Its class is loaded by the time of it;   *)
(* its observer sends if it is registered and Install has set its session. *)
Event(class, observer, msg) ==
    /\ hostSky # NoSky
    /\ Room(1)
    /\ hostLoaded' = hostLoaded \cup {class}
    /\ IF observer \in observing /\ hostInstalled
       THEN Announce(<<msg>>) ELSE UNCHANGED wire
    /\ UNCHANGED <<hostSky, hostInstalled, observing, everObserved, lastSent,
                   ready, seen, told, clientVars>>

SpawnRedSky ==
    /\ hostRed = "none" /\ hostRed' = "red"
    /\ Event("redSky", "redSpawn", RedSkyMsg("red"))

SetRedSky(r) ==
    /\ hostRed # "none" /\ hostRed' = r
    /\ Event("redSky", "redSet", RedSkyMsg(r))

(* DebugForce: spawnRedSky if there is no actor, and set on the actor.     *)
ForceRedSky(r) ==
    LET spawns == hostRed = "none"
        says(o) == IF o \in observing /\ hostInstalled THEN <<RedSkyMsg(r)>> ELSE <<>>
        msgs == (IF spawns THEN says("redSpawn") ELSE <<>>) \o says("redSet")
    IN  /\ hostSky # NoSky /\ (spawns => r = "red")
        /\ Room(Len(msgs))
        /\ hostRed' = r /\ hostLoaded' = hostLoaded \cup {"redSky"}
        /\ Announce(msgs)
        /\ UNCHANGED <<hostSky, hostInstalled, observing, everObserved, lastSent,
                       ready, seen, told, clientVars>>

Strike == Event("strike", "strike", StrikeMsg) /\ UNCHANGED hostRed

-----------------------------------------------------------------------------
(* The host's tick. *)

(* weather_redsky::RegisterHostObservers: spawnRedSky is the game mode's,  *)
(* set belongs to a class that may not be loaded yet. *)
RedObservers(had) ==
    IF had # {} THEN had
    ELSE {"redSpawn"} \cup (IF "redSky" \in hostLoaded THEN {"redSet"} ELSE {})

(* weather_lightning::RegisterHostObserver. *)
StrikeObserver(had) == IF "strike" \in hostLoaded THEN {"strike"} ELSE had

(* Install; had is what is registered already. *)
InstalledObservers(had) ==
    {"sky"} \cup RedObservers(had \cap {"redSpawn", "redSet"})
            \cup StrikeObserver(had \cap {"strike"})

(* Mutant: OnDisconnect leaves g_installed set, and its observers are gone. *)
StaysInstalled(dropped) == hostInstalled

(* QueueConnectBroadcastForSlot has a session and a live cycle to read.    *)
Replayed ==
    IF "sky" \in observing /\ hostSky # NoSky THEN ready \ seen ELSE {}

(* OnDisconnect clears g_installed. *)
GoesOnInstalled(dropped) == hostInstalled /\ ~dropped

(* OnDisconnect of red sky and lightning: their observers go, the others   *)
(* stay. *)
KeptObservers(dropped) ==
    IF dropped THEN observing \cap {"sky"} ELSE observing

(* net_pump::Tick: the replay at every ready edge, OnDisconnect if all are *)
(* gone, Install if there is a local player. *)
HostTick ==
    LET dropped == seen # {} /\ ready = {}
        had == KeptObservers(dropped)
        stays == GoesOnInstalled(dropped)
    IN  /\ \A c \in Replayed : Len(wire[c]) < MaxWire
        /\ wire' = [c \in Clients |->
              IF c \in Replayed THEN Append(wire[c], WeatherMsg(hostSky)) ELSE wire[c]]
        /\ told' = [c \in Clients |-> IF c \in Replayed THEN hostSky ELSE told[c]]
        /\ lastSent' = IF dropped THEN NoSky
                       ELSE IF Replayed # {} THEN hostSky ELSE lastSent
        /\ hostInstalled' = (stays \/ hostSky # NoSky)
        /\ observing' = IF stays \/ hostSky = NoSky THEN had
                        ELSE InstalledObservers(had)
        /\ everObserved' = everObserved \cup observing'
        /\ seen' = ready
        /\ UNCHANGED <<hostSky, hostRed, hostLoaded, ready, clientVars>>

-----------------------------------------------------------------------------
(* Clients. *)

Join(c) ==
    /\ c \notin ready \cup seen
    /\ ready' = ready \cup {c}
    /\ UNCHANGED <<hostVars, seen, wire, told, clientVars>>

(* The process ends, or will not connect again. *)
Leave(c) ==
    /\ c \in ready /\ ready' = ready \ {c}
    /\ wire' = [wire EXCEPT ![c] = <<>>]
    /\ told' = [told EXCEPT ![c] = NoSky]
    /\ sky' = [sky EXCEPT ![c] = NoSky]
    /\ red' = [red EXCEPT ![c] = "none"]
    /\ installed' = [installed EXCEPT ![c] = FALSE]
    /\ pending' = [pending EXCEPT ![c] = NoSky]
    /\ busy' = [busy EXCEPT ![c] = FALSE]
    /\ heard' = [heard EXCEPT ![c] = FALSE]
    /\ raced' = [raced EXCEPT ![c] = FALSE]
    /\ strayed' = [strayed EXCEPT ![c] = FALSE]
    /\ UNCHANGED <<hostVars, seen>>

(* A new level begins with weather of its own; a stash outlives the old.   *)
ClientLoads(c, s) ==
    /\ c \in ready /\ ~busy[c] /\ sky[c] = NoSky
    /\ sky' = [sky EXCEPT ![c] = s]
    /\ heard' = [heard EXCEPT ![c] = pending[c] # NoSky]
    /\ strayed' = [strayed EXCEPT ![c] = FALSE]
    /\ UNCHANGED <<hostVars, linkVars, red, installed, pending, busy, raced>>

ClientUnloads(c) ==
    /\ c \in ready /\ ~busy[c] /\ sky[c] # NoSky
    /\ sky' = [sky EXCEPT ![c] = NoSky]
    /\ red' = [red EXCEPT ![c] = "none"]
    /\ UNCHANGED <<hostVars, linkVars, installed, pending, busy, heard, raced, strayed>>

(* Mutant: the interceptors are not there.                                 *)
NeverSuppressed(c) == FALSE

(* OnSchedulerPreSuppress is registered on the five schedulers, and        *)
(* cancels them.  The mutators stay free: causeRain's interceptor lets     *)
(* every call pass but the one that ApplyFromHost makes. *)
Suppressed(c) == installed[c]

(* One of the client's own schedulers fires. *)
OwnSky(c, s) ==
    /\ c \in ready /\ ~busy[c] /\ sky[c] # NoSky /\ ~Suppressed(c)
    /\ sky' = [sky EXCEPT ![c] = s]
    /\ UNCHANGED <<hostVars, linkVars, red, installed, pending, busy, heard, raced, strayed>>

(* A story event of the client's game calls a mutator, or engine code      *)
(* changes the sky without a call: nothing of the client cancels that. *)
OwnEvent(c, s) ==
    /\ c \in ready /\ ~busy[c] /\ sky[c] # NoSky
    /\ sky' = [sky EXCEPT ![c] = s]
    /\ strayed' = [strayed EXCEPT ![c] = TRUE]
    /\ UNCHANGED <<hostVars, linkVars, red, installed, pending, busy, heard, raced>>

(* Mutant: the stash is drained by the tick that installs, and no other.   *)
DrainsWhenInstalling(c) == pending[c] # NoSky /\ sky[c] # NoSky /\ ~installed[c]

(* TickConnect finds a stash and everything it takes to apply it. *)
Drains(c) == pending[c] # NoSky /\ sky[c] # NoSky /\ installed[c]

(* The tick begins: TickConnect, then Install if there is a local player.  *)
TickBegins(c) ==
    /\ c \in ready /\ ~busy[c]
    /\ busy' = [busy EXCEPT ![c] = TRUE]
    /\ sky' = [sky EXCEPT ![c] = IF Drains(c) THEN pending[c] ELSE @]
    /\ pending' = [pending EXCEPT ![c] = IF Drains(c) THEN NoSky ELSE @]
    /\ installed' = [installed EXCEPT ![c] = @ \/ sky[c] # NoSky]
    /\ strayed' = [strayed EXCEPT ![c] = @ /\ ~Drains(c)]
    /\ UNCHANGED <<hostVars, linkVars, red, heard, raced>>

(* The next message has arrived, and its handler's task runs. *)
Arrives(c, kind) ==
    /\ c \in ready /\ busy[c]
    /\ wire[c] # <<>> /\ Head(wire[c]).kind = kind
    /\ wire' = [wire EXCEPT ![c] = Tail(@)]

(* ApplyFromHost finds its functions and a live cycle; else it stashes.    *)
AppliesNow(c) == installed[c] /\ sky[c] # NoSky

HandleWeather(c) ==
    /\ Arrives(c, "WeatherState")
    /\ LET s == Head(wire[c]).value
           applies == AppliesNow(c)
       IN  /\ sky' = [sky EXCEPT ![c] = IF applies THEN s ELSE @]
           /\ pending' = [pending EXCEPT ![c] = IF applies THEN @ ELSE s]
           /\ heard' = [heard EXCEPT ![c] = TRUE]
           /\ raced' = [raced EXCEPT ![c] = applies /\ pending[c] # NoSky]
           /\ strayed' = [strayed EXCEPT ![c] = @ /\ ~applies]
    /\ UNCHANGED <<hostVars, ready, seen, told, red, installed, busy>>

(* weather_redsky::Apply: nothing without a live game mode; off without an *)
(* actor changes nothing. *)
RedSkyApplied(c, r) ==
    IF sky[c] # NoSky /\ (r = "red" \/ red[c] # "none") THEN r ELSE red[c]

HandleRedSky(c) ==
    /\ Arrives(c, "RedSky")
    /\ red' = [red EXCEPT ![c] = RedSkyApplied(c, Head(wire[c]).value)]
    /\ UNCHANGED <<hostVars, ready, seen, told, sky, installed, pending, busy,
                   heard, raced, strayed>>

(* weather_lightning::Apply spawns an actor that ends by itself, if its    *)
(* class was loaded when the client installed; no state depends on it. *)
HandleStrike(c) ==
    /\ Arrives(c, "LightningStrike")
    /\ UNCHANGED <<hostVars, ready, seen, told, clientVars>>

TickEnds(c) ==
    /\ c \in ready /\ busy[c]
    /\ busy' = [busy EXCEPT ![c] = FALSE]
    /\ UNCHANGED <<hostVars, linkVars, sky, red, installed, pending, heard, raced, strayed>>

-----------------------------------------------------------------------------
ClientTick(c) ==
    \/ TickBegins(c) \/ TickEnds(c)
    \/ HandleWeather(c) \/ HandleRedSky(c) \/ HandleStrike(c)

WeatherNext ==
    \/ \E s \in Skies : SkyChanges(s) \/ SkyChangesSilently(s) \/ ForceSnow(s)
    \/ \E s, t \in Skies : ForceRain(s, t)
    \/ \E s \in Skies, cs \in SUBSET ContentClasses : HostLoads(s, cs)
    \/ HostUnloads
    \/ SpawnRedSky \/ Strike
    \/ \E r \in {"red", "clear"} : SetRedSky(r) \/ ForceRedSky(r)
    \/ HostTick
    \/ \E c \in Clients : Join(c) \/ Leave(c) \/ ClientUnloads(c) \/ ClientTick(c)
    \/ \E c \in Clients, s \in Skies : ClientLoads(c, s) \/ OwnSky(c, s) \/ OwnEvent(c, s)

WeatherFairness ==
    \A c \in Clients : WF_weatherVars(TickBegins(c)) /\ WF_weatherVars(TickEnds(c))

WeatherSpec == WeatherInit /\ [][WeatherNext]_weatherVars /\ WeatherFairness

-----------------------------------------------------------------------------
(* Types.                                                                  *)
WeatherTypeOK ==
    /\ hostSky \in Skies \cup {NoSky} /\ hostRed \in {"none", "red", "clear"}
    /\ hostLoaded \subseteq ContentClasses
    /\ hostInstalled \in BOOLEAN
    /\ observing \subseteq WeatherObservers
    /\ everObserved \subseteq WeatherObservers
    /\ lastSent \in Skies \cup {NoSky}
    /\ ready \subseteq Clients /\ seen \subseteq Clients
    /\ wire \in [Clients -> Seq(WeatherMessages)]
    /\ told \in [Clients -> Skies \cup {NoSky}]
    /\ sky \in [Clients -> Skies \cup {NoSky}]
    /\ red \in [Clients -> {"none", "red", "clear"}]
    /\ installed \in [Clients -> BOOLEAN]
    /\ pending \in [Clients -> Skies \cup {NoSky}]
    /\ busy \in [Clients -> BOOLEAN] /\ heard \in [Clients -> BOOLEAN]
    /\ raced \in [Clients -> BOOLEAN] /\ strayed \in [Clients -> BOOLEAN]

(* Nothing is on its way to the client, stashed, or being handled, and     *)
(* weather has come for its level. *)
Settled(c) ==
    /\ c \in ready /\ ~busy[c]
    /\ \A i \in DOMAIN wire[c] : wire[c][i].kind # "WeatherState"
    /\ installed[c] /\ sky[c] # NoSky /\ heard[c] /\ pending[c] = NoSky

(* What a client shows in the end is the last weather the host sent it,    *)
(* through stash and drain, levels that end, its own schedulers and late   *)
(* installation.  Two cases are left out, in which the code does not keep  *)
(* to it: a message was applied past a stashed one (raced), which the tick *)
(* that installs can do, and its own game has changed the sky by a call    *)
(* that is not cancelled (strayed), which the next weather mends. *)
LatestWinsUndisturbed ==
    \A c \in Clients : Settled(c) /\ ~raced[c] /\ ~strayed[c] => sky[c] = told[c]

(* Without the first exception: "Latest-wins -- a newer packet overrides a *)
(* still-pending older one" (weather_sync.cpp:87). *)
LatestWins ==
    \A c \in Clients : Settled(c) /\ ~strayed[c] => sky[c] = told[c]

(* Without the second: "client never decides 'rain now' locally; receives  *)
(* WeatherState from host instead" (weather_sync.cpp:389-391). *)
NeverDecidesLocally ==
    \A c \in Clients : Settled(c) /\ ~raced[c] => sky[c] = told[c]

(* An observer that was registered in some session is registered in every  *)
(* later one: what OnDisconnect takes down, Install puts up again. *)
ObserversComeBack == hostInstalled => everObserved \subseteq observing

(* Install retries an observer whose class was not loaded in time, "on the *)
(* next NetPumpTick via Install's idempotent re-entry"                     *)
(* (weather_sync.cpp:441-443). *)
StrikeObserverRetried ==
    [][HostTick /\ hostInstalled' /\ "strike" \in hostLoaded
        => "strike" \in observing']_weatherVars

(* A client that is told of nothing new while its level stays shows or     *)
(* loses every stash: none is forgotten. *)
StashDrained ==
    \A c \in Clients :
        [](pending[c] # NoSky /\ sky[c] # NoSky
             => <>(pending[c] = NoSky \/ sky[c] = NoSky))
=============================================================================
