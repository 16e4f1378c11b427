------------------------------ MODULE Installs ------------------------------
(***************************************************************************)
(* net_pump::InstallObservers: in every tick each subsystem tries to hook  *)
(* the functions it needs, until it has what it wants and latches. The     *)
(* game's blueprint classes are loaded in any order while that goes on     *)
(* (coop/prop_lifecycle.cpp, grab_observer.cpp, npc_sync.cpp,              *)
(* item_activate.cpp, garbage_sync.cpp, save_block.cpp,                    *)
(* save_button_disable.cpp; Weather has the weather's).                    *)
(*                                                                         *)
(* A hook is a table of the dispatcher, or the native hook, and a function.*)
(* The delays between retries are left out: a tick of the model is one in  *)
(* which the installer does try.                                           *)
(***************************************************************************)
EXTENDS Integers, FiniteSets, Sequences, SequencesExt

CONSTANTS
    Rooms,          \* how many slots the tables may have, as records
    Missings,       \* which functions this build of the game may lack, as sets
    Loadable,       \* the blueprint classes that are not loaded at the start
    MaxAttempts     \* bound and limit: sAttempts (120 in the code)

BlueprintClasses == {"prop", "lateProp", "trash", "chip", "inventory", "player",
                     "npcA", "npcB", "container", "garbage", "timer", "trasher",
                     "saveSlot", "menu"}

VARIABLES
    role,           \* Session::role
    room,           \* kMaxObservers (twice) and kMaxInterceptors
    missing,        \* functions that no class of this build has
    loaded,         \* blueprint classes that are there
    table,          \* the hooks that are up
    latched,        \* installers that are through: g_installed, g_done, ...
    extraDone,      \* sTrash, sClump, sChip
    attempts,       \* sAttempts
    turn            \* the installer that is next in this tick

installVars == <<role, room, missing, loaded, table, latched, extraDone, attempts, turn>>
buildVars == <<role, room, missing>>

Hook(kind, fn) == [kind |-> kind, fn |-> fn]
Order == <<"grab", "inventory", "initScan", "extraInits", "destroy", "npc",
           "item", "garbage", "saveBlock", "saveButton">>

InstallInit ==
    /\ role \in {"host", "client"} /\ room \in Rooms /\ missing \in Missings
    /\ loaded = BlueprintClasses \ Loadable /\ table = {} /\ latched = {} /\ extraDone = {}
    /\ attempts = 0 /\ turn = 1

(* SetObserverSlot, SetInterceptorSlot, MH_CreateHook, one hook after the  *)
(* other: what the tables hold when they have been tried; one that finds   *)
(* no free slot is not put up.                                             *)
Fits(hooks, h) ==
    h.kind \notin DOMAIN room \/ Cardinality({g \in hooks : g.kind = h.kind}) < room[h.kind]
Registered(hooks, new) ==
    FoldLeft(LAMBDA up, h : IF h \in up \/ Fits(up, h) THEN up \cup {h} ELSE up, hooks, new)

(* Props and NPCs each have an observer on K2_DestroyActor.                *)
FunctionOf(fn) == IF fn = "K2_DestroyActor.npc" THEN "K2_DestroyActor" ELSE fn
Present(fn) == FunctionOf(fn) \notin missing

(* It is this installer's turn, and it is not through.                     *)
Tries(installer) == Order[turn] = installer /\ installer \notin latched
Done(installer, through) ==
    /\ latched' = IF through THEN latched \cup {installer} ELSE latched
    /\ turn' = (turn % Len(Order)) + 1
    /\ UNCHANGED <<buildVars, loaded>>
OneHook == UNCHANGED <<extraDone, attempts>>

(* Early returns: a latch that is set, a class that is not loaded.         *)
Waits(classes) == ~(classes \subseteq loaded)
Needs(installer) ==
    CASE installer = "grab" -> {"player"}       [] installer = "item" -> {"player"}
      [] installer = "inventory" -> {"inventory"}
      [] installer = "initScan" -> {"prop"}     [] installer = "npc" -> {"npcA", "npcB"}
      [] installer = "garbage" -> {"container", "garbage"}
      [] installer = "saveBlock" -> {"saveSlot"}
      [] installer = "saveButton" -> {"player", "menu"}
      [] OTHER -> {}
(* Mutant: the container's guard tries once, as the grab observer does.     *)
GivesUpOnGarbage(installer) ==
    installer = "garbage" /\ Waits(Needs(installer))

(* On a host the save hooks latch at once; without its function the NPC    *)
(* installer gives up before it looks at the classes.                      *)
GivesUp(installer) ==
    \/ role = "host" /\ installer \in {"saveBlock", "saveButton"}
    \/ installer = "npc" /\ ~Present("BeginDeferredSpawn")
PassesBy ==
    \E installer \in {Order[turn]} :
        /\ \/ installer \in latched
           \/ installer = "extraInits" /\ "initScan" \notin latched
           \/ GivesUp(installer)
           \/ Waits(Needs(installer))
        /\ UNCHANGED table /\ OneHook
        /\ Done(installer, GivesUp(installer))

Runs(installer) == Tries(installer) /\ ~GivesUp(installer) /\ ~Waits(Needs(installer))

(* Every function is tried once, with whatever result.                     *)
GrabHooks == <<Hook("post", "grab.Update"), Hook("pre", "grab.Finished")>>
InstallGrab ==
    /\ Runs("grab")
    /\ table' = Registered(table, SelectSeq(GrabHooks, LAMBDA h : Present(h.fn)))
    /\ Done("grab", TRUE) /\ OneHook

(* takeObj: without the function never, without its POST observer again,   *)
(* without the PRE observer all the same.                                  *)
InstallInventory ==
    /\ Runs("inventory")
    /\ \E hooks \in {Registered(table, IF Present("takeObj")
                        THEN <<Hook("post", "takeObj")>> ELSE <<>>)} :
       \E up \in {~Present("takeObj") \/ Hook("post", "takeObj") \in hooks} :
        /\ table' = IF Present("takeObj") /\ up
                      THEN Registered(hooks, <<Hook("pre", "takeObj")>>) ELSE hooks
        /\ Done("inventory", up)
    /\ OneHook

(* One scan for the Init functions of all keyed classes that are loaded:   *)
(* the props' and those of the garbage.                                    *)
InitOf(class) == CASE class = "prop" -> "prop.Init" [] class = "lateProp" -> "lateProp.Init"
                   [] class = "trash" -> "trash.Init" [] class = "chip" -> "chip.Init"
InitHooks(classes) == [i \in DOMAIN classes |-> Hook("post", InitOf(classes[i]))]
Hookable(classes) == SelectSeq(classes, LAMBDA c : c \in loaded /\ Present(InitOf(c)))

InitScan ==
    /\ Runs("initScan")
    /\ \E scanned \in {InitHooks(Hookable(<<"prop", "lateProp", "trash", "chip">>))} :
        /\ table' = Registered(table, scanned)
        /\ Done("initScan", \E h \in ToSet(scanned) : h \in table')
    /\ OneHook

(* The garbage classes (two of the three) are loaded late and tried again, *)
(* each until it is done with, all until the attempts are used up.         *)
ExtraClasses == <<"trash", "chip">>
ExtraInits ==
    /\ Runs("extraInits") /\ "initScan" \in latched
    /\ \E tried \in {SelectSeq(ExtraClasses, LAMBDA c : c \notin extraDone /\ c \in loaded)} :
        /\ table' = Registered(table, InitHooks(Hookable(tried)))
        /\ extraDone' = extraDone \cup ToSet(tried)
    /\ \E all \in {extraDone' = ToSet(ExtraClasses)} :
        /\ attempts' = IF all THEN attempts ELSE attempts + 1
        /\ Done("extraInits", all \/ attempts' = MaxAttempts)

InstallDestroy ==
    /\ Runs("destroy")
    /\ table' = Registered(table, IF Present("K2_DestroyActor")
                    THEN <<Hook("pre", "K2_DestroyActor")>> ELSE <<>>)
    /\ Done("destroy", ~Present("K2_DestroyActor") \/ Hook("pre", "K2_DestroyActor") \in table')
    /\ OneHook

(* Both observers or none, the interceptor only with them.                 *)
NpcObservers == <<Hook("post", "BeginDeferredSpawn"), Hook("pre", "K2_DestroyActor.npc")>>
InstallNpc ==
    /\ Runs("npc")
    /\ \E tried \in {Registered(table, NpcObservers)} :
       \E ok \in {Present("K2_DestroyActor") /\ ToSet(NpcObservers) \subseteq tried} :
        table' = IF ok THEN Registered(tried, <<Hook("cancel", "BeginDeferredSpawn")>>) ELSE table
    /\ Done("npc", TRUE) /\ OneHook

(* Any of the flashlight's functions will do.                              *)
LampHooks == <<Hook("post", "updateFlashlight"), Hook("post", "Flashlight Update")>>
InstallItem ==
    /\ Runs("item")
    /\ table' = Registered(table, SelectSeq(LampHooks, LAMBDA h : Present(h.fn)))
    /\ Done("item", \E h \in table' : h \in ToSet(LampHooks)) /\ OneHook

(* The container's two functions, then, once, the spawners that are there. *)
Container == <<Hook("cancel", "ReceiveTick"), Hook("cancel", "checkPickup")>>
Spawners == <<Hook("cancel", "timer"), Hook("cancel", "trasher")>>
SpawnersThere == SelectSeq(Spawners, LAMBDA h : h.fn \in loaded)

InstallGarbage ==
    /\ Runs("garbage")
    /\ \E hooks \in {IF \A h \in ToSet(Container) : Present(h.fn)
                       THEN Registered(table, Container) ELSE table} :
       \E up \in {ToSet(Container) \subseteq hooks} :
        /\ table' = IF up THEN Registered(hooks, SpawnersThere) ELSE hooks
        /\ Done("garbage", up)
    /\ OneHook

InstallSaveBlock ==
    /\ Runs("saveBlock")
    /\ table' = Registered(table, IF Present("SaveGameToSlot")
                    THEN <<Hook("native", "SaveGameToSlot")>> ELSE <<>>)
    /\ Done("saveBlock", TRUE) /\ OneHook

ButtonHooks == <<Hook("post", "Escape"), Hook("post", "menu.Tick")>>
InstallSaveButton ==
    /\ Runs("saveButton")
    /\ table' = IF \A h \in ToSet(ButtonHooks) : Present(h.fn)
                  THEN Registered(table, ButtonHooks) ELSE table
    /\ Done("saveButton", ToSet(ButtonHooks) \subseteq table') /\ OneHook

(* The game loads a class, between two ticks.                              *)
ClassLoads ==
    /\ turn = 1
    /\ \E class \in BlueprintClasses \ loaded : loaded' = loaded \cup {class}
    /\ UNCHANGED <<buildVars, table, latched, extraDone, attempts, turn>>

InstallStep ==
    \/ PassesBy \/ InstallGrab \/ InstallInventory \/ InitScan \/ ExtraInits
    \/ InstallDestroy \/ InstallNpc \/ InstallItem \/ InstallGarbage
    \/ InstallSaveBlock \/ InstallSaveButton

InstallNext == InstallStep \/ ClassLoads
InstallSpec == InstallInit /\ [][InstallNext]_installVars /\ WF_installVars(InstallStep)

-----------------------------------------------------------------------------
(* What each installer owes once its classes are there and if this build   *)
(* has the functions it insists on.                                        *)
Owed(installer) ==
    CASE installer = "grab" -> ToSet(GrabHooks)
      [] installer = "inventory" -> {Hook("post", "takeObj"), Hook("pre", "takeObj")}
      [] installer = "initScan" -> {Hook("post", "prop.Init")}
      [] installer = "extraInits" ->
            {Hook("post", InitOf(c)) : c \in IF "initScan" \notin latched \/ attempts = MaxAttempts
                                            THEN extraDone ELSE ToSet(ExtraClasses) \cap loaded}
      [] installer = "destroy" -> {Hook("pre", "K2_DestroyActor")}
      [] installer = "npc" -> ToSet(NpcObservers) \cup {Hook("cancel", "BeginDeferredSpawn")}
      [] installer = "item" -> ToSet(LampHooks)
      [] installer = "garbage" -> ToSet(Container)
      [] installer = "saveBlock" -> {Hook("native", "SaveGameToSlot")}
      [] installer = "saveButton" -> ToSet(ButtonHooks)
AllOrNothing == {"npc", "garbage", "saveButton"}

Full(kind) ==
    kind \in DOMAIN room /\ Cardinality({h \in table : h.kind = kind}) >= room[kind]
Unavailable(h) == ~Present(h.fn) \/ (h \notin table /\ Full(h.kind))

Excused(installer) ==
    \/ Waits(Needs(installer))
    \/ installer \in AllOrNothing /\ \E h \in Owed(installer) : Unavailable(h)
    \/ role = "host" /\ installer \in {"saveBlock", "saveButton"}

(* Whatever order the game loads its classes in, and whichever installer   *)
(* comes first, what an installer owes is hooked in the end, unless this   *)
(* build lacks the function or the table is full: no latch is set too      *)
(* early for a class that comes late (net_pump.cpp:208-230).               *)
HookedInTheEnd ==
    \A i \in 1..Len(Order) : []<>(
        Excused(Order[i]) \/ \A h \in Owed(Order[i]) : h \in table \/ Unavailable(h))

(* Stated by the code, and refuted (see the README).                       *)

(* garbage_sync.cpp:179: a spawner whose class is not loaded when the      *)
(* container's is: "retry next Install()".                                 *)
SpawnersHooked ==
    \A h \in ToSet(Spawners) : []<>(
        h.fn \notin loaded \/ Waits(Needs("garbage")) \/ h \in table \/ Full("cancel"))
=============================================================================
