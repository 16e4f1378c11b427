# A TLA+ model of VOTV_MP

VOTV_MP turns a single-player Unreal Engine game into a co-operative one for up
to four players: a DLL in every game process hooks the engine, a *host* process
accepts up to three *client* processes over GameNetworkingSockets (GNS), and the
mod mirrors players, physics props, NPCs, weather and items between them. This
directory models the mod's own control logic (`src/src/votv-coop`) in TLA+,
checks it with TLC on small instances, and proves the most important properties
with TLAPS for every value of the constants.

The reference is the source. Every definition names, in `PROJECT.json` ("map"),
the lines it stands for. Paths below are relative to
`src/src/votv-coop/src/coop/` unless they say otherwise.

## 1. The system

### Processes and threads

One process per player; the host holds slot 0 and accepts clients into slots
1..3 (`kMaxPeers = 4`). Inside a process three kinds of threads meet:

* the **net thread** (`net/session.cpp` NetThread) polls GNS, runs its status
  callbacks, receives messages and sends the local pose;
* the **game thread** runs `net_pump::Tick` from a posted task: it drains what
  the net thread queued, compares the session's slots with what they were one
  tick earlier, and makes every call into the engine;
* the engine's **worker threads** run hooked functions, and so may run the
  mod's observers, construct elements and destroy them.

The net thread and the game thread share `Session`'s slot table through atomics
and the reliable inbox through a mutex. Nothing tells the game thread that a
peer came or went: it *samples* the slots once per tick and acts on the
difference. Most of what is hard in this program follows from that.

### Components

| component | state | operations | modelled in |
| --- | --- | --- | --- |
| Element id space (`element/registry.cpp`, `registry.h`, `element.h`) | ranges, bands, free stacks | band arithmetic, sender checks | `IdRanges` |
| Element registry, mirror managers, deleter (`element/*`, `mirror_manager.h`) | id table, owner maps, deferred queue | allocate, install, take, drain, flush, destroy, band switch | `ElementIds` |
| Host peer slots (`net/session_status.cpp`, `net/session.cpp`) | connection and readiness per slot, aggregate state, epoch latch, stored pose, inbox | GNS status callback, receive | `SessionSlots` |
| Late-joiner snapshot (`prop_snapshot.cpp`) | target slot, candidates, queue of slots | trigger, drain a chunk, cancel, tear down | `PropSnapshot` |
| Host tick (`net_pump.cpp`, `event_feed.cpp`) | last-seen readiness, puppets, prop mirrors per slot | edges, drain, dispatch of messages | `HostTick` |
| Handshake, registry of players (`player_handshake.cpp`, `players_registry.cpp`) | Join latch, nickname, Player mirror per slot | Join, introductions, slot teardown | `HostTick` (host side) |
| Pose stream and relay (`net/session.cpp`, `net/session_relay.cpp`) | last sequence number per slot | send, receive, relay, reset | `PoseStream` |
| Client handshake (`player_handshake.cpp`, `players_registry.cpp`) | own slot and band, Player elements and mirrors, nicknames | AssignPeerSlot, Join, PlayerJoined | `Peers` |
| Prop tracking and lifecycle observers (`prop_element_tracker.cpp`, `prop_lifecycle.cpp`) | address-keyed tables, known set, purge episode | seed, mark, unmark, reap, broadcast | `PropTracker`, `PropSync`, `PropSnapshot` |
| Remote props (`remote_prop*.cpp`) | mirrors, held-prop drive per slot | spawn, destroy, drive, release, time out | `HeldProp`, `PropSync`, `HostTick` |
| Reliable lanes and packet formats (`net/session_lanes.h`, `net/protocol.h`) | none | kind to lane | `PropSync` (lanes) |
| Weather, red sky, lightning (`weather_*.cpp`) | last signature, stash, observers | broadcast, replay, stash, apply, suppress | `Weather` |
| Item activation (`item_activate.cpp`) | last signature, cache and stash per peer | broadcast, relay, stash, replay | `Flashlight` |
| NPC sync and mirrors (`npc_sync.cpp`, `npc_mirror.cpp`) | spawns under way, reverse map, mirrors | PRE, POST, bind, destroy, drain | `Npc` |
| Puppets (`remote_player.cpp`, `nameplate.cpp`, `../ue_wrap/puppet.cpp`, `engine_mainplayer.cpp`) | window, latches of flop and flash, label | spawn, pose, glide, flop, flash, destroy | `Puppet` |
| Game-thread dispatcher (`../ue_wrap/game_thread.cpp`, `hook.cpp`) | observer tables, task queue, pump guard | register, unregister, walk, post, pump, install, remove | `ObserverTable`, `Dispatcher` |
| Installation of the hooks (`net_pump.cpp` `InstallObservers` and what it calls) | a latch per installer | retry, register, latch | `Installs` |
| Timeline thread, shutdown (`../harness/harness.cpp`, `shutdown.cpp`, `../bootstrap/dllmain.cpp`) | boot rounds, flags, session | boot, start, post ticks, stop | `Dispatcher` |
| Garbage guard, save guard | latches | install | `Installs` |
| Damage relay, engine access, tools | | | not modelled (section 8) |

### How they interact

```
  GNS (external) --callbacks, messages--> Session (net thread)
                                             |  peerConns_, lanes, state_   (atomics)
                                             |  remotePoses_, inbox         (mutex)
                                             v
  net_pump::Tick (game thread): catch-up -> edges -> aggregate edge -> snapshot chunk
        -> puppets -> event_feed: per slot edge + Join, then the inbox
             |                                   |
             v                                   v
      prop_snapshot <--- prop tracker     player_handshake, remote_prop
             |                |                  |
             +----------> element registry, mirror managers, deleter <--- worker threads
```

### What makes it correct, and what is hard

* *ids*: an id resolves to the living element that was given it, mirrors never
  take an id from a living element, and no id is lost. Hard: operations are
  series of critical sections on different mutexes, run by several threads.
* *slots*: a recycled slot shows its new client nothing of the old one (pose,
  epoch latch, queued messages, nickname, puppet, mirrors). Hard: the callback
  that frees a slot is a series of stores which the tick reads in between.
* *edges*: whatever is done once per client is done once for *each* client of
  a slot. Hard: a level-sampled edge misses a close and re-accept.
* *snapshots*: a client that joins late learns every prop and gains no phantom.
  Hard: the world changes while a snapshot drains over many ticks, joiners queue
  and leave, world changes re-seed, half-open peers also hear broadcasts.
* *poses*: a receiver never goes back to an older pose, and never takes a new
  one for stale. Hard: datagrams overtake each other on two hops, numbers wrap,
  and a slot's next holder counts from zero.
* *observers*: a callback that is registered is called for every dispatch of its
  function, and for no other. Hard: engine worker threads walk the table without
  a lock, up to a count they read at the start, while slots come and go.
* *tasks*: what is posted is run, on one thread, one after the other. Hard: tasks,
  observers and bodies dispatch again, anything may fault, and the process may be
  closed in the middle of a boot round.
* *worlds*: weather, lamps, props and NPCs are in the end the same everywhere.
  Hard: stashes, caches and dedup signatures outlive levels, clients and
  sessions; a handler's own engine calls are observed like the player's.
* *addresses*: tables keyed by actor address are true although the engine purges
  actors without telling and gives their addresses away.
* *puppets*: a body stands where it was posed. Hard: a change of level takes body
  and label away, and the latches of the one gone are kept.
* *introductions*: two clients learn of each other through the host whatever
  the order in which they connect and join.

`PROJECT.json` ("hazards") lists 40 such places, each at its line, with the
properties that watch it, or why none does yet.

## 2. The modules

| module | what it is |
| --- | --- |
| `IdRanges` | the id space as pure operators: ranges, bands, descending stacks |
| `IdTable` | abstract specification: what the element registry promises |
| `ElementIds` | the element layer of one process; implements `IdTable` |
| `SessionSlots` | the host's net thread, GNS and the clients around it |
| `PropSnapshot` | extends it with the host's world and `prop_snapshot.cpp` |
| `HostTick` | extends that with the game thread; `Next` and `Spec` of the host |
| `LatestPose` | abstract specification: what a pose stream promises its receiver |
| `PoseStream` | client poses, host, relay, one viewer; implements `LatestPose` twice |
| `ObserverTable` | one lock-free observer table of the ProcessEvent detour |
| `Peers` | the handshake on every process: ids, mirrors, bands, names |
| `Puppet` | the puppet of one slot, from the stored pose to the screen |
| `Weather`, `Flashlight`, `Npc` | the three kinds of world state that are announced |
| `HeldProp` | a prop in a remote player's hand: drive, timeout, release |
| `PropSync` | the props of all worlds: spawns, destroys, lanes, inventory, relay |
| `PropTracker` | the address-keyed tables of one process, purge and reaper |
| `Dispatcher` | detour, nesting, task queue, timeline thread, shutdown |
| `Installs` | ten installers that retry until they latch |
| `Filter` | what an erase-while-iterating loop leaves of a queue; used by the modules with such a loop |
| `MCProcess` (`ElementIds`, `Dispatcher`, `Installs`), `MCHostTick`, `MCPoses` (`PoseStream`, `Puppet`), `MCEngine` (`ObserverTable`, `PropTracker`), `MCWorldSync` (`Weather`, `Flashlight`, `Npc`), `MCProps` (`HeldProp`, `PropSync`), `MCPeers` | instances for TLC |
| `IdentityProofs` (`IdRanges`, `ElementIds`, `Peers`), `SessionSlotsProofs`, `HostTickProofs` (with `PropSnapshot`), `PosesProofs` (`PoseStream`, `Puppet`), `EngineProofs` (`ObserverTable`, `Dispatcher`, `PropTracker`), `WorldSyncProofs` (`Npc`, `Weather`, `Flashlight`), `PropsProofs` (`HeldProp`, `PropSync`) | theorems and proofs |
| `QueueLemmas` | what those proofs use about queues, sets and least elements |

The composed MC modules put components side by side that share no state on these
instances: a behaviour is one of one component, chosen at the start (`part`), so
one run asks the questions of several without multiplying their states. Those
that do interact are composed for real: `HostTick` extends `PropSnapshot`, which
extends `SessionSlots`; `PropSync` has the observers, the wire and the handlers of
all processes; `Weather`, `Flashlight`, `Npc` and `Peers` have host, channel and
clients.

### ElementIds

A mutex protects the registry, one each owner map, one the deleter's queue, and
the code holds at most one at a time. An action is one critical section, and
`stage[e]` says how far the operation that holds element `e` has come: *minted*
between `AllocHostId` and the emplacement, *placed* and *losing* inside
`MirrorManager::Install`, *queued* in the `ElementDeleter`, *doomed* between
leaving its map and its destructor. Allocation and deferred take may run on any
thread; what only the game thread does is mutually exclusive (`GtFree`).
`byId`, `hostFree`, `localFree`, `activeBand` are the registry's fields.
The environment is assumed to put on the wire only ids that their sender minted
(`WireIds`); a client that mints before it knows its slot and re-mints such an
id after the band switch breaks this, which is what `Peers` finds.

### SessionSlots, PropSnapshot, HostTick

A client process dials once; it is at once its connection handle, its session
epoch and its identity. Slots are given to one client after another.
`gns[c]` is what the external library has done with a connection. The terminal
branch of `HandleConnStatusChanged` is a series of actions, one per store that
another thread can see: `Closed`, `ClearLanes`, `ResetRemote`, `PurgeInbox`,
`Aggregate`, `ResetAll`, `EmptyInbox` (`net.at` is the program counter). The
tick is a series of actions in the order of `net_pump::Tick`, one per read of
the shared atomics (`tick.at`).

`PropSnapshot` keeps the file's globals as one record, because one pass of the
game thread may call several of its functions (`Edge` of slot 1 may cancel its
drain, which starts that of slot 2). What clients are sent is kept as its
effect, `has[c]`, the props client `c` was told of: spawns, destroys and
snapshot entries share a lane, so they arrive in the order in which they were
sent.

Two constants choose how much the two threads interleave. With `Overlap` the
network acts in the middle of a tick and the tick in the middle of a callback;
without it both are atomic with respect to each other. With `MissedEdges` a slot
may change hands between two ticks unseen. The real program has both; a property
that needs one of them FALSE is one that the code guarantees only when threads
do not meet at a bad moment, and where the code's comments claim more a
violation run shows the difference (section 4).

### PoseStream

One slot of the host, the client processes that hold it one after the other, and
one other client, the viewer. `up` and `down` are the datagrams in flight; they
are sets, so the order of delivery is arbitrary, a delivered datagram may stay
(`Delivered`) and any may vanish (`Lose`). A packet keeps the number `n` its
sender gave it; the code sees `Seq32(n)`, which wraps at `Modulus`, and compares
as `static_cast<int32_t>(seq - last) > 0` does (`Newer`). All sends of a process
share one counter, so `SendReliable` leaves gaps. `host[st].from = Nobody` stands
for `hasRemote_ = false`.

The environment is assumed to deliver nothing half the number range late, and
no stored pose to be that old when the next arrives (`InWindow`, a guard of the
sends): with 2^31 numbers and some hundred sends a second that is months. What
the slot table does in between is the matter of `SessionSlots`; here a
disconnect is one step. `MaxSends` bounds the sends of a process.

### ObserverTable

The pre-observer, post-observer and interceptor tables are three copies of one
mechanism; the module has one. The game thread's operations (`op`) and each
thread's walk (`walk[t]`) are series of actions, one per store or load that
another thread can tell apart; what an operation only reads of the table nobody
else writes, so its search is one step with its start. Stores become visible in
program order (the code's release stores; x86 gives a single writer that much).
While an operation is under way the game thread's own walk stands still, since
the operation runs inside one of its callbacks. `registered` is a ghost, and so
are three fields of a walk: `due`, what it must call (registered since it began
and still), `possible`, what it may call, and `overlapped`, which kinds of
operations it met. `ClearAllObservers` wipes both observer tables in one loop;
what it does to one is here.

### Dispatcher and Installs

What a thread is doing is a stack of calls, each at a stage of
`ProcessEventDetourImpl` (*pump*, *before*: interceptors and PRE observers,
*original*, *after*: POST observers), and of tasks that the pump has taken out of
the queue. A task, an observer and a body may dispatch once more, up to
`MaxDepth`. `gameThreadId` is latched by the first caller; `WorkersFirst` says
whether that may be a worker. Tasks fault (`TaskFaults`) or bodies do (`Over`).
The timeline thread is its rounds, the flag it spins on, and the loop that posts
a tick every 8 ms; `DoShutdown` runs on the game thread between two calls. Tasks
are numbered as they are posted and `left` is a ghost.

In `Installs` a hook is a table and a function. A tick is a turn for each
installer (`Order`), in which it passes by (latched, or a class is not loaded)
or runs, and latches if the code would. The game loads its classes between
ticks, in any order. `Registered` is what a table with finite `room` does with a
list of registrations. Of the classes that behave alike there are two each: two
NPC classes of twelve, two spawners of four, two late garbage classes of three.

### Peers

Every process has `reg[p]`, its players registry and the part of the element
registry that player elements and dropped props use: the free stack, the band,
the element per slot. Reliable messages to one process arrive in the order in
which they were sent, messages to different processes in any order, and a
puppet's first pose at any time. A nickname is a sequence of a few characters,
because sanitising is about its ends and its length. A slot that a client
leaves is given to the next one.

### Puppet

`puppet` is `RemotePlayer` with its body in the engine and its entry in the nameplate
table, as one record; the operators are the functions, in the order in which
`net_pump::Tick` calls them (`Frame`). Positions are on a line; the window and the
flash count frames. A change of level takes body and label and leaves all of the
mod's fields as they are.

### Weather, Flashlight, Npc

`Weather`: a tick of the host is one step, since nothing in it depends on what
the net thread does meanwhile; a client's tick is a step per message with a begin
(installation, drain of the stash) and an end. The client's own game acts between
ticks: its five schedulers until they are cancelled (`OwnSky`), its story events,
which call mutators that nothing cancels (`weather_sync.cpp:252-258`, `:352-356`), at
any time (`OwnEvent`). `told`, `heard`, `raced` and `strayed` are ghosts.

`Flashlight`: the host's net thread relays a client's announcement before the
game thread has it in its cache, so the relay (`Relay`) and the handler are
different steps. `astray` is a ghost that says that the last thing a player was
told of a lamp leaves it wrong, and is set exactly by the changes section 4
names.

`Npc`: a spawn is the interceptor (find the session connected, allocate,
announce), the engine, and the POST observer (look up, bind); a destruction is the
removal from the reverse map, the take and the announcement. These are steps of
any thread, nested where the engine nests spawns; `OnDisconnect` and the deleter's
flush come between any two. `straddled` and `unclaimed` are ghosts that name the
two ways in which section 4 says that the code loses track.

### HeldProp, PropSync, PropTracker

`HeldProp` has the peer's hand and its edge (`lastHeld`), the pose store of both
net threads, poses that may be lost, releases and destroys on two lanes, and the
receiver's drive per slot. `overdue` stands for the 500 ms.

`PropSync` has a world per process. An engine event, the observer's broadcast and
the local element are one step, since they run inside one dispatch; a handler and
the suppressed echo of its own engine call are another. A prop is its key, and of
an element id only its range is kept, because that is what the host checks.

`PropTracker` has actors that are born at an address, found by Init or a walk,
and that die by a destroy call (observed, on any thread) or by a purge (not
observed). `MarkPropElement` and the destroy observer are two steps each, since
they take two locks. The reaper is a step per element looked at. Init's observer
has many exits (no connection, a spawn for a message, a takeObj in flight, a class
that is not sent, a client's own `Aprop_C`, a key not set), and which one it takes
is free in the model (`Outcomes`): `InitObserved` goes through them in the order of
`prop_lifecycle.cpp:171-259`, what is noted before each exit included, and
`TakeObjPost` announces what a takeObj has made. Whom the last look left without an
element is kept in `passedOver`; a client's own props are there until a walk.

## 3. The runs

| run | instance | question |
| --- | --- | --- |
| `process` | elements: 3 of 2 types, 2 host ids, bands of 1, 1 and 2 ids. Dispatcher: a game thread 3 deep, a worker, 2 tasks, 2 boot rounds. Installs: 4 classes that load late, tables ample and scarce, functions there and missing, 2 attempts | id table, free stack, drains, refinement of `IdTable`, every queued element is destroyed; tasks run in order on one thread and none is lost to a fault; every hook that is owed comes up |
| `host_races` | 2 clients one after the other on 1 slot, full overlap, missed edges, an inbox of 2 | do poses, latches, queued messages and identities belong to the occupant at every point? |
| `host_peers` | 2 clients on 2 slots, no overlap | ghosts, Join latch, introductions |
| `host_snapshot` | 2 late joiners, 2 props of which one comes and goes, 1 re-seed, chunks of 1, fairness | completeness of snapshots, no phantoms, every snapshot ends |
| `pose_stream` | stream: 2 processes on a slot in turn, 6 numbers each, modulus 5. Puppet: 3 positions, 2 holders, a hit, a change of level | do host and viewer show ever newer poses, and drop no news, past the wrap and past a change of holder? refinement of `LatestPose` at both; does the body stand where it was posed, is it red only for a hit and not for ever, and is its label true? |
| `engine` | table: 3 observers of 2 functions and 2 callbacks, 3 slots, 5 operations, a worker and the game thread. Tracker: 3 props on 2 addresses, 4 ids, evictions of 1, every exit of the observers | does a walk that meets an operation miss anybody? are ids found by address the right ones, are the living that are not passed over tracked, and the dead reaped? |
| `world_sync` | weather: 1 client, 2 skies, 2 messages in flight. Lamp: 2 clients, the lamp of the host or of one of them. NPCs: 2 lives, 2 ids, nesting | is the last announcement what is shown in the end, weather until the client's own game changes it? do observers come back, is the NPC map true, do mirrors outlive their NPC? |
| `props` | held: 1 slot, 2 props, 1 message of a kind in flight. Worlds: host and 2 clients, a seeded key and one of litter that host and clients make, 3 messages in a channel | does no prop hang in the air, do the worlds agree, is a prop in one place only? |
| `peers` | host, 2 slots, 3 arrivals, 3 bands, 1 dropped prop each | does everybody know everybody under the right id and name, and does an id name one player? |
| `stale_seq`, `unowned_destroy`, `colliding_ids` | violations | section 4 |

Why the bounds are enough to make things happen: three elements are the least
for two that race for an id while a third holds it, and the id space has bands
of different sizes, so the remainder matters and the stack runs empty. Two
clients and one slot are the least for a slot to change hands, two slots for
two drains, a queue and introductions; a chunk of one makes every snapshot of
two props last over several ticks; an inbox of two overflows. Every bound is a
constant of the configuration: the number of clients (each dials once and sends
each reliable message once), `MaxReseeds`, `MaxSends` and `MaxOps` are the only ones that
are not in the code; `MaxWire`, `MaxFlight` (messages in flight), `MaxArrivals`, `MaxDrops`,
`MaxActs`, `MaxHits`, `MaxLevels`, `MaxHolders`, `MaxTasks`, `MaxDepth` and
`MaxWorkerDepth` likewise bound the newer modules. A modulus of five leaves a
window of two numbers on either side, and six sends go past the wrap; the proof
has any modulus, and the second stream, which is the same code with a store of
its own. Two messages in flight are the least for one to be overtaken, two props
for a drive to change props, two addresses and three actors for both props of a
purge to be dead when an address is used again, three levels of calls for a task that dispatches a call whose
observer dispatches again, two boot rounds for one that is repeated. `host_peers` was also run with three clients (13.9 million states, no
error), which takes too long to keep.

Deadlock checking is off in the host runs: when every client has come and gone
and the world is still, the model may stop.

### Fairness

`host_snapshot` checks that snapshots end under weak fairness of the tick (the
game thread runs it every frame) and strong fairness of the net thread's
callbacks: without `Overlap` a callback waits for the end of a tick, so it is
enabled again and again rather than continuously; two threads do not starve
each other. Nothing is assumed of clients or GNS. `process` assumes that an
operation under way goes on and that `net_pump::Tick` flushes the deleter again
and again (elements), that the game goes on making calls on its game thread and
that each returns, faults or dispatches (dispatcher; nothing is assumed of
workers, the timeline thread or the shutdown), and that ticks go on (installs;
nothing is assumed of the loading of classes). `engine` assumes ticks, and that an
observer that has struck an id off takes it; `props` that a peer's tick emits
what its hand did, that releases are delivered and that the receiver's clock and
tick go on, but not that any pose arrives; `pose_stream` that frames go on.

## 4. Where the code and its comments disagree

Three disagreements have a run of their own:

| run | the comment | what the run shows |
| --- | --- | --- |
| `stale_seq` | `net/session_relay.cpp:18-19`: per-origin-slot monotonicity holds on the receiver | a viewer is not told that a slot changed hands, keeps the last holder's number and drops the next holder's poses until they pass it |
| `unowned_destroy` | `prop_lifecycle.cpp:343-344`, `protocol.h:745`: a destroy with element id 0 means that the sender had no element | a client's destroy of a prop that it has from the host carries element id 0, the host's range check drops it, and the prop is in an inventory and in the world |
| `colliding_ids` | `registry.h:54-63`: two clients never mint colliding ids | a placeholder minted before the slot is assigned frees its id into the slot's band, on both clients |

The others are stated in the modules, and refuted by TLC with the constants
given; they are not runs of the project, which keeps one per question:

* **Snapshots.** `QueueIsServed` (`HostTick`, three joiners of whom two leave
  together): one slot is taken off the queue; if it has left too, nothing serves
  the rest (`prop_snapshot.cpp:293`, against its lines 6-7). `LateJoinersKnowWorld`: a
  prop that spawns while nobody is connected is put into the known set
  (`prop_lifecycle.cpp:181`) but gets no element, and the snapshot enumerates
  elements (`prop_snapshot.cpp:94-97`, against `prop_snapshot.h:5-6`). With
  `DropsBeforeJoin` `SyncedAgree` (`PropSync`) fails: the snapshot sends a client's
  prop with an id of the peer range from slot 0, which the joiner's range check
  drops (`event_feed.cpp:264-274`), and it precedes the inbox of its tick.
* **Edges.** With `MissedEdges` a slot that changes hands between two ticks keeps
  the Join latch of its last client (`player_handshake.cpp:25-27`); with `Overlap`
  a message that is queued after the slot reads as free is handled for a slot that
  is cleaned already (`net/session_status.cpp:253-256`).
* **Observers.** An observer that is registered into a hole in front of a walk is
  counted against the bound the walk read before, and the last one is not called
  (`NoneMissed`; `game_thread.cpp:231-233, 282-283`).
* **Dispatcher.** `ShutdownEndsTimeline`: the boot round spins on a flag only its task
  sets (`harness.cpp:283`), and the game thread that would run it joins the
  session in DoShutdown, or the task has faulted; `shutdown.h:24` says that every
  infinite loop polls `IsShuttingDown()`. `StaysStopped`: what
  `BootStorySaveBlocking` returns is not looked at, so the session is started
  after it was stopped (`harness.cpp:390`, `:498`). `OriginalCallable`: a worker may
  be inside the detour when the trampoline is freed (`game_thread.cpp:600-605`).
  With `WorkersFirst` `OneAfterAnother` fails: the first caller is taken for the
  game thread (`:474-475`).
* **Installs.** `SpawnersHooked` (with `"timer"` in `Loadable`): the suppressors are
  tried only in the call that latches `g_installed`, after which `Install` returns
  at its first line (`garbage_sync.cpp:214`, `:250`); the comment at `:179` promises a
  retry. Init functions of prop classes that load after the scan are not hooked
  (`prop_lifecycle.cpp:577-616`), and `sAttempts` is not re-armed by a session
  (`:525`).
* **Peers.** `NamesAgree`: the ends of a nickname are trimmed before it is cut, and
  again at the receiver, so the two sides may differ (`player_handshake.cpp:122-127`).
  `NoGhostPuppets`: a client is not told that another one left
  (`net_pump.cpp:354-358, 369`). That every label is displayable is proved
  (section 5).
* **Puppets.** `FlopsAreOfThisBody` and `EveryBodyLabelled` fail after a change of
  level: the flop's latch is that of the body gone (`remote_player.cpp:356-358`),
  and `Register` takes a dead entry for a label (`nameplate.cpp:72-74`).
* **Weather.** `LatestWins`: the tick that installs applies a message past a stash,
  and the next tick drains the older state over it (`weather_sync.cpp:86-88`).
  `NeverDecidesLocally`: a story event of the client's game changes its sky, since
  only five of the eight functions are cancelled (`:381-391`), and the client keeps
  that sky until the host announces another. The run's `LatestWinsUndisturbed`
  excepts these two cases by name and says nothing of them. `StrikeObserverRetried`: the
  latch is set without the lightning's observer (`:439-447`).
* **Flashlight.** `LaterToggleShips`: a change is compared with what was sent last,
  to whomever, and is swallowed (`item_activate.cpp:317`, `:760`). `ReplayIsCurrent`: a
  replay from the cache follows a relayed newer one (`:706-710`).
* **NPCs.** `MapNeverStale`: a spawn across OnDisconnect leaves an entry
  (`npc_sync.cpp:269`, `:520-522`). A spawn that fails is not taken back on the
  clients, and a nested one takes the outer one's pending slot (`unclaimed`).
* **Props.** `OtherDrivesIntact` (`HeldProp` with two slots): a release acts by key
  on a prop that another slot drives (`remote_prop.cpp:449-450`). `MapOwned` with
  `Stalls`: an observer that is held up for ticks strikes off its successor
  (`prop_element_tracker.cpp:184-192, 416-421`). `LiveTracked` with
  `MinPurge = ReseedPurge`: a purge of just the threshold goes unseen if an observer
  strikes one of its dead off before the scan.
  `AllTracked`: a prop whose key is not set yet is left for "a subsequent Init
  pass" (`prop_lifecycle.cpp:243-246`), but its address is noted as processed
  before that (`:192`), and the next pass returns (`:187-191`); it stays without
  an element until a walk, as do the props a client makes itself (`:221-223`).
  `ProcessedPruned`: the processed addresses are not all pruned
  (`prop_element_tracker.cpp:129`), and one that stays keeps the Init of the next
  actor there from announcing it.

Two more races are kept as hazards, excluded from `host_snapshot` by
its constants: a slot that becomes ready between the read of the aggregate state
and the slot loop of one tick has its fresh snapshot cleared by the aggregate
edge (with `Overlap`), and a peer that is half-open hears a spawn and then
misses the destroy when the last ready peer has left (`NoNewPhantoms` speaks of
ready clients).

## 5. What is proved

Every safety property that a passing run checks, whether an invariant, an action
property or a refinement, is stated by a theorem, for every value of the constants
that the assumptions named in the modules allow (`IdRangesAssumption`,
`ElementIdsAssumption`, `SessionAssumption`, `SnapshotAssumption`,
`TickAssumption`, `PoseStreamAssumption`, `PuppetAssumption`,
`ObserverTableAssumption`, `DispatcherAssumption`, `PropTrackerAssumption`,
`WeatherAssumption`, `FlashlightAssumption`, `NpcAssumption`,
`HeldPropAssumption`, `PropSyncAssumption`, `PeersAssumption`). These say that
bounds are naturals, that a value which stands for *none* is not one of the
others, and that what the program enumerates is finite: the props and the
seeded ones (a process has finitely many actors) and the clients, which
`Flashlight` numbers `1 .. n` as the slots are, because its replay goes through
them in order.

Some theorems have a hypothesis beyond that. Each is one that the runs satisfy,
and where it is FALSE section 4 or a hazard says what happens:

| hypothesis | theorems | what it excludes |
| --- | --- | --- |
| `~ Overlap`, `~ MissedEdges` | `JoinLatchAlwaysOccupants`, `NeverGhosts`, `CaughtUpAlwaysKnow`; the first alone: `NoNewPhantomsEver` | a callback in the middle of a tick, a slot that changes hands between two |
| `~ WorkersFirst` | `TasksInTurn` | a worker that makes the first call |
| `~ Stalls` | `MapAlwaysOwned` | a thread that is held up in an observer for whole ticks |
| `OwnedOnly`, `~ DropsBeforeJoin` | `WorldsAlwaysAgree`, `PropsAlwaysOnce` | taking what has no id with oneself, dropping or making something while somebody has yet to join |
| `EnoughIds` | `AlwaysAcquainted` | a client whose props use up its band; TLC evaluates it on the instance (`MCEnoughIds`) |

### Ids and players (`IdentityProofs`)

* **Bands**: the bands of two slots share no id, whatever the division leaves
  (`BandsDisjoint`).
* **Element layer**: `TypeCorrect`, `ResolutionSafe`, `OwnerMapsSafe`,
  `FreeIdsSafe`, `NoLeak`, the action property `DrainComplete`, and the
  refinement `ElementIdsImplementsIdTable`. The safety properties are not
  inductive. `IInv` adds that an element and its table entry point at each other
  (`IdsConsistent`), what a stage says of an element's id (`StagesConsistent`),
  that an owner map holds an element once, under its own id or under the wire id
  it is about to ask for (`OwnersConsistent`), and that the free stack is
  exactly the unused ids of the active area (`StackConsistent`). The last is what
  makes the allocators' divergence branch unreachable: a popped id is unused
  because unused and on the stack are the same thing.
* **Who is who**: `OneIdAlwaysOnePlayer`, `LabelsAlwaysDisplayable` and
  `AlwaysAcquainted`. `PeersInv` says of each process that its element for a slot
  is nothing, its own, or a mirror under the one id that the slot's player uses
  (`RegistryInv`), what a message under way may say (`MailInv`), and of any two
  that the one knows the other or will be introduced (`IntroInv`): to a client
  that has sent its Join the host's own Join is on its way, and what the host
  knows of two clients it has told both. That ids are one player's rests on
  `BandsDisjoint`. `PuppetsInv` counts ids: a process has lost none of its
  stock, so that a puppet finds one as long as the props leave it any.
  The nickname lemma finds the ends of a trimmed name by the first and last place
  that stays.

### The host (`SessionSlotsProofs`, `HostTickProofs`)

* **Slots**: `TagsAlwaysMatchSlots`, `RemoteAlwaysFromOccupant`,
  `StateAlwaysMatchesSlots`, for any overlap of the two threads. `SlotInv` adds
  where the callback is (`AtItsSlot`), that a ready slot is held unless it is
  just being given up (`ReadyIsHeld`), and how far the aggregate state trails the
  slots inside a callback (`StateTrails`). A step of the game thread leaves all
  its variables alone, so the argument is about `SessionSlots` alone and is
  lifted (`HostStepIsNetStep`).
* **Inbox**: `InboxAlwaysFromOccupant`, for any overlap. `QueueInv` says that a
  queued message is the occupant's, or the callback that gave up its slot has yet
  to purge it; that its sender was let in with that slot; and that it was queued
  while the slot was live. The purge is a `Kept`, of which `QueueLemmas` has what
  remains.
* **Identities and introductions**: `IdentityAlwaysKept` and
  `AlwaysIntroducedBothWays`, for any overlap and with missed edges. `JoinInv`: a
  client whose Join was handled had been told its slot, so its slot stays ready
  as long as it holds it, and no edge detector has a reason to clear it.
* **Join latch** (`JoinLatchAlwaysOccupants`): `LatchOnHeldSlot` says that a latched
  slot is one whose occupant the feed has seen, and that the occupant is the one
  it was latched for.
* **Ghosts** (`NeverGhosts`): `EdgeInv`: a slot that has something to show for a
  client is one the tick has seen ready, or one that is live; and the tick sees a
  slot come up before it is given up.
* **Snapshots** (`CaughtUpAlwaysKnow`): `SnapInv`: a ready slot whose edge has been
  handled, up to where the catch-up loop is, is queued, or is being drained to
  and what it lacks is still to come, or lacks nothing. Triggers, cancellations,
  teardowns and the start of the next drain have a lemma each that says that they
  forget no other slot.
* **Phantoms** (`NoNewPhantomsEver`): an action property; the drain sends only what
  lives, and a destroy reaches everyone who holds a slot as long as somebody is
  ready.

### Poses (`PosesProofs`)

* **Stream**: type correctness, `ViewerBehindHost`, the action properties
  `HostNeverStale` and `ViewerNeverStaleWithin`, and the refinement of
  `LatestPose` by host and viewer, all from `IInv`. It adds that numbers are used
  before they are seen (`NumbersUsed`), that what is in flight or stored trails its
  sender by less than half the range (`NumbersRecent`), and who may be heard
  (`FromHolders`). `NewerIsLarger`, the arithmetic of the wrapped comparison, then
  reduces every acceptance to a comparison of the numbers as given out.
* **Puppet**: `AlwaysShownAsPosed`, `RedOnlyIfHit`, `LabelAlwaysOfPuppet`. A frame is
  a pipeline of functions on one record, so each function has a lemma that says
  what of `PlayerInv` it keeps. `PlayerInv` says that the latches go with the body
  and the entry, and that a window that is over has brought the body to its
  target; `PuppetInv` adds what ties the player to its slot: that a pose which
  has been read is its target, and that a body outlives its holder by one frame.

### A process and its engine (`EngineProofs`)

* **Observer table**: type correctness, `TableExact`, `FiresAllDue` and
  `FiresOnlyRegistered`; the runs check `FiresAllDue`. `TableInv` says at each
  point of an operation what the table holds and how far the count trails its
  live slots; `WalkInv` that the live slots ahead of a walk are no more than what
  is left of its bound, that each callback due is called, about to be, or ahead,
  and what a matched slot may hold. The bound is where a registration breaks it
  (`Enough`), which is the condition `FiresAllDue` has and `NoneMissed` lacks.
* **Dispatcher** (`TasksInTurn`): `DispatcherInv` says that a worker's stack has
  calls only, that the guard `t_inPump` is set exactly while there is a pump on the
  game thread's stack, that there is one at most, that a task stands directly
  above it and is the last one started, that the queue is in order, and that all
  started before have ended.
* **Tracker** (`MapAlwaysOwned`): `TrackerInv` adds where an id is when it is in
  nobody's table: struck off by an observer that has yet to take it
  (`StruckThere`), or allocated and not yet entered (`MarkOwn`); that two
  living actors have two addresses; and that nothing else is under way on the game
  thread inside a takeObj (`OneThing`).

### Worlds (`WorldSyncProofs`, `PropsProofs`)

* **NPCs** (`MapAlwaysPointsHome`, `NeverGhostNpcs`): `NpcHostInv` follows an element
  through the dispatches around a spawn, and counts who releases another's;
  `ToldInv` says that what a client has been told, or is about to be, the host
  still has in hand, or the EntityDestroy is on its way behind every EntitySpawn.
* **Weather** (`LatestAlwaysWinsUndisturbed`, `ObserversAlwaysComeBack`): the last
  weather that a client was told is at one place, the end of its queue, its stash or
  its sky, unless its own game has changed that since (`KnowsLatest`); what the classes still loaded allow to observe bounds what
  was ever observed (`ObserversInv`).
* **Lamps** (`LampsAlwaysAgree`): what a player has heard of a lamp last is read off
  queue, cache, stash and puppet (`Heard` at the host, `Shows` at a client); what
  a client was told last is the lamp as it is, but for what its owner has said
  since (`ToldRight`); and a slot that the host's tick does not know has left
  nothing behind (`SlotsInv`). A replay of any number of slots is treated by its
  last word on one lamp.
* **Held props** (`LimpAlwaysDriven`): `HeldInv` adds the types of what peers send, of
  the wire, of the store, of the drives and of the world, and that a pose not yet
  read is one of a prop. The heart is `EndingDrives`: what ends drives frees or
  destroys the props that they were of, so none is left in the air with nobody to
  move it.
* **Props** (`WorldsAlwaysAgree`, `PropsAlwaysOnce`): of every key, the truth is what
  was last done to it by who had it in hand. `KeyInv` says that each stretch of
  the way to each world *settles* on the truth: its last message about the key
  does, or it is silent and the world at its end does already. All news of a key
  under way are one player's (`OneOrigin`), which is what makes a last message
  the last. A joiner is covered because a snapshot is sent on the lane of the
  spawns and destroys.

`QueueLemmas` has the facts on data that these need and that the library lacks:
what `Kept` leaves, in its order, of `SetToSeq`, of appending, and least and
greatest elements of sets of numbers. They are proved from well-founded
induction on an explicit relation and from cardinalities of finite sets, since
an induction theorem over an operator is out of the provers' reach. The type
correctness of every module is part of its invariant.

## 6. What is only model-checked

Liveness (`SnapshotsEnd`, `QueuedEventuallyDestroyed`, `PostedIsRun`, `InstallsHooked`,
`RedHeals`, `LetGoFalls`, `LiveTracked`, `DeadReaped`), because the prover does
not handle ENABLED and so no fairness; and the violations of section 4, which are
counterexamples. `Installs` has liveness only, and so no theorem.

## 7. Abstractions a reader should know of

* Payloads, names and wording are left out; a message is its kind, slot and
  sender. Within `HostTick`, other reliable kinds than Join and PropSpawn are not
  dispatched; the modules of their components have them.
* A re-seed in `PropSnapshot` finds at least one new prop; what a mass purge
  removes is the matter of `PropTracker`.
* The registry walk of a snapshot also returns the mirrors of clients' props;
  the world of `PropSnapshot` has the host's props only, that of `PropSync` all.
* An enumeration that finds nothing leaves the target slot set with no drain to
  end it (a hazard); `host_snapshot` keeps one permanent prop.
* A protocol mismatch (`net/session.cpp:433-458`) is not modelled: whether GNS
  reports a close that the host asked for is not in this repository.
* `MaybeSendJoinToSlot` retries while the send fails; the model merges the
  failed attempts with having nothing to do.
* `PropSync` keeps players from reaching for one key at a time (`Undisputed`), and
  with `OwnedOnly` from taking what has no id with them; the match of a spawn by
  place and class within 30 cm (`remote_prop_spawn.cpp:204-274`) is left out, as
  are props without a key, and the `Aprop_C` that a client's own game makes, which
  are left to the host (`prop_lifecycle.cpp:214-224`); the litter it makes
  (`Litter`) is not.
* `PropTracker` does not say which prop takes which exit of the observers; what
  `LiveTracked` says is of those that take none.
* `Flashlight` and `Weather` give a slot away only after the host's tick has seen
  it free; what happens otherwise is the matter of `HostTick`.
* `world_sync` touches one player's lamp at a time and `peers` spawns puppets and
  drops props on one process at a time: nothing that two of them do depends on
  each other, and all of it together is too large (`WideSpec`).
* In `Installs` a tick is one in which every installer does try: the countdowns
  between retries are left out.

## 8. Not modelled

The damage relay (one message without state); what the save hook and the garbage
interceptors do once they are up, which keeps no state; the animation observers of
`puppet.cpp`, ping and billboards; engine access through reflection and the SDK
profile, which are calls into a closed-source engine and constants; the
autotests, developer tools and the loader. They keep no protocol state, or sit
outside what a state machine of this mod can say.

## 9. What is left

1. The hypotheses of section 5 as they stand are needed; theorems that say
   exactly how far a property fails without them (which slots a missed edge
   spoils, which props a drop before the join doubles) would be stronger.
2. The caps of the tracker's tables, minted keys and the match by place.
3. Levels that change on several processes, with puppets, props and weather in one
   model.
