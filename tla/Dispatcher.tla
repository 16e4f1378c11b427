----------------------------- MODULE Dispatcher -----------------------------
(***************************************************************************)
(* The ProcessEvent detour of one process with the tasks it runs, the      *)
(* timeline thread that posts most of them, and the end of the process     *)
(* (ue_wrap/game_thread.cpp, ue_wrap/hook.cpp, harness/harness.cpp,        *)
(* coop/shutdown.cpp, net/session.cpp).                                    *)
(*                                                                         *)
(* The engine calls functions on its game thread and on workers; a task,   *)
(* an interceptor, an observer and the body of a function may call others. *)
(* What a thread is doing is a stack: calls at their stages, and tasks.    *)
(* The tables that the stages walk are in ObserverTable.                   *)
(***************************************************************************)
EXTENDS Integers, Sequences, SequencesExt

CONSTANTS
    EngineGameThread,   \* the engine's game thread
    EngineWorkers,      \* its task graph threads that call ProcessEvent
    WorkersFirst,       \* whether a worker may make the first call of all
    MaxDepth,           \* bound: calls and tasks nested on the game thread
    MaxWorkerDepth,     \* bound: calls nested on a worker
    MaxTasks,           \* bound: tasks that are posted
    MaxBoots            \* rounds of BootStorySaveBlocking (80 in the code)

EngineThreads == {EngineGameThread} \cup EngineWorkers
NoThread == 0
Deepest(t) == IF t = EngineGameThread THEN MaxDepth ELSE MaxWorkerDepth

(* The engine's game thread is none of its workers; thread ids are not 0.  *)
ASSUME DispatcherAssumption ==
    EngineGameThread \notin EngineWorkers /\ NoThread \notin EngineThreads

VARIABLES
    installed,      \* g_installed and the hook with its trampoline
    gameThreadId,   \* g_gameThreadId, or NoThread
    queue,          \* g_queue: tasks, numbered as they are posted
    posted,         \* how many there have been
    inPump,         \* t_inPump of each thread
    stack,          \* what each thread is in, outermost first
    left,           \* the tasks that have returned or faulted
    timeline,       \* where TimelineThread is
    awaited,        \* the task whose flag it spins on, or 0
    flag,           \* that flag: "pending", "retry" or "ok"
    boots,          \* rounds it has made
    closing,        \* DoShutdown: "no", "flagged", "stopped", "done"
    session         \* the net session: "idle", "running" or "stopped"

taskVars == <<queue, posted, inPump, stack, left>>
timelineVars == <<timeline, awaited, boots>>
dispatcherVars == <<installed, gameThreadId, taskVars, timelineVars, flag, closing, session>>

(* A call at a stage, or a task; whether it has made a call itself.        *)
Call(stage) == [stage |-> stage, task |-> 0, nested |-> FALSE]
Running(k) == [stage |-> "task", task |-> k, nested |-> FALSE]

DispatcherInit ==
    /\ installed = FALSE /\ gameThreadId = NoThread
    /\ queue = <<>> /\ posted = 0 /\ left = {}
    /\ inPump = [t \in EngineThreads |-> FALSE]
    /\ stack = [t \in EngineThreads |-> <<>>]
    /\ timeline = "boot" /\ awaited = 0 /\ flag = "pending" /\ boots = 0
    /\ closing = "no" /\ session = "idle"

(* The stage thread t is at, on top of its stack.                          *)
At(t, stages) == stack[t] # <<>> /\ Last(stack[t]).stage \in stages

Replaced(t, frames) == [stack EXCEPT ![t] = frames]
GoesTo(t, stage) ==
    stack' = Replaced(t, Append(Front(stack[t]), [Last(stack[t]) EXCEPT !.stage = stage]))
Leaves(t) == stack' = Replaced(t, Front(stack[t]))

-----------------------------------------------------------------------------
(* The detour.                                                             *)

Install ==
    /\ ~installed /\ closing = "no"
    /\ installed' = TRUE
    /\ UNCHANGED <<gameThreadId, taskVars, timelineVars, flag, closing, session>>

Post(k) == posted' = k /\ queue' = Append(queue, k)

(* Mutant: the guard against pumping inside a task is forgotten.           *)
PumpsInside(t, latched) == t = latched /\ queue # <<>>

(* Whether a call drains the queue first: on the thread that made the      *)
(* first call of all, unless it is in the pump already. The code takes     *)
(* that one for the engine's game thread (game_thread.cpp:474-475).        *)
Pumps(t, latched) == ~inPump[t] /\ t = latched /\ queue # <<>>

Calling(t) ==
    IF stack[t] = <<>> THEN <<>> ELSE [stack[t] EXCEPT ![Len(stack[t])].nested = TRUE]

(* Thread t calls a function, from the engine's loop or out of whatever it *)
(* is in (bound: a call and a task make one call themselves). While        *)
(* DoShutdown has the game thread, it calls nothing.                       *)
Dispatch(t) ==
    /\ installed
    /\ Len(stack[t]) < Deepest(t)
    /\ stack[t] # <<>> => ~Last(stack[t]).nested
    /\ gameThreadId = NoThread => WorkersFirst \/ t = EngineGameThread
    /\ stack[t] = <<>> \/ At(t, {"before", "original", "after", "task"})
    /\ t = EngineGameThread => closing \in {"no", "done"}
    /\ \E latched \in {IF gameThreadId = NoThread THEN t ELSE gameThreadId} :
        /\ gameThreadId' = latched
        /\ IF Pumps(t, latched)
             THEN /\ stack' = Replaced(t, Append(Calling(t), Call("pump")))
                  /\ inPump' = [inPump EXCEPT ![t] = TRUE]
             ELSE /\ stack' = Replaced(t, Append(Calling(t), Call("before")))
                  /\ UNCHANGED inPump
    /\ UNCHANGED <<installed, queue, posted, left, timelineVars, flag, closing, session>>

(* The pump takes a task out under the lock and runs it unlocked; when the *)
(* queue is empty the guard is taken back and the call goes on.            *)
PumpNext(t) ==
    /\ At(t, {"pump"}) /\ queue # <<>>
    /\ queue' = Tail(queue)
    /\ stack' = Replaced(t, Append(stack[t], Running(Head(queue))))
    /\ UNCHANGED <<installed, gameThreadId, posted, inPump, left, timelineVars, flag, closing, session>>

PumpEnds(t) ==
    /\ At(t, {"pump"}) /\ queue = <<>>
    /\ GoesTo(t, "before")
    /\ inPump' = [inPump EXCEPT ![t] = FALSE]
    /\ UNCHANGED <<installed, gameThreadId, queue, posted, left, timelineVars, flag, closing, session>>

(* A task may post another: the lock is not held.                          *)
TaskPosts(t) ==
    /\ At(t, {"task"}) /\ posted < MaxTasks
    /\ Post(posted + 1)
    /\ UNCHANGED <<installed, gameThreadId, inPump, stack, left, timelineVars, flag, closing, session>>

(* A task returns; the one the timeline waits for has set its flag.        *)
TaskReturns(t) ==
    /\ At(t, {"task"})
    /\ \E k \in {Last(stack[t]).task} :
        /\ left' = left \cup {k}
        /\ IF k = awaited THEN flag' \in {"retry", "ok"} ELSE UNCHANGED flag
    /\ Leaves(t)
    /\ UNCHANGED <<installed, gameThreadId, queue, posted, inPump, timelineVars, closing, session>>

(* Mutant: a fault is caught outside the pump, and no destructor runs.     *)
FaultLeavesPump(t) ==
    /\ At(t, {"task"})
    /\ left' = left \cup {Last(stack[t]).task}
    /\ stack' = Replaced(t, Front(Front(stack[t])))
    /\ UNCHANGED <<installed, gameThreadId, queue, posted, inPump, timelineVars, flag, closing, session>>

(* A task faults before it sets its flag: RunTaskSEH catches it, the pump  *)
(* goes on.                                                                *)
TaskFaults(t) ==
    /\ At(t, {"task"})
    /\ left' = left \cup {Last(stack[t]).task}
    /\ Leaves(t)
    /\ UNCHANGED <<installed, gameThreadId, queue, posted, inPump, timelineVars, flag, closing, session>>

(* An interceptor takes the call over: no body, no observers.              *)
Cancel(t) ==
    /\ At(t, {"before"}) /\ Leaves(t)
    /\ UNCHANGED <<installed, gameThreadId, queue, posted, inPump, left, timelineVars, flag, closing, session>>

(* Interceptors let it pass, PRE observers have run (a fault in one is     *)
(* caught): the original is called, through the trampoline.                *)
Forward(t) ==
    /\ At(t, {"before"}) /\ GoesTo(t, "original")
    /\ UNCHANGED <<installed, gameThreadId, queue, posted, inPump, left, timelineVars, flag, closing, session>>

(* The body has returned, POST observers are next.                         *)
Returned(t) ==
    /\ At(t, {"original"}) /\ GoesTo(t, "after")
    /\ UNCHANGED <<installed, gameThreadId, queue, posted, inPump, left, timelineVars, flag, closing, session>>

(* The call is over: POST observers have run, or the body has faulted and  *)
(* the outer frame has caught it, without them.                            *)
Over(t) ==
    /\ At(t, {"original", "after"}) /\ Leaves(t)
    /\ UNCHANGED <<installed, gameThreadId, queue, posted, inPump, left, timelineVars, flag, closing, session>>

-----------------------------------------------------------------------------
(* The timeline thread (scenario "play").                                  *)

(* One round of BootStorySaveBlocking: post a task, then spin on its flag. *)
BootRound ==
    /\ timeline = "boot" /\ installed
    /\ boots < MaxBoots /\ closing = "no"
    /\ posted < MaxTasks
    /\ Post(posted + 1)
    /\ awaited' = posted + 1 /\ flag' = "pending"
    /\ boots' = boots + 1 /\ timeline' = "spin"
    /\ UNCHANGED <<installed, gameThreadId, inPump, stack, left, closing, session>>

SpinEnds ==
    /\ timeline = "spin" /\ flag # "pending"
    /\ timeline' = IF flag = "ok" THEN "start" ELSE "boot"
    /\ awaited' = 0
    /\ UNCHANGED <<installed, gameThreadId, taskVars, flag, boots, closing, session>>

(* The save is not loaded in time, or the process is shutting down: what   *)
(* BootStorySaveBlocking returns is not looked at.                         *)
BootGivesUp ==
    /\ timeline = "boot" /\ installed
    /\ boots = MaxBoots \/ closing # "no"
    /\ timeline' = "start"
    /\ UNCHANGED <<installed, gameThreadId, taskVars, awaited, boots, flag, closing, session>>

SessionStart ==
    /\ timeline = "start"
    /\ session' = "running" /\ timeline' = "loop"
    /\ UNCHANGED <<installed, gameThreadId, taskVars, awaited, boots, flag, closing>>

(* Every 8 ms a tick is posted, run or not.                                *)
PostTick ==
    /\ timeline = "loop" /\ closing = "no"
    /\ posted < MaxTasks
    /\ Post(posted + 1)
    /\ UNCHANGED <<installed, gameThreadId, inPump, stack, left, timelineVars, flag, closing, session>>

LoopEnds ==
    /\ timeline = "loop" /\ closing # "no"
    /\ timeline' = "ended"
    /\ UNCHANGED <<installed, gameThreadId, taskVars, awaited, boots, flag, closing, session>>

-----------------------------------------------------------------------------
(* The end: the window's procedure runs DoShutdown on the game thread,     *)
(* once, between two calls.                                                *)

Close ==
    /\ installed /\ closing = "no" /\ stack[EngineGameThread] = <<>>
    /\ closing' = "flagged"
    /\ UNCHANGED <<installed, gameThreadId, taskVars, timelineVars, flag, session>>

StopSession ==
    /\ closing = "flagged"
    /\ closing' = "stopped"
    /\ session' = IF session = "running" THEN "stopped" ELSE session
    /\ UNCHANGED <<installed, gameThreadId, taskVars, timelineVars, flag>>

(* Uninstall clears the tables and takes the hook out; Shutdown frees the  *)
(* trampolines. Whoever is inside the detour stays there.                  *)
Uninstall ==
    /\ closing = "stopped"
    /\ closing' = "done" /\ installed' = FALSE
    /\ UNCHANGED <<gameThreadId, taskVars, timelineVars, flag, session>>

TaskStep(t) == PumpNext(t) \/ PumpEnds(t) \/ TaskPosts(t) \/ TaskReturns(t) \/ TaskFaults(t)
CallStep(t) == Dispatch(t) \/ Cancel(t) \/ Forward(t) \/ Returned(t) \/ Over(t)
TimelineStep == BootRound \/ SpinEnds \/ BootGivesUp \/ SessionStart \/ PostTick \/ LoopEnds
ShutdownStep == Close \/ StopSession \/ Uninstall

DispatcherNext ==
    \/ Install
    \/ \E t \in EngineThreads : CallStep(t) \/ TaskStep(t)
    \/ TimelineStep
    \/ ShutdownStep

(* The game makes calls again and again, and goes on with the one it is in *)
(* and with what the pump runs; each makes finitely many others.           *)
GameThreadGoesOn ==
    \/ CallStep(EngineGameThread) \/ PumpNext(EngineGameThread) \/ PumpEnds(EngineGameThread)
    \/ TaskReturns(EngineGameThread) \/ TaskFaults(EngineGameThread)

DispatcherFairness == WF_dispatcherVars(GameThreadGoesOn)

DispatcherSpec ==
    DispatcherInit /\ [][DispatcherNext]_dispatcherVars /\ DispatcherFairness

-----------------------------------------------------------------------------
TasksOn(t) == {i \in DOMAIN stack[t] : stack[t][i].task # 0}

(* A task is run on the engine's game thread, after all that were posted   *)
(* before it have ended, however calls and tasks nest: the one-thread-at-  *)
(* a-time order that every handler of a tick relies on                     *)
(* (game_thread.cpp:400-404, 470-475).                                     *)
OneAfterAnother ==
    \A t \in EngineThreads : \A i \in TasksOn(t) :
        /\ t = EngineGameThread
        /\ 1..(stack[t][i].task - 1) \subseteq left

(* What is posted is run in the end, whatever faults before it, unless the *)
(* process is closed first: the pump's guard cannot be left set            *)
(* (game_thread.cpp:483-490, the permanent freeze of 2026-05-30).          *)
PostedIsRun == []<>(1..posted \subseteq left \/ closing # "no")

(* Stated by the code, and refuted (see the README).                       *)

(* shutdown.h:24: "Every infinite worker loop in the project polls         *)
(* IsShuttingDown()".                                                      *)
ShutdownEndsTimeline == [](closing = "flagged" => <>(timeline = "ended"))

(* shutdown.h:18: "stop the net session (joins NetThread)", for good.      *)
StaysStopped == closing = "done" => session # "running"

(* game_thread.cpp:600-605: the original can be called to the end.         *)
OriginalCallable == closing = "done" => \A t \in EngineThreads : stack[t] = <<>>
=============================================================================
