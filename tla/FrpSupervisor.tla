--------------------------- MODULE FrpSupervisor ---------------------------
(***************************************************************************)
(* FRPSupervisor (internal/tunnelruntime/frp_supervisor.go) with its two   *)
(* mutexes, watchers and timers, over the Unix child.                      *)
(*                                                                         *)
(* `operations' is held from the beginning to the end of Start, Stop,      *)
(* Restart, ConfigurationFailed, a watcher and a retry callback: pc is     *)
(* where its holder is, "free" if there is none.  `mu' covers single       *)
(* accesses, each a part of one step.  What needs no `operations' happens  *)
(* between any two steps: a process exits, a timer fires, the callback of  *)
(* a stable timer runs, another goroutine reads the state.                 *)
(***************************************************************************)
EXTENDS Naturals

CONSTANTS
    Pids,      \* children; a name is used again when nothing refers to it
    NoPid,
    Configs,   \* configuration files
    NoConfig,
    Timers,    \* retry timers, likewise
    NoTimer,
    Delays,    \* how many delays Backoff has
    Faults     \* what can fail: "spawn", "terminate", "kill"

ASSUME SupervisorAssumption ==
    /\ NoPid \notin Pids
    /\ NoConfig \notin Configs
    /\ NoTimer \notin Timers
    /\ Delays \in Nat \ {0}

VARIABLES
    child,           \* supervisor.child
    configPath,
    desiredRunning,
    failureCount,    \* as the index of the next delay
    retryTimer,
    waiting,         \* retry timers that have fired; each waits for operations
    stableTimer,     \* the child whose stable timer is running
    ripe,            \* children whose stable timer fired; each waits for mu
    state,           \* what State reports and observers are told
    watchers,        \* children with a watchExit that has not returned
    alive,           \* what each process runs with, NoConfig if it is dead
    lost,            \* history: those alive that SIGKILL could not be sent to
    op,              \* the operation under way
    pc,              \* its next step
    victim,          \* the child stopChild has taken
    stopFailed       \* stopChild has failed in the latest operation that
                     \* called it or went on to spawn

procVars == <<alive, lost>>
timerVars == <<retryTimer, waiting, stableTimer, ripe>>
opVars == <<op, pc, victim, stopFailed>>
supVars == <<child, configPath, desiredRunning, failureCount, state, watchers,
             procVars, timerVars, opVars>>

SupTypeOK ==
    /\ child \in Pids \cup {NoPid}
    /\ configPath \in Configs \cup {NoConfig}
    /\ desiredRunning \in BOOLEAN
    /\ failureCount \in 0..(Delays - 1)
    /\ retryTimer \in Timers \cup {NoTimer}
    /\ waiting \subseteq Timers
    /\ stableTimer \in Pids \cup {NoPid}
    /\ ripe \subseteq Pids
    /\ state \in {"stopped", "running", "recovering", "configuration_failed"}
    /\ watchers \subseteq Pids
    /\ alive \in [Pids -> Configs \cup {NoConfig}]
    /\ lost \subseteq Pids
    /\ op \in {"none", "start", "restart", "stop", "fail", "recover"}
    /\ pc \in {"free", "terminate", "waitExit", "waitKilled", "stopped",
               "spawn", "confirm"}
    /\ victim \in Pids \cup {NoPid}
    /\ pc \in {"terminate", "waitExit", "waitKilled"} => victim # NoPid
    /\ stopFailed \in BOOLEAN

SupInit ==
    /\ child = NoPid
    /\ configPath = NoConfig
    /\ desiredRunning = FALSE
    /\ failureCount = 0
    /\ retryTimer = NoTimer
    /\ waiting = {}
    /\ stableTimer = NoPid
    /\ ripe = {}
    /\ state = "stopped"
    /\ watchers = {}
    /\ alive = [p \in Pids |-> NoConfig]
    /\ lost = {}
    /\ op = "none"
    /\ pc = "free"
    /\ victim = NoPid
    /\ stopFailed = FALSE

-----------------------------------------------------------------------------
(* Shared parts of the operations *)

Alive(p) == alive[p] # NoConfig

\* Nothing refers to an earlier process of this name any more.
Unused(p) ==
    /\ ~Alive(p)
    /\ p \notin watchers \cup ripe \cup {child, victim, stableTimer}

\* Bound: a child is made only when there is a name for it.
Room == \E p \in Pids : Unused(p)

\* Stop on a timer that has fired does not take its callback back.
clearTimersLocked ==
    /\ retryTimer' = NoTimer
    /\ stableTimer' = NoPid

Unlock ==
    /\ op' = "none"
    /\ pc' = "free"
    /\ victim' = NoPid

\* The next delay is Backoff[min(failureCount, len(Backoff)-1)].
CountFailure ==
    failureCount' = IF failureCount + 1 < Delays THEN failureCount + 1 ELSE failureCount

\* scheduleRecoveryLocked, and the state that both of its callers publish.
ScheduleRecovery ==
    /\ CountFailure
    /\ state' = "recovering"
    /\ \E t \in Timers \ (waiting \cup {retryTimer}) : retryTimer' = t

GiveUp ==
    /\ desiredRunning' = FALSE
    /\ failureCount' = 0

TakeChildKeepsTimersBug ==
    /\ child' = NoPid
    /\ UNCHANGED <<retryTimer, stableTimer>>
    /\ victim' = child
    /\ stopFailed' = FALSE
    /\ pc' = IF child = NoPid THEN "stopped" ELSE "terminate"

\* stopChild up to the signal: the child is forgotten first.
TakeChild ==
    /\ child' = NoPid
    /\ clearTimersLocked
    /\ victim' = child
    /\ stopFailed' = FALSE
    /\ pc' = IF child = NoPid THEN "stopped" ELSE "terminate"

-----------------------------------------------------------------------------
(* The beginnings of the operations that a caller asks for *)

\* A call that returns at once leaves what it has recorded.
StartIgnoresChangeBug(path) ==
    /\ pc = "free" /\ Room
    /\ configPath' = IF path = NoConfig THEN configPath ELSE path
    /\ configPath' # NoConfig
    /\ desiredRunning' = TRUE
    /\ IF child # NoPid
       THEN UNCHANGED <<child, retryTimer, stableTimer, opVars>>
       ELSE /\ op' = "start"
            /\ pc' = "spawn"
            /\ stopFailed' = FALSE
            /\ UNCHANGED <<child, retryTimer, stableTimer, victim>>
    /\ UNCHANGED <<failureCount, state, waiting, ripe, watchers, procVars>>

\* start up to stopChild or spawn.  The path "" is that of the last Start; if
\* there was none the call fails and changes nothing.
Start(path) ==
    /\ pc = "free" /\ Room
    /\ configPath' = IF path = NoConfig THEN configPath ELSE path
    /\ configPath' # NoConfig
    /\ desiredRunning' = TRUE
    /\ \/ /\ child # NoPid /\ configPath' = configPath
          /\ UNCHANGED <<child, retryTimer, stableTimer, opVars>>
       \/ /\ child # NoPid /\ configPath' # configPath
          /\ op' = "start"
          /\ TakeChild
       \/ /\ child = NoPid
          /\ op' = "start"
          /\ pc' = "spawn"
          /\ stopFailed' = FALSE
          /\ UNCHANGED <<child, retryTimer, stableTimer, victim>>
    /\ UNCHANGED <<failureCount, state, waiting, ripe, watchers, procVars>>

Restart ==
    /\ pc = "free" /\ Room
    /\ configPath # NoConfig
    /\ desiredRunning' = TRUE
    /\ op' = "restart"
    /\ TakeChild
    /\ UNCHANGED <<configPath, failureCount, state, waiting, ripe, watchers,
                   procVars>>

\* Stop and ConfigurationFailed differ in the state they publish.
Quit(request) ==
    /\ pc = "free"
    /\ GiveUp
    /\ op' = request
    /\ TakeChild
    /\ UNCHANGED <<configPath, state, waiting, ripe, watchers, procVars>>

Stop == Quit("stop")

ConfigurationFailed == Quit("fail")

-----------------------------------------------------------------------------
(* stopChild *)

stopUnchanged == <<child, configPath, desiredRunning, failureCount, state,
                   watchers, alive, timerVars, op, victim>>

\* Kill: SIGKILL to the group; only if it could be sent is the exit awaited.
Kill(failed) ==
    \/ /\ pc' = "waitKilled"
       /\ stopFailed' = failed
       /\ UNCHANGED lost
    \/ /\ "kill" \in Faults /\ Alive(victim)
       /\ pc' = "stopped"
       /\ stopFailed' = TRUE
       /\ lost' = lost \cup {victim}

\* A group that is gone (ESRCH) counts as signalled.
Terminate ==
    /\ pc = "terminate"
    /\ \/ pc' = "waitExit" /\ UNCHANGED <<stopFailed, lost>>
       \/ "terminate" \in Faults /\ Alive(victim) /\ Kill(TRUE)
    /\ UNCHANGED stopUnchanged

WaitExitForeverBug ==
    /\ pc = "waitExit"
    /\ ~Alive(victim) /\ pc' = "stopped"
    /\ UNCHANGED <<stopUnchanged, stopFailed, lost>>

\* The exit, or StopTimeout and a SIGKILL.
WaitExit ==
    /\ pc = "waitExit"
    /\ \/ ~Alive(victim) /\ pc' = "stopped" /\ UNCHANGED <<stopFailed, lost>>
       \/ Alive(victim) /\ Kill(FALSE)
    /\ UNCHANGED stopUnchanged

WaitKilled ==
    /\ pc = "waitKilled"
    /\ ~Alive(victim)
    /\ pc' = "stopped"
    /\ UNCHANGED <<stopUnchanged, stopFailed, lost>>

\* Back in the caller.  Stop and ConfigurationFailed publish whether the child
\* could be stopped or not; Start and Restart return the error.
StopReturns ==
    /\ pc = "stopped"
    /\ \/ /\ op = "stop"
          /\ state' = "stopped"
          /\ Unlock
       \/ /\ op = "fail"
          /\ state' = "configuration_failed"
          /\ Unlock
       \/ /\ op \in {"start", "restart"} /\ stopFailed
          /\ Unlock
          /\ UNCHANGED state
       \/ /\ op \in {"start", "restart"} /\ ~stopFailed
          /\ pc' = "spawn"
          /\ victim' = NoPid
          /\ UNCHANGED <<state, op>>
    /\ UNCHANGED <<child, configPath, desiredRunning, failureCount, watchers,
                   procVars, timerVars, stopFailed>>

-----------------------------------------------------------------------------
(* spawn and confirmActivation *)

\* A retry does not wait for the activation.
Spawn(p) ==
    /\ pc = "spawn"
    /\ Unused(p)
    /\ alive' = [alive EXCEPT ![p] = configPath]
    /\ retryTimer' = NoTimer
    /\ child' = p
    /\ state' = "running"
    /\ stableTimer' = p
    /\ watchers' = watchers \cup {p}
    /\ IF op = "recover"
       THEN Unlock
       ELSE pc' = "confirm" /\ UNCHANGED <<op, victim>>
    /\ UNCHANGED <<configPath, desiredRunning, failureCount, waiting, ripe, lost,
                   stopFailed>>

\* stopAfterStartFailure, or recoverySpawnFailed.
SpawnFails ==
    /\ "spawn" \in Faults
    /\ pc = "spawn"
    /\ Unlock
    /\ \/ /\ op = "recover"
          /\ ScheduleRecovery
          /\ UNCHANGED <<desiredRunning, stableTimer>>
       \/ /\ op # "recover"
          /\ GiveUp
          /\ clearTimersLocked
          /\ state' = "stopped"
    /\ UNCHANGED <<child, configPath, watchers, procVars, waiting, ripe, stopFailed>>

\* The activation grace passes, or the child exits within it
\* (activationExited; child is the one that was spawned, as operations is held).
Confirm ==
    /\ pc = "confirm"
    /\ Unlock
    /\ \/ /\ Alive(child)
          /\ UNCHANGED <<child, desiredRunning, failureCount, state, retryTimer,
                         stableTimer>>
       \/ /\ ~Alive(child)
          /\ child' = NoPid
          /\ GiveUp
          /\ clearTimersLocked
          /\ state' = "stopped"
    /\ UNCHANGED <<configPath, watchers, procVars, waiting, ripe, stopFailed>>

-----------------------------------------------------------------------------
(* Watchers, retry timers and stable timers *)

watchUnchanged == <<configPath, desiredRunning, procVars, waiting, ripe, opVars>>

WatchExitAnyChildBug(p) ==
    /\ pc = "free"
    /\ p \in watchers /\ ~Alive(p)
    /\ watchers' = watchers \ {p}
    /\ child' = NoPid
    /\ stableTimer' = NoPid
    /\ IF desiredRunning
       THEN ScheduleRecovery
       ELSE state' = "stopped" /\ UNCHANGED <<failureCount, retryTimer>>
    /\ UNCHANGED watchUnchanged

\* By the time it has the mutex the child may be another one.
WatchExit(p) ==
    /\ pc = "free"
    /\ p \in watchers /\ ~Alive(p)
    /\ watchers' = watchers \ {p}
    /\ IF child # p
       THEN UNCHANGED <<child, stableTimer, failureCount, state, retryTimer>>
       ELSE /\ child' = NoPid
            /\ stableTimer' = NoPid
            /\ IF desiredRunning
               THEN ScheduleRecovery
               ELSE state' = "stopped" /\ UNCHANGED <<failureCount, retryTimer>>
    /\ UNCHANGED watchUnchanged

TimerFires ==
    /\ retryTimer \notin waiting \cup {NoTimer}
    /\ waiting' = waiting \cup {retryTimer}
    /\ UNCHANGED <<child, configPath, desiredRunning, failureCount, retryTimer,
                   stableTimer, ripe, state, watchers, procVars, opVars>>

timerUnchanged == <<child, configPath, desiredRunning, failureCount, stableTimer,
                    ripe, state, watchers, procVars, victim, stopFailed>>

TimerRunsUncheckedBug(t) ==
    /\ pc = "free"
    /\ t \in waiting
    /\ waiting' = waiting \ {t}
    /\ Room /\ retryTimer' = NoTimer /\ op' = "recover" /\ pc' = "spawn"
    /\ UNCHANGED timerUnchanged

\* By the time it has the mutex a request may have cleared or replaced it.
TimerRuns(t) ==
    /\ pc = "free"
    /\ t \in waiting
    /\ waiting' = waiting \ {t}
    /\ IF retryTimer = t /\ desiredRunning /\ child = NoPid
       THEN Room /\ retryTimer' = NoTimer /\ op' = "recover" /\ pc' = "spawn"
       ELSE UNCHANGED <<retryTimer, op, pc>>
    /\ UNCHANGED timerUnchanged

StableFires ==
    /\ stableTimer # NoPid
    /\ ripe' = ripe \cup {stableTimer}
    /\ stableTimer' = NoPid
    /\ UNCHANGED <<child, configPath, desiredRunning, failureCount, retryTimer,
                   waiting, state, watchers, procVars, opVars>>

stableUnchanged == <<child, configPath, desiredRunning, retryTimer, waiting,
                     stableTimer, state, watchers, procVars, opVars>>

StableRunsUncheckedBug(p) ==
    /\ p \in ripe
    /\ ripe' = ripe \ {p}
    /\ failureCount' = 0
    /\ UNCHANGED stableUnchanged

\* The closure compares the child it was made for.
StableRuns(p) ==
    /\ p \in ripe
    /\ ripe' = ripe \ {p}
    /\ failureCount' = IF child = p THEN 0 ELSE failureCount
    /\ UNCHANGED stableUnchanged

\* By itself, by its SIGTERM or by its SIGKILL.
Exits(p) ==
    /\ Alive(p)
    /\ alive' = [alive EXCEPT ![p] = NoConfig]
    /\ lost' = lost \ {p}
    /\ UNCHANGED <<child, configPath, desiredRunning, failureCount, state,
                   watchers, timerVars, opVars>>

-----------------------------------------------------------------------------

Operating ==
    \/ Terminate \/ WaitExit \/ WaitKilled \/ StopReturns
    \/ \E p \in Pids : Spawn(p)
    \/ SpawnFails \/ Confirm

SupNext ==
    \/ \E path \in Configs \cup {NoConfig} : Start(path)
    \/ Restart \/ Stop \/ ConfigurationFailed
    \/ Operating
    \/ \E p \in Pids : WatchExit(p) \/ StableRuns(p) \/ Exits(p)
    \/ TimerFires \/ StableFires
    \/ \E t \in Timers : TimerRuns(t)

SupSpec == SupInit /\ [][SupNext]_supVars

(***************************************************************************)
(* Operations go on; goroutines that wait for the mutex get it (a starving *)
(* waiter is served first); timers fire; a process that was sent SIGKILL   *)
(* dies; a spawn that is tried again and again succeeds at last.  Nothing  *)
(* is assumed of requests and of processes by themselves.                  *)
(***************************************************************************)
SupFairness ==
    /\ WF_supVars(Operating)
    /\ SF_supVars(\E p \in Pids : Spawn(p) /\ op = "recover")
    /\ WF_supVars(TimerFires)
    /\ \A p \in Pids : /\ SF_supVars(WatchExit(p))
                       /\ WF_supVars(StableRuns(p))
                       /\ WF_supVars(pc = "waitKilled" /\ p = victim /\ Exits(p))
    /\ \A t \in Timers : SF_supVars(TimerRuns(t))

FairSupSpec == SupSpec /\ SupFairness

-----------------------------------------------------------------------------
(***************************************************************************)
(* The owner's view: the supervisor implements FrpChild.  A process that   *)
(* SIGKILL could not be sent to counts as fallen: the supervisor has told  *)
(* its caller so and has let go of it.                                     *)
(***************************************************************************)
Seen == [p \in Pids |-> IF p \in lost THEN NoConfig ELSE alive[p]]

Promise == INSTANCE FrpChild WITH
    wanted <- desiredRunning, config <- configPath, alive <- Seen

\* Whatever is under way, an FRP process starts only while one is wanted, with
\* the configuration wanted then and after the last one is dead: also when a
\* retry timer fires into a Stop or a Start, a watcher is late or SIGTERM fails.
KeepsPromise == Promise!ChildSpec

\* When no operation is under way nothing runs but the child, and that only
\* while it is wanted: Stop, ConfigurationFailed and a Start that failed leave
\* no process behind, except one that SIGKILL could not be sent to.
NothingLeft ==
    pc = "free" =>
        \A p \in Pids : Alive(p) => p \in lost \/ (p = child /\ desiredRunning)

\* A Start or Restart that could not stop the old child leaves it at that.
StoppedWithError == stopFailed /\ desiredRunning

\* State tells an owner, who has nothing else to go by, whether there is a
\* child, one to come, or none to expect, unless Start or Restart has returned
\* the error of stopping the old child and nothing was asked since.
TruthfulState ==
    pc = "free" /\ ~StoppedWithError =>
        /\ state = "running" <=> child # NoPid
        /\ state = "recovering" <=> retryTimer # NoTimer
        /\ state \in {"running", "recovering"} <=> desiredRunning

\* The delay before a restart falls back to the first one only when the child
\* is given up, or has itself lasted StableAfter: a crash loop is not reset by
\* the timer of a child that is gone.
FailuresForgotten ==
    [][failureCount' < failureCount => ~desiredRunning' \/ child \in ripe]_supVars

\* Nobody holds `operations' for ever, also when signals cannot be sent.
OperationsEnd == pc # "free" ~> pc = "free"

\* A wanted child comes up with the configuration wanted, however it dies and
\* is replaced, unless it is given up or the owner has been told of the error.
WantedIsServed ==
    desiredRunning ~>
        (~desiredRunning \/ StoppedWithError \/ \E p \in Pids : alive[p] = configPath)
=============================================================================
