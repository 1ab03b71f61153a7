------------------------ MODULE FrpSupervisor_proofs ------------------------
(***************************************************************************)
(* Proofs about FrpSupervisor, for all sets of processes, configurations   *)
(* and timers, and any number of delays.  The argument:                    *)
(*   - whoever holds `operations' is the only one to change child and      *)
(*     desiredRunning, so that what it knows at its pc stays true          *)
(*     (HolderInv);                                                        *)
(*   - a process that is alive is the child, the one that stopChild has    *)
(*     taken and still waits for, or one it could not kill (AliveInv);     *)
(*   - the published state follows, unless stopChild has failed and its    *)
(*     caller has returned that (StateInv).                                *)
(***************************************************************************)
EXTENDS FrpSupervisor, TLAPS

-----------------------------------------------------------------------------
(* Types *)

LEMMA FirstDelay == 0 \in 0..(Delays - 1)
  BY SupervisorAssumption

LEMMA InitType == SupInit => SupTypeOK
  BY FirstDelay, Zenon DEF SupInit, SupTypeOK

\* Every step keeps the types; the index of the next delay stays in range.
LEMMA NextType ==
  ASSUME SupTypeOK, [SupNext]_supVars
  PROVE  SupTypeOK'
<1> USE SupervisorAssumption DEF SupTypeOK, opVars, timerVars, procVars
<1>1. ASSUME NEW path \in Configs \cup {NoConfig}, Start(path) PROVE SupTypeOK'
  <2> USE <1>1 DEF Start
  <2>1. CASE child # NoPid /\ configPath' = configPath
    BY <2>1
  <2>2. CASE child # NoPid /\ configPath' # configPath
    BY <2>2 DEF TakeChild, clearTimersLocked
  <2>3. CASE child = NoPid
    BY <2>3
  <2> QED
    BY <2>1, <2>2, <2>3
<1>2. CASE Restart
  BY <1>2 DEF Restart, TakeChild, clearTimersLocked
<1>3. CASE Stop \/ ConfigurationFailed
  BY <1>3, FirstDelay, Zenon DEF Stop, ConfigurationFailed, Quit, GiveUp, TakeChild, clearTimersLocked
<1>4. CASE Terminate \/ WaitExit \/ WaitKilled
  BY <1>4 DEF Terminate, WaitExit, WaitKilled, Kill, stopUnchanged
<1>5. CASE StopReturns
  BY <1>5 DEF StopReturns, Unlock
<1>6. ASSUME NEW p \in Pids, Spawn(p) PROVE SupTypeOK'
  BY <1>6 DEF Spawn, Unlock
<1>7. CASE SpawnFails
  <2>1. CASE op = "recover"
    <3>1. failureCount' \in 0..(Delays - 1)
      BY <1>7, <2>1 DEF SpawnFails, ScheduleRecovery, CountFailure
    <3> QED
      BY <1>7, <2>1, <3>1, Zenon DEF SpawnFails, Unlock, ScheduleRecovery
  <2>2. CASE op # "recover"
    BY <1>7, <2>2, FirstDelay, Zenon DEF SpawnFails, Unlock, GiveUp, clearTimersLocked
  <2> QED
    BY <2>1, <2>2
<1>8. CASE Confirm
  BY <1>8, FirstDelay, Zenon DEF Confirm, Unlock, GiveUp, clearTimersLocked
<1>9. ASSUME NEW p \in Pids, WatchExit(p) PROVE SupTypeOK'
  BY <1>9 DEF WatchExit, watchUnchanged, ScheduleRecovery, CountFailure
<1>10. ASSUME NEW p \in Pids, StableRuns(p) \/ Exits(p) PROVE SupTypeOK'
  BY <1>10 DEF StableRuns, stableUnchanged, Exits
<1>11. CASE TimerFires \/ StableFires
  BY <1>11 DEF TimerFires, StableFires
<1>12. ASSUME NEW t \in Timers, TimerRuns(t) PROVE SupTypeOK'
  BY <1>12 DEF TimerRuns, timerUnchanged
<1>13. CASE UNCHANGED supVars
  BY <1>13 DEF supVars
<1> QED
  BY <1>1, <1>2, <1>3, <1>4, <1>5, <1>6, <1>7, <1>8, <1>9, <1>10, <1>11, <1>12,
     <1>13 DEF SupNext, Operating

\* All fields stay in range; in particular the index into Backoff.
THEOREM SupTypeCorrect == SupSpec => []SupTypeOK
  BY InitType, NextType, PTL DEF SupSpec

-----------------------------------------------------------------------------
(* What the holder of `operations' may take for granted *)

Stopping == pc \in {"terminate", "waitExit", "waitKilled", "stopped"}

HolderInv ==
    /\ pc = "free" <=> op = "none"
    /\ op = "recover" => pc = "spawn"
    /\ Stopping => op # "recover"
    /\ Stopping \/ pc = "spawn" => child = NoPid
    /\ pc \in {"spawn", "confirm"} => op \notin {"stop", "fail"} /\ desiredRunning
    /\ pc = "confirm" => child # NoPid
    /\ child # NoPid => desiredRunning
    /\ op \in {"stop", "fail"} <=> Stopping /\ ~desiredRunning
    /\ desiredRunning => configPath # NoConfig

\* A process that is alive is supervised or being stopped.
AliveInv ==
    \A p \in Pids :
        /\ Alive(p) => \/ p \in lost
                       \/ p = child
                       \/ p = victim /\ pc \in {"terminate", "waitExit", "waitKilled"}
        /\ p \in lost => Alive(p)

LEMMA HolderInit == SupInit => HolderInv /\ AliveInv
  BY DEF SupInit, HolderInv, AliveInv, Alive, Stopping

LEMMA HolderNext ==
  ASSUME SupTypeOK, HolderInv, [SupNext]_supVars
  PROVE  HolderInv'
<1> USE SupervisorAssumption DEF HolderInv, Stopping, opVars
<1>1. ASSUME NEW path \in Configs \cup {NoConfig}, Start(path) PROVE HolderInv'
  BY <1>1 DEF Start, TakeChild
<1>2. CASE Restart
  BY <1>2 DEF Restart, TakeChild
<1>3. CASE Stop \/ ConfigurationFailed
  BY <1>3 DEF Stop, ConfigurationFailed, Quit, GiveUp, TakeChild
<1>4. CASE Terminate \/ WaitExit \/ WaitKilled
  BY <1>4 DEF Terminate, WaitExit, WaitKilled, Kill, stopUnchanged
<1>5. CASE StopReturns
  BY <1>5 DEF StopReturns, Unlock, SupTypeOK
<1>6. ASSUME NEW p \in Pids, Spawn(p) PROVE HolderInv'
  BY <1>6 DEF Spawn, Unlock
<1>7. CASE SpawnFails
  BY <1>7 DEF SpawnFails, Unlock, GiveUp
<1>8. CASE Confirm
  BY <1>8 DEF Confirm, Unlock, GiveUp
<1>9. ASSUME NEW p \in Pids, WatchExit(p) PROVE HolderInv'
  BY <1>9 DEF WatchExit, watchUnchanged
<1>10. ASSUME NEW p \in Pids, StableRuns(p) \/ Exits(p) PROVE HolderInv'
  BY <1>10 DEF StableRuns, stableUnchanged, Exits
<1>11. CASE TimerFires \/ StableFires
  BY <1>11 DEF TimerFires, StableFires
<1>12. ASSUME NEW t \in Timers, TimerRuns(t) PROVE HolderInv'
  BY <1>12 DEF TimerRuns, timerUnchanged
<1>13. CASE UNCHANGED supVars
  BY <1>13 DEF supVars
<1> QED
  BY <1>1, <1>2, <1>3, <1>4, <1>5, <1>6, <1>7, <1>8, <1>9, <1>10, <1>11, <1>12,
     <1>13 DEF SupNext, Operating

\* stopChild returns only when its victim is dead or lost; Spawn comes after that.
LEMMA AliveNext ==
  ASSUME SupTypeOK, HolderInv, AliveInv, [SupNext]_supVars
  PROVE  AliveInv'
<1> USE SupervisorAssumption DEF AliveInv, HolderInv, Stopping, opVars, procVars, Alive
<1>1. ASSUME NEW path \in Configs \cup {NoConfig}, Start(path) PROVE AliveInv'
  BY <1>1 DEF Start, TakeChild
<1>2. CASE Restart
  BY <1>2 DEF Restart, TakeChild
<1>3. CASE Stop \/ ConfigurationFailed
  BY <1>3 DEF Stop, ConfigurationFailed, Quit, TakeChild
<1>4. CASE Terminate \/ WaitExit \/ WaitKilled
  BY <1>4 DEF Terminate, WaitExit, WaitKilled, Kill, stopUnchanged
<1>5. CASE StopReturns
  BY <1>5 DEF StopReturns, Unlock
<1>6. ASSUME NEW p \in Pids, Spawn(p) PROVE AliveInv'
  BY <1>6 DEF Spawn, Unlock, SupTypeOK
<1>7. CASE SpawnFails
  BY <1>7 DEF SpawnFails, Unlock
<1>8. CASE Confirm
  BY <1>8 DEF Confirm, Unlock
<1>9. ASSUME NEW p \in Pids, WatchExit(p) PROVE AliveInv'
  BY <1>9 DEF WatchExit, watchUnchanged
<1>10. ASSUME NEW p \in Pids, StableRuns(p) \/ Exits(p) PROVE AliveInv'
  BY <1>10 DEF StableRuns, stableUnchanged, Exits, SupTypeOK
<1>11. CASE TimerFires \/ StableFires
  BY <1>11 DEF TimerFires, StableFires
<1>12. ASSUME NEW t \in Timers, TimerRuns(t) PROVE AliveInv'
  BY <1>12 DEF TimerRuns, timerUnchanged
<1>13. CASE UNCHANGED supVars
  BY <1>13 DEF supVars
<1> QED
  BY <1>1, <1>2, <1>3, <1>4, <1>5, <1>6, <1>7, <1>8, <1>9, <1>10, <1>11, <1>12,
     <1>13 DEF SupNext, Operating

\* No FRP process outlives the operation that ends it, and none but the
\* supervised one runs between operations, the lost ones excepted.
THEOREM NothingIsLeft == SupSpec => []NothingLeft
<1>1. HolderInv /\ AliveInv => NothingLeft
  BY SupervisorAssumption DEF HolderInv, AliveInv, NothingLeft
<1> QED
  BY <1>1, InitType, NextType, HolderInit, HolderNext, AliveNext, PTL DEF SupSpec

\* The "exactly one running FRP child" of Start's comment: never two, not even
\* in the middle of an operation, the lost ones excepted.
THEOREM NeverTwo == SupSpec => []Promise!AtMostOne
<1>1. HolderInv /\ AliveInv => Promise!AtMostOne
  BY SupervisorAssumption DEF HolderInv, AliveInv, Alive, Stopping, Seen, Promise!AtMostOne
<1> QED
  BY <1>1, InitType, NextType, HolderInit, HolderNext, AliveNext, PTL DEF SupSpec

-----------------------------------------------------------------------------
(* The owner's view *)

\* Each step of the supervisor is one of the child or invisible to the owner.
LEMMA PromiseStep ==
  ASSUME SupTypeOK, HolderInv, AliveInv, [SupNext]_supVars
  PROVE  [Promise!ChildNext]_(Promise!childVars)
<1> USE SupervisorAssumption DEF opVars, timerVars, procVars, Promise!childVars
<1>0. ASSUME UNCHANGED procVars PROVE UNCHANGED Seen
  BY <1>0 DEF Seen
<1>1. ASSUME NEW path \in Configs \cup {NoConfig}, Start(path)
      PROVE  Promise!Wish(configPath') /\ configPath' \in Configs
  <2>1. UNCHANGED procVars /\ desiredRunning' = TRUE /\ configPath' \in Configs
    BY <1>1 DEF Start, SupTypeOK
  <2> QED
    BY <1>0, <2>1 DEF Promise!Wish
<1>2. ASSUME Restart PROVE Promise!Wish(configPath) /\ configPath \in Configs
  <2>1. UNCHANGED <<procVars, configPath>> /\ desiredRunning' = TRUE
    BY <1>2 DEF Restart
  <2>2. configPath \in Configs
    BY <1>2 DEF Restart, SupTypeOK
  <2> QED
    BY <1>0, <2>1, <2>2 DEF Promise!Wish
<1>3. ASSUME Stop \/ ConfigurationFailed PROVE Promise!Drop
  <2>1. UNCHANGED <<procVars, configPath>> /\ desiredRunning' = FALSE
    BY <1>3 DEF Stop, ConfigurationFailed, Quit, GiveUp
  <2> QED
    BY <1>0, <2>1 DEF Promise!Drop
<1>4. ASSUME Terminate \/ WaitExit \/ WaitKilled
      PROVE  UNCHANGED Promise!childVars \/ (victim \in Pids /\ Promise!Fall(victim))
  <2>1. UNCHANGED <<configPath, desiredRunning, alive>>
    BY <1>4 DEF Terminate, WaitExit, WaitKilled, stopUnchanged
  <2>2. UNCHANGED lost \/ (victim \in Pids /\ lost' = lost \cup {victim})
    BY <1>4 DEF Terminate, WaitExit, WaitKilled, Kill, SupTypeOK
  <2>3. CASE UNCHANGED lost
    BY <1>0, <2>1, <2>3
  <2>4. CASE victim \in Pids /\ lost' = lost \cup {victim}
    <3>1. Seen' = [Seen EXCEPT ![victim] = NoConfig]
      BY <2>1, <2>4 DEF Seen
    <3> QED
      BY <2>1, <2>4, <3>1 DEF Promise!Fall
  <2> QED
    BY <2>2, <2>3, <2>4
<1>5. ASSUME StopReturns PROVE UNCHANGED Promise!childVars
  BY <1>5, <1>0 DEF StopReturns
<1>6. ASSUME NEW p \in Pids, Spawn(p) PROVE Promise!Rise(p)
  <2>1. Promise!Nobody
    BY <1>6 DEF Spawn, HolderInv, AliveInv, Alive, Seen, Promise!Nobody
  <2>2. p \notin lost /\ UNCHANGED lost /\ alive' = [alive EXCEPT ![p] = configPath]
    BY <1>6 DEF Spawn, Unused, AliveInv
  <2>3. Seen' = [Seen EXCEPT ![p] = configPath]
    BY <2>2 DEF Seen, SupTypeOK
  <2> QED
    BY <1>6, <2>1, <2>3 DEF Spawn, HolderInv, Promise!Rise
<1>7. ASSUME SpawnFails PROVE UNCHANGED Promise!childVars \/ Promise!Drop
  <2>1. UNCHANGED <<procVars, configPath>>
    BY <1>7 DEF SpawnFails
  <2>2. UNCHANGED desiredRunning \/ desiredRunning' = FALSE
    BY <1>7 DEF SpawnFails, GiveUp
  <2> QED
    BY <1>0, <2>1, <2>2 DEF Promise!Drop
<1>8. ASSUME Confirm PROVE UNCHANGED Promise!childVars \/ Promise!Drop
  <2>1. UNCHANGED <<procVars, configPath>>
    BY <1>8 DEF Confirm
  <2>2. UNCHANGED desiredRunning \/ desiredRunning' = FALSE
    BY <1>8 DEF Confirm, GiveUp
  <2> QED
    BY <1>0, <2>1, <2>2 DEF Promise!Drop
<1>9. ASSUME NEW p \in Pids, WatchExit(p) \/ StableRuns(p)
      PROVE  UNCHANGED Promise!childVars
  BY <1>9, <1>0 DEF WatchExit, watchUnchanged, StableRuns, stableUnchanged
<1>10. ASSUME NEW p \in Pids, Exits(p) PROVE Promise!Fall(p)
  <2>1. Seen' = [Seen EXCEPT ![p] = NoConfig]
    BY <1>10 DEF Exits, Seen, SupTypeOK
  <2> QED
    BY <1>10, <2>1 DEF Exits, Promise!Fall
<1>11. ASSUME TimerFires \/ StableFires PROVE UNCHANGED Promise!childVars
  BY <1>11, <1>0 DEF TimerFires, StableFires
<1>12. ASSUME NEW t \in Timers, TimerRuns(t) PROVE UNCHANGED Promise!childVars
  BY <1>12, <1>0 DEF TimerRuns, timerUnchanged
<1>13. ASSUME UNCHANGED supVars PROVE UNCHANGED Promise!childVars
  BY <1>13, <1>0 DEF supVars
<1> QED
  BY <1>1, <1>2, <1>3, <1>4, <1>5, <1>6, <1>7, <1>8, <1>9, <1>10, <1>11, <1>12,
     <1>13 DEF SupNext, Operating, Promise!ChildNext

\* The supervisor implements FrpChild: late watchers, timers that fire into a
\* request and failed signals never start an FRP process that is not wanted,
\* with an old configuration, or next to a live one.
THEOREM ImplementsPromise == SupSpec => KeepsPromise
<1>1. SupInit => Promise!ChildInit
  BY DEF SupInit, Seen, Promise!ChildInit
<1> QED
  BY <1>1, InitType, NextType, HolderInit, HolderNext, AliveNext, PromiseStep, PTL
     DEF SupSpec, KeepsPromise, Promise!ChildSpec

-----------------------------------------------------------------------------
(* The published state *)

\* In an operation the timers are cleared before anything is waited for, and
\* what spawn has published still holds while the activation is confirmed.
StateInv ==
    /\ TruthfulState
    /\ pc \in {"spawn", "confirm"} \/ child # NoPid => ~stopFailed
    /\ stopFailed => retryTimer = NoTimer
    /\ Stopping => retryTimer = NoTimer
    /\ pc = "confirm" => state = "running" /\ retryTimer = NoTimer

LEMMA StateInit == SupInit => StateInv
  BY SupervisorAssumption DEF SupInit, StateInv, TruthfulState, StoppedWithError, Stopping

LEMMA StateNext ==
  ASSUME SupTypeOK, HolderInv, StateInv, [SupNext]_supVars
  PROVE  StateInv'
<1> USE SupervisorAssumption DEF StateInv, TruthfulState, StoppedWithError, HolderInv, Stopping, opVars
<1>1. ASSUME NEW path \in Configs \cup {NoConfig}, Start(path) PROVE StateInv'
  BY <1>1 DEF Start, TakeChild, clearTimersLocked
<1>2. CASE Restart
  BY <1>2 DEF Restart, TakeChild, clearTimersLocked
<1>3. CASE Stop \/ ConfigurationFailed
  BY <1>3 DEF Stop, ConfigurationFailed, Quit, GiveUp, TakeChild, clearTimersLocked
<1>4. CASE Terminate \/ WaitExit \/ WaitKilled
  BY <1>4 DEF Terminate, WaitExit, WaitKilled, Kill, stopUnchanged, timerVars
<1>5. CASE StopReturns
  BY <1>5 DEF StopReturns, Unlock, timerVars
<1>6. ASSUME NEW p \in Pids, Spawn(p) PROVE StateInv'
  BY <1>6 DEF Spawn, Unlock
<1>7. CASE SpawnFails
  <2>1. CASE op = "recover"
    <3>1. child' = NoPid /\ desiredRunning' /\ state' = "recovering" /\ retryTimer' # NoTimer
      BY <1>7, <2>1 DEF SpawnFails, ScheduleRecovery
    <3>2. pc' = "free" /\ ~stopFailed'
      BY <1>7, Zenon DEF SpawnFails, Unlock
    <3> QED
      BY <3>1, <3>2
  <2>2. CASE op # "recover"
    BY <1>7, <2>2 DEF SpawnFails, Unlock, GiveUp, clearTimersLocked
  <2> QED
    BY <2>1, <2>2
<1>8. CASE Confirm
  BY <1>8 DEF Confirm, Unlock, GiveUp, clearTimersLocked
<1>9. ASSUME NEW p \in Pids, WatchExit(p) PROVE StateInv'
  BY <1>9 DEF WatchExit, watchUnchanged, ScheduleRecovery
<1>10. ASSUME NEW p \in Pids, StableRuns(p) \/ Exits(p) PROVE StateInv'
  BY <1>10 DEF StableRuns, stableUnchanged, Exits, timerVars
<1>11. CASE TimerFires \/ StableFires
  BY <1>11 DEF TimerFires, StableFires
<1>12. ASSUME NEW t \in Timers, TimerRuns(t) PROVE StateInv'
  BY <1>12 DEF TimerRuns, timerUnchanged
<1>13. CASE UNCHANGED supVars
  BY <1>13 DEF supVars, timerVars
<1> QED
  BY <1>1, <1>2, <1>3, <1>4, <1>5, <1>6, <1>7, <1>8, <1>9, <1>10, <1>11, <1>12,
     <1>13 DEF SupNext, Operating

\* State is what an owner may act on, also when signals fail: only the caller of
\* Start or Restart who has been given that error knows better.
THEOREM StateIsTruthful == SupSpec => []TruthfulState
<1>1. StateInv => TruthfulState
  BY DEF StateInv
<1> QED
  BY <1>1, InitType, NextType, HolderInit, HolderNext, StateInit, StateNext, PTL DEF SupSpec

-----------------------------------------------------------------------------
(* The failure count *)

LEMMA ForgettingStep ==
  ASSUME SupTypeOK, SupTypeOK', [SupNext]_supVars, failureCount' < failureCount
  PROVE  ~desiredRunning' \/ child \in ripe
<1> USE SupervisorAssumption DEF SupTypeOK
<1>1. CASE GiveUp
  BY <1>1 DEF GiveUp
<1>2. ASSUME NEW p \in Pids, StableRuns(p) PROVE child \in ripe
  BY <1>2 DEF StableRuns
<1>3. CASE failureCount' = failureCount \/ CountFailure
  BY <1>3 DEF CountFailure
<1> QED
  BY <1>1, <1>2, <1>3
     DEF SupNext, Operating, Start, Restart, Stop, ConfigurationFailed, Quit,
         Terminate, WaitExit, WaitKilled, stopUnchanged, StopReturns, Spawn,
         SpawnFails, ScheduleRecovery, Confirm, WatchExit, watchUnchanged, Exits,
         TimerFires, StableFires, TimerRuns, timerUnchanged, supVars

\* Only giving up, or a child that has lasted, shortens the next delay.
THEOREM CrashLoopsAreNotForgotten == SupSpec => FailuresForgotten
  BY InitType, NextType, ForgettingStep, PTL DEF SupSpec, FailuresForgotten

-----------------------------------------------------------------------------
(***************************************************************************)
(* What the liveness properties rest on: whoever has to act is there.      *)
(* The runs show that it does act under the fairness assumed; here, that   *)
(* no interleaving and no failed signal leaves nobody to do it.            *)
(***************************************************************************)

(***************************************************************************)
(* Between operations a wanted child runs with the configuration wanted,   *)
(* or is dead and still watched by the watchExit that will notice it, or   *)
(* the timer of its restart is armed (the safety core of WantedIsServed).  *)
(***************************************************************************)
WantedIsCaredFor ==
    desiredRunning /\ pc = "free" /\ ~StoppedWithError =>
        \/ child = NoPid /\ retryTimer # NoTimer
        \/ child # NoPid /\ alive[child] = configPath
        \/ child # NoPid /\ ~Alive(child) /\ child \in watchers

(***************************************************************************)
(* stopChild waits only for the exit of a process that can be ended: never *)
(* for one that SIGKILL could not be sent to (the safety core of           *)
(* OperationsEnd).                                                         *)
(***************************************************************************)
NoEndlessWait == pc \in {"waitExit", "waitKilled"} => victim \in Pids \ lost

(***************************************************************************)
(* After failures, the stable timer of the running child is running or has *)
(* fired: a child that lasts brings the delay back to the first one,       *)
(* however many timers of children before it have fired late.              *)
(***************************************************************************)
BackoffHeals ==
    failureCount # 0 /\ child # NoPid => stableTimer = child \/ child \in ripe

CareInv ==
    /\ child # NoPid => child \in watchers \ lost
    /\ child # NoPid /\ Alive(child) => alive[child] = configPath
    /\ pc \in {"terminate", "waitExit", "waitKilled"} => victim \in Pids \ lost
    /\ BackoffHeals

LEMMA CareInit == SupInit => CareInv
  BY DEF SupInit, CareInv, BackoffHeals

LEMMA CareNext ==
  ASSUME SupTypeOK, HolderInv, AliveInv, CareInv, [SupNext]_supVars
  PROVE  CareInv'
<1> USE SupervisorAssumption
    DEF CareInv, BackoffHeals, SupTypeOK, HolderInv, Stopping, opVars, Alive
<1>1. ASSUME NEW path \in Configs \cup {NoConfig}, Start(path) PROVE CareInv'
  BY <1>1 DEF Start, TakeChild, procVars
<1>2. CASE Restart
  BY <1>2 DEF Restart, TakeChild, procVars
<1>3. CASE Stop \/ ConfigurationFailed
  BY <1>3 DEF Stop, ConfigurationFailed, Quit, TakeChild, procVars
<1>4. CASE Terminate \/ WaitExit \/ WaitKilled
  BY <1>4 DEF Terminate, WaitExit, WaitKilled, Kill, stopUnchanged, timerVars
<1>5. CASE StopReturns
  BY <1>5 DEF StopReturns, Unlock, procVars, timerVars
<1>6. ASSUME NEW p \in Pids, Spawn(p) PROVE CareInv'
  <2>1. p \notin lost /\ ~Alive(p)
    BY <1>6 DEF Spawn, Unused, AliveInv
  <2> QED
    BY <1>6, <2>1 DEF Spawn, Unlock
<1>7. CASE SpawnFails
  <2>1. child' = NoPid /\ pc' = "free"
    BY <1>7 DEF SpawnFails, Unlock
  <2> QED
    BY <2>1
<1>8. CASE Confirm
  BY <1>8 DEF Confirm, Unlock, procVars
<1>9. ASSUME NEW p \in Pids, WatchExit(p) PROVE CareInv'
  <2>1. CASE child = p
    BY <1>9, <2>1 DEF WatchExit, watchUnchanged
  <2>2. CASE child # p
    BY <1>9, <2>2 DEF WatchExit, watchUnchanged, procVars
  <2> QED
    BY <2>1, <2>2
<1>10. ASSUME NEW p \in Pids, StableRuns(p) \/ Exits(p) PROVE CareInv'
  BY <1>10 DEF StableRuns, stableUnchanged, Exits, procVars, timerVars
<1>11. CASE TimerFires \/ StableFires
  BY <1>11 DEF TimerFires, StableFires, procVars
<1>12. ASSUME NEW t \in Timers, TimerRuns(t) PROVE CareInv'
  BY <1>12 DEF TimerRuns, timerUnchanged, procVars
<1>13. CASE UNCHANGED supVars
  BY <1>13 DEF supVars, procVars, timerVars
<1> QED
  BY <1>1, <1>2, <1>3, <1>4, <1>5, <1>6, <1>7, <1>8, <1>9, <1>10, <1>11, <1>12,
     <1>13 DEF SupNext, Operating

LEMMA CareInvariance == SupSpec => [](HolderInv /\ StateInv /\ CareInv)
  BY InitType, NextType, HolderInit, HolderNext, AliveNext, StateInit, StateNext,
     CareInit, CareNext, PTL DEF SupSpec

\* Whatever dies, fires late or fails, a wanted child is served, watched or due.
THEOREM WantedIsNeverForgotten == SupSpec => []WantedIsCaredFor
<1>1. HolderInv /\ StateInv /\ CareInv => WantedIsCaredFor
  BY DEF HolderInv, StateInv, TruthfulState, CareInv, WantedIsCaredFor
<1> QED
  BY <1>1, CareInvariance, PTL

\* stopChild never waits for a process it could not kill.
THEOREM WaitsCanEnd == SupSpec => []NoEndlessWait
<1>1. CareInv => NoEndlessWait
  BY DEF CareInv, NoEndlessWait
<1> QED
  BY <1>1, CareInvariance, PTL

\* The failure count of a running child has a timer that will clear it.
THEOREM DelaysFallBack == SupSpec => []BackoffHeals
<1>1. CareInv => BackoffHeals
  BY DEF CareInv
<1> QED
  BY <1>1, CareInvariance, PTL
=============================================================================
