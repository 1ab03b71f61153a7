---------------------------- MODULE NodeRuntime ----------------------------
(***************************************************************************)
(* The runtime of a tunnel Node (pkg/cmd/tunnel/node/node_runtime.go): one *)
(* Node process that accepts desired snapshots from its Controller, drives *)
(* one FRPS child through them, and can die between any two steps.         *)
(*                                                                         *)
(* A step is one durable write, one operation on the supervisor, or one    *)
(* decision: those are the points at which a crash, an FRPS exit or the    *)
(* supervisor's own recovery can fall.  runtime.mu is held from the first  *)
(* step of recover or applyAccepted to its last; handler.mu from Accept.   *)
(* FRPS runs in its own process group and outlives the Node.               *)
(***************************************************************************)
EXTENDS NodeRecord

CONSTANTS
    Pids,         \* FRPS incarnations (a PID with its creation time)
    NoPid,        \* owner_pid = 0, and a nil child
    Faults,       \* the operations that may fail, see FaultKinds
    MaxCrashes    \* bound: how often the Node process dies

(***************************************************************************)
(* files: the directory scan of recover, or deleting or writing a file     *)
(* verify: `frps verify` rejects the configuration                         *)
(* spawn: the FRPS process cannot be created                               *)
(* stop: the child can be neither terminated nor killed, or its resources  *)
(*       not released; the supervisor has dropped it all the same          *)
(* identity: the process table does not confirm who a PID is               *)
(* store: a write to node.sqlite fails and changes nothing                 *)
(***************************************************************************)
FaultKinds == {"files", "verify", "spawn", "stop", "identity", "store"}

ASSUME FaultsAssumption == Faults \subseteq FaultKinds
ASSUME NoPidAssumption == NoPid \notin Pids
ASSUME MaxCrashesAssumption == MaxCrashes \in Nat

VARIABLES
    bound,          \* a Controller has claimed this Node
    owner,          \* owner_pid and the columns beside it
    files,          \* the snapshots whose frps-<digest>.* files exist
    proc,           \* what each FRPS incarnation serves, NoSnapshot if dead
    pc,             \* the next step of the Node; "down" when it is not running
    task,           \* on whose behalf an FRPS is being started
    code,           \* the failure code of rollback and fail, or "none"
    prepared,       \* runtime.supervisor # nil
    child,          \* supervisor.child, and with it supervisor.state.PID
    retry,          \* the supervisor's recovery timer is armed
    config,         \* supervisor.configPath
    activeConfig,   \* runtime.activeConfig
    trackers,       \* trackRecovery goroutines waiting for runtime.mu, by PID
    tracking,       \* the one that has it
    ownerUnknown,   \* runtime.ownerUnknown
    recoveryError,  \* runtime.recoveryError is set
    crashes         \* how often the Node has died

supVars == <<child, retry, config>>
trackVars == <<trackers, tracking>>
nodeVars == <<prepared, activeConfig, ownerUnknown, recoveryError>>
vars == <<recordVars, bound, owner, files, proc, pc, task, code, supVars,
          trackVars, nodeVars, crashes>>

RecoverSteps == {"recover", "recoverClear", "recoverRecord", "recoverFiles",
                 "recoverDisabled", "recoverPrepare"}
StartSteps   == {"start", "confirm", "remember"}
ApplySteps   == {"apply", "switch", "stopOld", "clearOld", "commit"}
DisableSteps == {"disable", "disableStop", "disableClear", "disableFiles",
                 "disableCommit"}
UndoSteps    == {"rollback", "rollbackClear", "fail"}
Steps == {"down", "idle"} \cup RecoverSteps \cup StartSteps \cup ApplySteps
           \cup DisableSteps \cup UndoSteps

TypeOK ==
    /\ RecordTypeOK
    /\ bound \in BOOLEAN
    /\ owner \in Pids \cup {NoPid}
    /\ files \subseteq Offers
    /\ proc \in [Pids -> Offers \cup {NoSnapshot}]
    /\ pc \in Steps
    /\ task \in {"recover", "apply", "rollback"}
    /\ code \in Failures \cup {"none"}
    /\ prepared \in BOOLEAN
    /\ child \in Pids \cup {NoPid}
    /\ retry \in BOOLEAN
    /\ config \in Offers \cup {NoSnapshot}
    /\ activeConfig \in Offers \cup {NoSnapshot}
    /\ trackers \subseteq Pids
    /\ tracking \in Pids \cup {NoPid}
    /\ ownerUnknown \in BOOLEAN
    /\ recoveryError \in BOOLEAN
    /\ crashes \in 0..MaxCrashes

Init ==
    /\ RecordInit
    /\ bound = FALSE
    /\ owner = NoPid
    /\ files = {}
    /\ proc = [p \in Pids |-> NoSnapshot]
    /\ pc = "down"
    /\ task = "recover"
    /\ code = "none"
    /\ prepared = FALSE
    /\ child = NoPid
    /\ retry = FALSE
    /\ config = NoSnapshot
    /\ activeConfig = NoSnapshot
    /\ trackers = {}
    /\ tracking = NoPid
    /\ ownerUnknown = FALSE
    /\ recoveryError = FALSE
    /\ crashes = 0

-----------------------------------------------------------------------------
(* Helpers *)

Alive(p) == p # NoPid /\ proc[p] # NoSnapshot

\* An incarnation for the next FRPS.  A goroutine left over from an earlier
\* use of a PID does what the new one does, so it need not be excluded.
Fresh(p) == ~Alive(p) /\ p # owner

MayFail(fault) == fault \in Faults

\* runtime.mu is free: no recover, applyAccepted or trackRecovery is inside.
RuntimeFree == pc \in {"idle", "apply"} /\ tracking = NoPid

\* A step of recover or applyAccepted; trackRecovery is not inside.
Step(at) == pc = at /\ tracking = NoPid

Goto(next) == pc' = next

\* recover returns no code, or one that Run keeps in runtime.recoveryError.
RecoverReturns(failed) ==
    /\ Goto("idle")
    /\ recoveryError' = failed

(***************************************************************************)
(* FRPSupervisor.Stop and FRPSupervisor.spawn, as NodeRuntime uses them:   *)
(* stopChild drops the child and the timers before it terminates the       *)
(* process; spawn publishes the new PID, and the observer that prepare     *)
(* installs starts a trackRecovery goroutine for it.  (A definition named  *)
(* ...Bug is not part of the model: it is the mutation that a property     *)
(* must catch.)                                                            *)
(***************************************************************************)
StopChildLeavesProcessBug(failed) ==
    /\ child' = NoPid
    /\ retry' = FALSE
    /\ ~failed
    /\ UNCHANGED <<proc, config>>

StopChild(failed) ==
    /\ child' = NoPid
    /\ retry' = FALSE
    /\ failed => MayFail("stop") /\ child # NoPid
    /\ \/ proc' = IF child = NoPid THEN proc ELSE [proc EXCEPT ![child] = NoSnapshot]
       \/ failed /\ UNCHANGED proc
    /\ UNCHANGED config

SpawnUntrackedBug(path) ==
    \E p \in Pids :
        /\ Fresh(p)
        /\ proc' = [proc EXCEPT ![p] = path]
        /\ child' = p
        /\ retry' = FALSE
        /\ config' = path
        /\ UNCHANGED trackers

Spawn(path) ==
    \E p \in Pids :
        /\ Fresh(p)
        /\ proc' = [proc EXCEPT ![p] = path]
        /\ child' = p
        /\ retry' = FALSE
        /\ config' = path
        /\ trackers' = trackers \cup {p}

\* rememberOwner: CaptureFRPSOwner confirms the child that State() names and
\* setNodeV1Owner records it.
RememberOwner == child # NoPid /\ Alive(child) /\ owner' = child

RememberOwnerFails ==
    /\ child = NoPid \/ ~Alive(child) \/ MayFail("identity") \/ MayFail("store")
    /\ UNCHANGED owner

\* A write to node.sqlite: it happens, or it fails and the handler returns.
WriteFails == MayFail("store") /\ UNCHANGED recordVars

-----------------------------------------------------------------------------
(* Start of the Node process: OpenState, then recover *)

Boot ==
    /\ pc = "down"
    /\ Reopenable
    /\ Goto("recover")
    /\ UNCHANGED <<recordVars, bound, owner, files, proc, task, code, supVars,
                   trackVars, nodeVars, crashes>>

\* The scan for abandoned transfers fails, or there is no Controller yet.
RecoverNothing ==
    /\ Step("recover")
    /\ \/ MayFail("files") /\ RecoverReturns(TRUE)
       \/ ~bound /\ RecoverReturns(highest # 0 \/ applied # 0)
    /\ UNCHANGED <<recordVars, bound, owner, files, proc, task, code, supVars,
                   trackVars, prepared, activeConfig, ownerUnknown, crashes>>

TerminateOwnerSkippedBug == UNCHANGED proc

TerminateOwner == proc' = [proc EXCEPT ![owner] = NoSnapshot]

\* VerifyFRPSOwner and TerminateOwnedFRPS on the process the last run recorded.
RecoverOwner ==
    /\ Step("recover") /\ bound
    /\ \/ /\ owner = NoPid
          /\ Goto("recoverRecord")
          /\ UNCHANGED <<proc, ownerUnknown, recoveryError>>
       \/ /\ owner # NoPid
          /\ TerminateOwner
          /\ Goto("recoverClear")
          /\ UNCHANGED <<ownerUnknown, recoveryError>>
       \/ /\ owner # NoPid
          /\ MayFail("identity") \/ (Alive(owner) /\ MayFail("stop"))
          /\ ownerUnknown' = TRUE
          /\ RecoverReturns(TRUE)
          /\ UNCHANGED proc
    /\ UNCHANGED <<recordVars, bound, owner, files, task, code, supVars,
                   trackVars, prepared, activeConfig, crashes>>

RecoverClear ==
    /\ Step("recoverClear")
    /\ \/ owner' = NoPid /\ Goto("recoverRecord") /\ UNCHANGED recoveryError
       \/ MayFail("store") /\ RecoverReturns(TRUE) /\ UNCHANGED owner
    /\ UNCHANGED <<recordVars, bound, files, proc, task, code, supVars,
                   trackVars, prepared, activeConfig, ownerUnknown, crashes>>

\* A disabled Node: a running candidate waits for its Controller, a disabled
\* one is carried through.
RecoverDisabledRecord ==
    /\ Step("recoverRecord") /\ bootDisabled
    /\ IF ~disabledComplete /\ candidate.state = "running"
         THEN \/ SetPhase("interrupted", "none") /\ RecoverReturns(FALSE)
              \/ WriteFails /\ RecoverReturns(TRUE)
         ELSE Goto("recoverFiles") /\ UNCHANGED <<recordVars, recoveryError>>
    /\ UNCHANGED <<bound, owner, files, proc, task, code, supVars, trackVars,
                   prepared, activeConfig, ownerUnknown, crashes>>

RecoverFiles ==
    /\ Step("recoverFiles")
    /\ \/ /\ files' = {}
          /\ IF disabledComplete
               THEN RecoverReturns(FALSE)
               ELSE Goto("recoverDisabled") /\ UNCHANGED recoveryError
       \/ /\ MayFail("files")
          /\ files' \in SUBSET files
          /\ RecoverReturns(TRUE)
    /\ UNCHANGED <<recordVars, bound, owner, proc, task, code, supVars,
                   trackVars, prepared, activeConfig, ownerUnknown, crashes>>

RecoverDisabled ==
    /\ Step("recoverDisabled")
    /\ \/ MarkDisabled /\ RecoverReturns(FALSE)
       \/ WriteFails /\ RecoverReturns(TRUE)
    /\ UNCHANGED <<bound, owner, files, proc, task, code, supVars, trackVars,
                   prepared, activeConfig, ownerUnknown, crashes>>

HalfDoneOnlySwitchingBug == phase = "switching"

HalfDone == phase \in {"accepted", "switching"}

\* A Node that was not disabled: note what was interrupted, then bring back
\* the last successful configuration.
RecoverRunningRecord ==
    /\ Step("recoverRecord") /\ ~bootDisabled
    /\ \/ /\ IF HalfDone
               THEN SetPhase("interrupted", "none")
               ELSE UNCHANGED recordVars
          /\ IF lastGood = NoSnapshot
               THEN RecoverReturns(FALSE)
               ELSE Goto("recoverPrepare") /\ UNCHANGED recoveryError
       \/ /\ HalfDone
          /\ WriteFails
          /\ RecoverReturns(TRUE)
    /\ UNCHANGED <<bound, owner, files, proc, task, code, supVars, trackVars,
                   prepared, activeConfig, ownerUnknown, crashes>>

RecoverPrepare ==
    /\ Step("recoverPrepare")
    /\ \/ /\ prepared' = TRUE
          /\ files' = files \cup {lastGood}
          /\ \/ Goto("start") /\ UNCHANGED recoveryError
             \/ MayFail("verify") /\ RecoverReturns(TRUE)
       \/ /\ MayFail("files")
          /\ prepared' \in BOOLEAN
          /\ UNCHANGED files
          /\ RecoverReturns(TRUE)
    /\ task' = "recover"
    /\ UNCHANGED <<recordVars, bound, owner, proc, code, supVars, trackVars,
                   activeConfig, ownerUnknown, crashes>>

-----------------------------------------------------------------------------
(* Starting an FRPS and recording it, for recover, applyAccepted or rollback *)

StartPathCandidateBug == IF task = "recover" THEN lastGood ELSE candidate

StartPath == IF task = "apply" THEN candidate ELSE lastGood

\* Start or rememberOwner returned an error.
StartFails ==
    \/ /\ task = "recover"
       /\ RecoverReturns(TRUE)
       /\ UNCHANGED code
    \/ /\ task = "apply"
       /\ code' = "NODE_APPLY_FAILED"
       /\ Goto("rollback")
       /\ UNCHANGED recoveryError
    \/ /\ task = "rollback"
       /\ code' = "NODE_ROLLBACK_FAILED"
       /\ Goto("fail")
       /\ UNCHANGED recoveryError

Start ==
    /\ Step("start")
    /\ activeConfig' = StartPath
    /\ \/ /\ Spawn(StartPath)
          /\ Goto("confirm")
          /\ UNCHANGED <<code, recoveryError>>
       \/ /\ MayFail("spawn")
          /\ config' = StartPath
          /\ StartFails
          /\ UNCHANGED <<proc, child, retry, trackers>>
    /\ UNCHANGED <<recordVars, bound, owner, files, task, tracking, prepared,
                   ownerUnknown, crashes>>

\* confirmActivation: the child survives the activation grace or it does not.
Confirm ==
    /\ Step("confirm")
    /\ IF Alive(child)
         THEN Goto("remember") /\ UNCHANGED <<child, code, recoveryError>>
         ELSE child' = NoPid /\ StartFails
    /\ UNCHANGED <<recordVars, bound, owner, files, proc, task, retry, config,
                   trackVars, prepared, activeConfig, ownerUnknown, crashes>>

Remember ==
    /\ Step("remember")
    /\ \/ /\ RememberOwner
          /\ \/ task = "recover" /\ RecoverReturns(FALSE)
             \/ task = "apply" /\ Goto("commit") /\ UNCHANGED recoveryError
             \/ task = "rollback" /\ Goto("fail") /\ UNCHANGED recoveryError
          /\ UNCHANGED <<code, proc, child, retry, config>>
       \/ /\ RememberOwnerFails
          /\ StartFails
          /\ IF task = "recover"
               THEN \E failed \in BOOLEAN : StopChild(failed)
               ELSE UNCHANGED <<proc, child, retry, config>>
    /\ UNCHANGED <<recordVars, bound, files, task, trackVars, prepared,
                   activeConfig, ownerUnknown, crashes>>

-----------------------------------------------------------------------------
(* The management handler: claim, and the commit of a snapshot transfer *)

Claim ==
    /\ pc = "idle" /\ ~bound
    /\ bound' = TRUE
    /\ UNCHANGED <<recordVars, owner, files, proc, pc, task, code, supVars,
                   trackVars, nodeVars, crashes>>

\* A stale or conflicting snapshot is answered with an error and changes
\* nothing; a repeated one goes on to applyAccepted.
Receive(s) ==
    /\ pc = "idle" /\ bound
    /\ Accept(s) \/ (s = candidate /\ UNCHANGED recordVars)
    /\ Goto("apply")
    /\ UNCHANGED <<bound, owner, files, proc, task, code, supVars, trackVars,
                   nodeVars, crashes>>

-----------------------------------------------------------------------------
(* applyAccepted *)

\* Nothing to do: unknown ownership, or a candidate that has been decided.
ApplyNothing ==
    /\ Step("apply")
    /\ ownerUnknown \/ ~Undecided
    /\ Goto("idle")
    /\ UNCHANGED <<recordVars, bound, owner, files, proc, task, code, supVars,
                   trackVars, nodeVars, crashes>>

ApplyPrepare ==
    /\ Step("apply") /\ ~ownerUnknown /\ Undecided
    /\ IF candidate.state = "disabled"
         THEN Goto("disable") /\ UNCHANGED <<files, prepared, code>>
         ELSE \/ /\ prepared' = TRUE
                 /\ files' = files \cup {candidate}
                 /\ \/ Goto("switch") /\ UNCHANGED code
                    \/ /\ MayFail("verify")
                       /\ code' = "NODE_CONFIG_REJECTED"
                       /\ Goto("fail")
              \/ /\ MayFail("files")
                 /\ prepared' \in {prepared, TRUE}
                 /\ code' = "NODE_CONFIG_REJECTED"
                 /\ Goto("fail")
                 /\ UNCHANGED files
    /\ UNCHANGED <<recordVars, bound, owner, proc, task, supVars, trackVars,
                   activeConfig, ownerUnknown, recoveryError, crashes>>

SwitchUnrecordedBug ==
    /\ Step("switch")
    /\ Goto("stopOld")
    /\ UNCHANGED <<recordVars, bound, owner, files, proc, task, code, supVars,
                   trackVars, nodeVars, crashes>>

Switch ==
    /\ Step("switch")
    /\ \/ SetPhase("switching", "none") /\ Goto("stopOld")
       \/ WriteFails /\ Goto("idle")
    /\ UNCHANGED <<bound, owner, files, proc, task, code, supVars, trackVars,
                   nodeVars, crashes>>

StopOld ==
    /\ Step("stopOld")
    /\ \/ StopChild(FALSE) /\ Goto("clearOld") /\ UNCHANGED code
       \/ StopChild(TRUE) /\ Goto("rollback") /\ code' = "NODE_APPLY_FAILED"
    /\ UNCHANGED <<recordVars, bound, owner, files, task, trackVars, nodeVars,
                   crashes>>

ClearOld ==
    /\ Step("clearOld")
    /\ \/ /\ owner' = NoPid
          /\ activeConfig' = NoSnapshot
          /\ task' = "apply"
          /\ Goto("start")
          /\ UNCHANGED code
       \/ /\ MayFail("store")
          /\ code' = "NODE_APPLY_FAILED"
          /\ Goto("rollback")
          /\ UNCHANGED <<owner, activeConfig, task>>
    /\ UNCHANGED <<recordVars, bound, files, proc, supVars, trackVars, prepared,
                   ownerUnknown, recoveryError, crashes>>

Commit ==
    /\ Step("commit")
    /\ \/ MarkRunningApplied /\ RecoverReturns(FALSE) /\ UNCHANGED code
       \/ /\ WriteFails
          /\ code' = "NODE_APPLY_FAILED"
          /\ Goto("rollback")
          /\ UNCHANGED recoveryError
    /\ UNCHANGED <<bound, owner, files, proc, task, supVars, trackVars, prepared,
                   activeConfig, ownerUnknown, crashes>>

-----------------------------------------------------------------------------
(* applyDisabled *)

DisableKeepsFrpsBug ==
    /\ Step("disable")
    /\ MarkDisabling
    /\ Goto("disableFiles")
    /\ UNCHANGED <<bound, owner, files, proc, task, code, supVars, trackVars,
                   nodeVars, crashes>>

Disable ==
    /\ Step("disable")
    /\ \/ /\ MarkDisabling
          /\ Goto(IF prepared THEN "disableStop" ELSE "disableFiles")
       \/ WriteFails /\ Goto("idle")
    /\ UNCHANGED <<bound, owner, files, proc, task, code, supVars, trackVars,
                   nodeVars, crashes>>

DisableStop ==
    /\ Step("disableStop")
    /\ \/ StopChild(FALSE) /\ Goto("disableClear") /\ UNCHANGED code
       \/ StopChild(TRUE) /\ Goto("fail") /\ code' = "NODE_APPLY_FAILED"
    /\ UNCHANGED <<recordVars, bound, owner, files, task, trackVars, nodeVars,
                   crashes>>

DisableClear ==
    /\ Step("disableClear")
    /\ \/ owner' = NoPid /\ activeConfig' = NoSnapshot /\ Goto("disableFiles")
       \/ MayFail("store") /\ Goto("idle") /\ UNCHANGED <<owner, activeConfig>>
    /\ UNCHANGED <<recordVars, bound, files, proc, task, code, supVars, trackVars,
                   prepared, ownerUnknown, recoveryError, crashes>>

DisableFiles ==
    /\ Step("disableFiles")
    /\ \/ files' = {} /\ Goto("disableCommit") /\ UNCHANGED code
       \/ /\ MayFail("files")
          /\ files' \in SUBSET files
          /\ code' = "NODE_APPLY_FAILED"
          /\ Goto("fail")
    /\ UNCHANGED <<recordVars, bound, owner, proc, task, supVars, trackVars,
                   nodeVars, crashes>>

DisableCommit ==
    /\ Step("disableCommit")
    /\ \/ MarkDisabled /\ RecoverReturns(FALSE)
       \/ WriteFails /\ Goto("idle") /\ UNCHANGED recoveryError
    /\ UNCHANGED <<bound, owner, files, proc, task, code, supVars, trackVars,
                   prepared, activeConfig, ownerUnknown, crashes>>

-----------------------------------------------------------------------------
(* rollback and fail *)

Rollback ==
    /\ Step("rollback")
    /\ \/ StopChild(FALSE) /\ UNCHANGED code
       \/ StopChild(TRUE) /\ code' = "NODE_ROLLBACK_FAILED"
    /\ Goto("rollbackClear")
    /\ UNCHANGED <<recordVars, bound, owner, files, task, trackVars, nodeVars,
                   crashes>>

RestoresDisabledBug == lastGood # NoSnapshot /\ code # "NODE_ROLLBACK_FAILED"

Restores ==
    lastGood # NoSnapshot /\ ~bootDisabled /\ code # "NODE_ROLLBACK_FAILED"

RollbackClear ==
    /\ Step("rollbackClear")
    /\ \/ /\ owner' = NoPid
          /\ activeConfig' = NoSnapshot
          /\ IF Restores
               THEN \/ /\ files' = files \cup {lastGood}
                       /\ task' = "rollback"
                       /\ Goto("start")
                       /\ UNCHANGED code
                    \/ /\ MayFail("files")
                       /\ code' = "NODE_ROLLBACK_FAILED"
                       /\ Goto("fail")
                       /\ UNCHANGED <<files, task>>
               ELSE Goto("fail") /\ UNCHANGED <<files, task, code>>
       \/ /\ MayFail("store")
          /\ Goto("idle")
          /\ code' = "none"
          /\ UNCHANGED <<owner, activeConfig, files, task>>
    /\ UNCHANGED <<recordVars, bound, proc, supVars, trackVars, prepared,
                   ownerUnknown, recoveryError, crashes>>

Fail ==
    /\ Step("fail")
    /\ SetPhase("failed", code) \/ WriteFails
    /\ Goto("idle")
    /\ code' = "none"
    /\ UNCHANGED <<bound, owner, files, proc, task, supVars, trackVars,
                   nodeVars, crashes>>

-----------------------------------------------------------------------------
(* The FRPS processes, the supervisor's recovery, and trackRecovery *)

FrpsExits(p) ==
    /\ Alive(p)
    /\ proc' = [proc EXCEPT ![p] = NoSnapshot]
    /\ UNCHANGED <<recordVars, bound, owner, files, pc, task, code, supVars,
                   trackVars, nodeVars, crashes>>

\* supervisor.operations is held across Start and Stop; Start's long part is
\* the activation grace.
SupervisorFree == pc \notin {"down", "confirm"}

\* watchExit: the child left while it was wanted, so the backoff timer is armed.
WatchExit ==
    /\ SupervisorFree
    /\ child # NoPid /\ ~Alive(child)
    /\ child' = NoPid
    /\ retry' = TRUE
    /\ UNCHANGED <<recordVars, bound, owner, files, proc, pc, task, code, config,
                   trackVars, nodeVars, crashes>>

\* The callback of scheduleRecoveryLocked; a spawn that fails re-arms the timer.
Respawn ==
    /\ SupervisorFree
    /\ retry
    /\ Spawn(config)
    /\ UNCHANGED <<recordVars, bound, owner, files, pc, task, code, tracking,
                   nodeVars, crashes>>

\* trackRecovery takes runtime.mu and looks whether its PID is still the child's.
TrackBegin(p) ==
    /\ RuntimeFree
    /\ p \in trackers
    /\ trackers' = trackers \ {p}
    /\ tracking' = IF activeConfig = NoSnapshot \/ child # p THEN NoPid ELSE p
    /\ UNCHANGED <<recordVars, bound, owner, files, proc, pc, task, code, supVars,
                   nodeVars, crashes>>

\* rememberOwner reads the supervisor's state again.  A process that is gone is
\* ignored, every other error makes the ownership unknown: that the supervisor
\* has no process any more is one of them.
TrackEnd ==
    /\ tracking # NoPid
    /\ tracking' = NoPid
    /\ \/ RememberOwner /\ UNCHANGED ownerUnknown
       \/ child # NoPid /\ ~Alive(child) /\ UNCHANGED <<owner, ownerUnknown>>
       \/ child = NoPid /\ ownerUnknown' = TRUE /\ UNCHANGED owner
       \/ /\ MayFail("identity") \/ MayFail("store")
          /\ ownerUnknown' = TRUE
          /\ UNCHANGED owner
    /\ UNCHANGED <<recordVars, bound, files, proc, pc, task, code, supVars,
                   trackers, prepared, activeConfig, recoveryError, crashes>>

-----------------------------------------------------------------------------
\* The Node process dies, or is told to stop: either way nothing stops FRPS.
Crash ==
    /\ pc # "down"
    /\ crashes < MaxCrashes
    /\ crashes' = crashes + 1
    /\ Goto("down")
    /\ task' = "recover"
    /\ code' = "none"
    /\ prepared' = FALSE
    /\ child' = NoPid
    /\ retry' = FALSE
    /\ config' = NoSnapshot
    /\ activeConfig' = NoSnapshot
    /\ trackers' = {}
    /\ tracking' = NoPid
    /\ ownerUnknown' = FALSE
    /\ recoveryError' = FALSE
    /\ UNCHANGED <<recordVars, bound, owner, files, proc>>

Recover ==
    \/ RecoverNothing
    \/ RecoverOwner
    \/ RecoverClear
    \/ RecoverDisabledRecord
    \/ RecoverFiles
    \/ RecoverDisabled
    \/ RecoverRunningRecord
    \/ RecoverPrepare

StartFrps == Start \/ Confirm \/ Remember

ApplyAccepted ==
    \/ ApplyNothing
    \/ ApplyPrepare
    \/ Switch
    \/ StopOld
    \/ ClearOld
    \/ Commit

ApplyDisabled ==
    \/ Disable
    \/ DisableStop
    \/ DisableClear
    \/ DisableFiles
    \/ DisableCommit

Undo == Rollback \/ RollbackClear \/ Fail

Supervise == WatchExit \/ Respawn

Track == (\E p \in Pids : TrackBegin(p)) \/ TrackEnd

\* What the Node does of itself once it has started or accepted a snapshot.
NodeSteps == Recover \/ StartFrps \/ ApplyAccepted \/ ApplyDisabled \/ Undo

\* Everything but what a Controller asks for.
LocalNext ==
    \/ Boot
    \/ NodeSteps
    \/ \E p \in Pids : FrpsExits(p)
    \/ Supervise
    \/ Track
    \/ Crash

Next ==
    \/ LocalNext
    \/ Claim
    \/ \E s \in Offers : Receive(s)

Spec == Init /\ [][Next]_vars

(***************************************************************************)
(* The Node is started again when it is down; watchExit and the recovery   *)
(* timer fire.  A handler runs to its end and a goroutine gets runtime.mu  *)
(* even while others keep taking it: sync.Mutex hands over in FIFO order   *)
(* once a waiter starves, hence strong fairness.  Nothing is assumed of    *)
(* the Controller, of FRPS exits, or of crashes, which MaxCrashes bounds.  *)
(***************************************************************************)
Fairness ==
    /\ WF_vars(Boot)
    /\ SF_vars(NodeSteps)
    /\ WF_vars(WatchExit)
    /\ WF_vars(Respawn)
    /\ \A p \in Pids : SF_vars(TrackBegin(p))
    /\ WF_vars(TrackEnd)

FairSpec == Spec /\ Fairness

-----------------------------------------------------------------------------
(* The status operation, as a Controller sees it *)

ProcessState ==
    CASE ownerUnknown                              -> "unknown"
      [] ~ownerUnknown /\ child # NoPid            -> "running"
      [] ~ownerUnknown /\ child = NoPid /\ retry   -> "recovering"
      [] ~ownerUnknown /\ child = NoPid /\ ~retry  -> "stopped"

Status ==
    [highest |-> highest, document |-> candidate, applied |-> applied,
     phase |-> phase, failure |-> failure,
     recoveryError |-> ownerUnknown \/ recoveryError,
     bootDisabled |-> bootDisabled, disabledComplete |-> disabledComplete,
     process |-> ProcessState]

-----------------------------------------------------------------------------
(* Properties *)

(***************************************************************************)
(* What FRPS serves is what a restart would bring back, except inside a    *)
(* switch, between starting the candidate and recording it as last good    *)
(* (or stopping it again in rollback).  A Node that keeps an FRPS its row  *)
(* does not describe changes its configuration by itself at the next boot. *)
(***************************************************************************)
ServesLastGood ==
    Alive(child) =>
        \/ proc[child] = lastGood
        \/ /\ proc[child] = candidate
           /\ phase = "switching"
           /\ pc \in {"confirm", "remember", "commit", "rollback"}

(***************************************************************************)
(* Once a disabled snapshot has taken hold (boot_disabled), the Node has   *)
(* no FRPS and will not get one by itself -- not from the supervisor, not  *)
(* from rollback, not at boot -- except the old one on its way out and the *)
(* candidate of a later running snapshot that is being switched to.        *)
(***************************************************************************)
DisabledStaysDown ==
    bootDisabled /\ (child # NoPid \/ retry) =>
        \/ pc = "disableStop"
        \/ phase = "switching" /\ pc \in {"confirm", "remember", "commit", "rollback"}

(***************************************************************************)
(* A completed disable left nothing behind: no supervised FRPS, no         *)
(* recorded FRPS that is still alive, no file with a token.  This is what  *)
(* the Controller deletes its Node record on (finishNodeRemoval).          *)
(***************************************************************************)
DisabledIsClean ==
    disabledComplete => /\ child = NoPid
                        /\ ~retry
                        /\ ~Alive(owner)
                        /\ files = {}

(***************************************************************************)
(* As long as the Node has not died, it never runs two FRPS: every start   *)
(* is preceded by the stop of whatever ran before, in every path.          *)
(***************************************************************************)
SingleFrps ==
    crashes = 0 => \A p, q \in Pids : Alive(p) /\ Alive(q) => p = q

(***************************************************************************)
(* The Node never lets go of a live FRPS: one that is supervised or        *)
(* recorded stays so until it is dead.  The exception the code accepts     *)
(* (TestNodeIgnoresUnrecordedResidualFRPS) is a Node that dies before it   *)
(* has recorded the FRPS it just started.                                  *)
(***************************************************************************)
Known(p) == p \in {child, owner}

NoForgottenFrps ==
    [][\A p \in Pids :
         (Known(p) /\ Alive(p) /\ Alive(p)' /\ ~Known(p)')
             => pc' = "down" /\ owner # p]_vars

(***************************************************************************)
(* Every accepted snapshot is decided: applied, failed, disabled, or left  *)
(* interrupted by a restart; crashes may come at any step.  Only unknown   *)
(* ownership suspends it, until the next restart.                          *)
(***************************************************************************)
EveryCandidateIsDecided ==
    phase \in {"accepted", "switching", "disabling"} ~>
        (phase \notin {"accepted", "switching", "disabling"} \/ ownerUnknown)

(***************************************************************************)
(* An FRPS the supervisor keeps is soon in the durable row, also one that  *)
(* the supervisor restarted by itself, so that a later crash of the Node   *)
(* cannot lose it.                                                         *)
(***************************************************************************)
SupervisedIsRecorded ==
    <>[][child' = child]_vars => []<>(child \in {NoPid, owner} \/ ~Alive(child))

(***************************************************************************)
(* deploy/tunnel-node.md:16: a Node "remains listed as removing until a    *)
(* fresh authenticated status confirms persistent disablement and stopped  *)
(* FRPS".  applyDisabled stops only what its own supervisor runs; when     *)
(* recover gave up before it looked at the recorded FRPS, that one runs on *)
(* while the status says stopped.                                          *)
(***************************************************************************)
ReportedStoppedIsStopped ==
    LET reported == Status
    IN  /\ pc = "idle"
        /\ reported.process = "stopped" /\ ~reported.recoveryError
        /\ reported.disabledComplete /\ reported.failure = "none"
        => ~Alive(owner)
=============================================================================
