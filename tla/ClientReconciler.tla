-------------------------- MODULE ClientReconciler --------------------------
(***************************************************************************)
(* The reconciler of a tunnel Client                                       *)
(* (pkg/cmd/tunnel/connect/client_reconciler.go): it takes a complete      *)
(* desired runtime from the Server, writes it down as accepted, exchanges  *)
(* frpc.toml and the frpc process under it, and writes it down as applied, *)
(* or puts the former configuration back.                                  *)
(*                                                                         *)
(* A step is one durable write or one operation on the frpc supervisor:    *)
(* between any two of them the Client can die and the Server can say       *)
(* something else.  reconciler.operations is held from Begin to Return.    *)
(***************************************************************************)
EXTENDS Naturals

CONSTANTS
    Runtimes,     \* desired runtimes: revision, Node, some Tunnel enabled
    NoRuntime,    \* no such file, no frpc
    Faults,       \* the operations that may fail, see FaultKinds
    MaxCrashes    \* bound: how often the Client process dies

(***************************************************************************)
(* state: a write of the accepted or the applied state                     *)
(* file: a write or removal of frpc.toml, a write of the candidate         *)
(* verify: `frpc verify` rejects the candidate, or the wait is cancelled   *)
(* start: frpc cannot be created or does not survive its confirmation      *)
(* stop: frpc can be neither terminated nor killed; the supervisor has     *)
(*       forgotten it all the same (see FrpSupervisor)                     *)
(***************************************************************************)
FaultKinds == {"state", "file", "verify", "start", "stop"}

ASSUME RuntimesAssumption ==
    \A r \in Runtimes : r.revision \in Nat /\ r.enabled \in BOOLEAN
ASSUME NoRuntimeAssumption == NoRuntime \notin Runtimes
ASSUME FaultsAssumption == Faults \subseteq FaultKinds
ASSUME MaxCrashesAssumption == MaxCrashes \in Nat

VARIABLES
    accepted,       \* the accepted state on disk, the highest target
    applied,        \* the applied state on disk
    active,         \* whose configuration frpc.toml holds
    child,          \* what the supervised frpc was started with
    configured,     \* the supervisor has been given a configuration path
    activated,      \* reconciler.activated
    pc,             \* the next step; "down" when the Client is not running
    target,         \* desired, of the Apply under way or the last one
    previous,       \* previousConfiguration
    outcome,        \* how that Apply ended
    restartFailed,  \* history: an imperative restart has failed since Start
    crashes         \* how often the Client has died

fileVars == <<accepted, applied, active>>
frpcVars == <<child, configured, restartFailed>>
stepVars == <<pc, target, previous, outcome>>
clientVars == <<fileVars, frpcVars, stepVars, activated, crashes>>

RollbackSteps == {"rbStop", "rbWrite", "rbStart"}
ApplySteps == {"accept", "leave", "prepare", "write", "start", "commit"}
Steps == {"down", "idle", "done"} \cup ApplySteps \cup RollbackSteps

Outcomes == {"none", "applied", "skipped", "failed", "refused"}

RuntimeOrNone == Runtimes \cup {NoRuntime}

ClientTypeOK ==
    /\ accepted \in RuntimeOrNone
    /\ applied \in RuntimeOrNone
    /\ active \in RuntimeOrNone
    /\ child \in RuntimeOrNone
    /\ configured \in BOOLEAN
    /\ activated \in BOOLEAN
    /\ pc \in Steps
    /\ target \in RuntimeOrNone
    /\ previous \in RuntimeOrNone
    /\ outcome \in Outcomes
    /\ restartFailed \in BOOLEAN
    /\ crashes \in 0..MaxCrashes

ClientInit ==
    /\ accepted = NoRuntime
    /\ applied = NoRuntime
    /\ active = NoRuntime
    /\ child = NoRuntime
    /\ configured = FALSE
    /\ activated = FALSE
    /\ pc = "down"
    /\ target = NoRuntime
    /\ previous = NoRuntime
    /\ outcome = "none"
    /\ restartFailed = FALSE
    /\ crashes = 0

-----------------------------------------------------------------------------
(* Helpers *)

MayFail(fault) == fault \in Faults

\* runtimeIsOlder, and another document under the same revision.
Older(d, s) == s # NoRuntime /\ d.revision < s.revision
Contradicts(d, s) == s # NoRuntime /\ d.revision = s.revision /\ d # s

Enabled(r) == r # NoRuntime /\ r.enabled

\* crossNode: the applied state changes only in the last step of an Apply.
Crosses == applied # NoRuntime /\ target.node # applied.node

Goto(next) == pc' = next /\ UNCHANGED outcome
End(how) == pc' = "done" /\ outcome' = how

\* FRPSupervisor.Stop and Start.  Whether or not they fail, Stop leaves no
\* supervised frpc, and a Start that fails leaves none.
StopFrpc == child' = NoRuntime /\ UNCHANGED <<configured, restartFailed>>

StartFrpc(failed) ==
    /\ child' = IF failed THEN NoRuntime ELSE active
    /\ configured' = TRUE
    /\ restartFailed' = FALSE

\* A step failed after the old frpc has been stopped: across Nodes nothing
\* is restored, on the same Node rollbackActivation puts the old one back.
UndoAlwaysRestoresBug == Goto("rbStop")

Undo == IF Crosses THEN End("failed") ELSE Goto("rbStop")

-----------------------------------------------------------------------------
(* ApplyWithResult *)

(***************************************************************************)
(* A target below what was accepted or applied, or another one under the   *)
(* same revision, is refused with PROTOCOL_FAILED before anything changes. *)
(* (A definition named ...Bug is not part of the model: it is the mutation *)
(* that a property must catch.)                                            *)
(***************************************************************************)
RefusedByAppliedBug(d) == Older(d, applied) \/ Contradicts(d, applied)

Refused(d) ==
    \/ Older(d, applied)
    \/ Older(d, accepted)
    \/ Contradicts(d, accepted)
    \/ Contradicts(d, applied)

Begin(d) ==
    /\ pc = "idle"
    /\ target' = d
    /\ IF Refused(d) THEN End("refused") ELSE Goto("accept")
    /\ UNCHANGED <<fileVars, frpcVars, activated, previous, crashes>>

\* WriteClientAcceptedState, unless it is there; then the duplicate check.
AcceptSkipsColdBug ==
    /\ pc = "accept"
    /\ accepted' = target
    /\ IF applied = target THEN End("skipped")
       ELSE Goto(IF Crosses THEN "leave" ELSE "prepare")
    /\ UNCHANGED <<applied, active, frpcVars, activated, target, previous,
                   crashes>>

Accept ==
    /\ pc = "accept"
    /\ accepted' = target
    /\ IF activated /\ applied = target THEN End("skipped")
       ELSE Goto(IF Crosses THEN "leave" ELSE "prepare")
    /\ UNCHANGED <<applied, active, frpcVars, activated, target, previous,
                   crashes>>

AcceptFails ==
    /\ pc = "accept"
    /\ MayFail("state")
    /\ accepted # target
    /\ IF Crosses THEN StopFrpc /\ activated' = FALSE
       ELSE UNCHANGED <<frpcVars, activated>>
    /\ End("failed")
    /\ UNCHANGED <<fileVars, target, previous, crashes>>

\* The old Node's frpc is stopped before anything of the new one is tried.
Leave ==
    /\ pc = "leave"
    /\ StopFrpc
    /\ activated' = FALSE
    /\ Goto("prepare")
    /\ UNCHANGED <<fileVars, target, previous, crashes>>

LeaveFails ==
    /\ pc = "leave"
    /\ MayFail("stop")
    /\ StopFrpc
    /\ End("failed")
    /\ UNCHANGED <<fileVars, activated, target, previous, crashes>>

\* The candidate is written and verified beside the running frpc, the
\* present frpc.toml is read, and on the same Node frpc is stopped now.
PrepareKeepsFrpcBug ==
    /\ pc = "prepare"
    /\ previous' = active
    /\ Goto("write")
    /\ UNCHANGED <<fileVars, frpcVars, activated, target, crashes>>

Prepare ==
    /\ pc = "prepare"
    /\ previous' = active
    /\ IF Crosses THEN UNCHANGED frpcVars ELSE StopFrpc
    /\ Goto("write")
    /\ UNCHANGED <<fileVars, activated, target, crashes>>

PrepareFails ==
    /\ pc = "prepare"
    /\ \/ MayFail("file")
       \/ MayFail("verify") /\ Enabled(target)
    /\ End("failed")
    /\ UNCHANGED <<fileVars, frpcVars, activated, target, previous, crashes>>

PrepareStopFails ==
    /\ pc = "prepare"
    /\ MayFail("stop")
    /\ ~Crosses
    /\ previous' = active
    /\ StopFrpc
    /\ End("failed")
    /\ UNCHANGED <<fileVars, activated, target, crashes>>

Write ==
    /\ pc = "write"
    /\ active' = target
    /\ Goto(IF Enabled(target) THEN "start" ELSE "commit")
    /\ UNCHANGED <<accepted, applied, frpcVars, activated, target, previous,
                   crashes>>

WriteFails ==
    /\ pc = "write"
    /\ MayFail("file")
    /\ Undo
    /\ UNCHANGED <<fileVars, frpcVars, activated, target, previous, crashes>>

Start ==
    /\ pc = "start"
    /\ StartFrpc(FALSE)
    /\ Goto("commit")
    /\ UNCHANGED <<fileVars, activated, target, previous, crashes>>

StartFails ==
    /\ pc = "start"
    /\ MayFail("start")
    /\ StartFrpc(TRUE)
    /\ Undo
    /\ UNCHANGED <<fileVars, activated, target, previous, crashes>>

\* WriteClientAppliedState is what makes the target the applied one.
Commit ==
    /\ pc = "commit"
    /\ applied' = target
    /\ activated' = TRUE
    /\ End("applied")
    /\ UNCHANGED <<accepted, active, frpcVars, target, previous, crashes>>

CommitFails ==
    /\ pc = "commit"
    /\ MayFail("state")
    /\ IF Crosses THEN StopFrpc ELSE UNCHANGED frpcVars
    /\ Undo
    /\ UNCHANGED <<fileVars, activated, target, previous, crashes>>

-----------------------------------------------------------------------------
(* rollbackActivation: its errors are collected and it goes on. *)

RollbackStop ==
    /\ pc = "rbStop"
    /\ StopFrpc
    /\ Goto("rbWrite")
    /\ UNCHANGED <<fileVars, activated, target, previous, crashes>>

RollbackWrite ==
    /\ pc = "rbWrite"
    /\ \/ active' = previous
       \/ MayFail("file") /\ UNCHANGED active
    /\ IF Enabled(applied) /\ previous # NoRuntime THEN Goto("rbStart")
       ELSE End("failed")
    /\ UNCHANGED <<accepted, applied, frpcVars, activated, target, previous,
                   crashes>>

RollbackStart ==
    /\ pc = "rbStart"
    /\ \E failed \in BOOLEAN :
          /\ failed => MayFail("start")
          /\ StartFrpc(failed)
    /\ End("failed")
    /\ UNCHANGED <<fileVars, activated, target, previous, crashes>>

Return ==
    /\ pc = "done"
    /\ Goto("idle")
    /\ UNCHANGED <<fileVars, frpcVars, activated, target, previous, crashes>>

-----------------------------------------------------------------------------
(***************************************************************************)
(* Restart: only what is both accepted and applied, with Tunnels, and only *)
(* when this process has started frpc before (ErrFRPSupervisorStopped).    *)
(***************************************************************************)
Restartable == Enabled(applied) /\ accepted = applied /\ configured

Restart ==
    /\ pc = "idle"
    /\ Restartable
    /\ \E failed \in BOOLEAN :
          /\ failed => MayFail("start") \/ MayFail("stop")
          /\ child' = IF failed THEN NoRuntime ELSE active
          /\ restartFailed' = failed
    /\ UNCHANGED <<fileVars, configured, activated, stepVars, crashes>>

\* frpc exits and the supervisor starts it again: it reads frpc.toml anew.
Respawn ==
    /\ child # NoRuntime
    /\ child' = active
    /\ UNCHANGED <<fileVars, configured, restartFailed, activated, stepVars,
                   crashes>>

\* Stop, on the way out: RunClient lets the worker finish first.
Stop ==
    /\ pc = "idle"
    /\ pc' = "down"
    /\ child' = NoRuntime
    /\ configured' = FALSE
    /\ activated' = FALSE
    /\ restartFailed' = FALSE
    /\ UNCHANGED <<fileVars, target, previous, outcome, crashes>>

\* The Client dies.  An frpc it leaves behind is supervised by nobody.
Crash ==
    /\ pc # "down"
    /\ crashes < MaxCrashes
    /\ crashes' = crashes + 1
    /\ pc' = "down"
    /\ child' = NoRuntime
    /\ configured' = FALSE
    /\ activated' = FALSE
    /\ restartFailed' = FALSE
    /\ UNCHANGED <<fileVars, target, previous, outcome>>

\* RunClient takes the instance and makes a reconciler that has done nothing.
Boot ==
    /\ pc = "down"
    /\ pc' = "idle"
    /\ target' = NoRuntime
    /\ previous' = NoRuntime
    /\ outcome' = "none"
    /\ UNCHANGED <<fileVars, frpcVars, activated, crashes>>

-----------------------------------------------------------------------------
ApplyStep ==
    \/ Accept \/ AcceptFails
    \/ Leave \/ LeaveFails
    \/ Prepare \/ PrepareFails \/ PrepareStopFails
    \/ Write \/ WriteFails
    \/ Start \/ StartFails
    \/ Commit \/ CommitFails
    \/ RollbackStop \/ RollbackWrite \/ RollbackStart

ClientNext ==
    \/ \E d \in Runtimes : Begin(d)
    \/ ApplyStep
    \/ Return
    \/ Restart
    \/ Respawn
    \/ Stop
    \/ Crash
    \/ Boot

ClientSpec == ClientInit /\ [][ClientNext]_clientVars

-----------------------------------------------------------------------------
(* Properties *)

(***************************************************************************)
(* The supervisor reads frpc.toml again whenever frpc exits.  The file is  *)
(* therefore never changed under a running frpc: a crash of frpc must not  *)
(* bring up a configuration that was just being tried or put back.         *)
(***************************************************************************)
RespawnServesTheSame == child # NoRuntime => child = active

(***************************************************************************)
(* What the Client acknowledges as applied is what its frpc serves, also   *)
(* when the Apply was skipped as a duplicate, after any failures, rollbacks*)
(* and restarts before it.  The exception is a Restart that failed and is  *)
(* being retried: until then the Client acknowledges with no frpc running. *)
(***************************************************************************)
SuccessIsServed ==
    pc = "done" /\ outcome \in {"applied", "skipped"} /\ ~restartFailed =>
        /\ accepted = target
        /\ applied = target
        /\ child = IF Enabled(target) THEN target ELSE NoRuntime

(***************************************************************************)
(* client_state.go:244: "Unlike last-applied, this high-water mark is      *)
(* written before local FRPC activation so a restart cannot silently       *)
(* revive an older Node target".  frpc is started only for the Node that   *)
(* was accepted last, with one exception: a rollback puts back whatever    *)
(* frpc.toml held, which after a failed move is not the applied            *)
(* configuration.                                                          *)
(***************************************************************************)
StartsAcceptedNode ==
    [][child' # child /\ child' # NoRuntime =>
          \/ child'.node = accepted.node
          \/ pc = "rbStart" /\ previous # applied]_clientVars

(***************************************************************************)
(* The reconciler implements ClientTargets: with crashes and failures at   *)
(* every step it never goes back behind an accepted target or takes a      *)
(* second one under its revision, serves nothing newer, and writes a       *)
(* target down as applied only while its frpc serves it.                   *)
(***************************************************************************)
Targets == INSTANCE ClientTargets

KeepsTargets == Targets!TargetsSpec
=============================================================================
