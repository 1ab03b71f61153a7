----------------------- MODULE ClientReconciler_proofs -----------------------
(***************************************************************************)
(* Proofs about ClientReconciler, for any set of desired runtimes, any     *)
(* failures and any number of crashes: types, one inductive invariant, and *)
(* from it what the Client serves and acknowledges and that it implements  *)
(* ClientTargets.                                                          *)
(***************************************************************************)
EXTENDS ClientReconciler, TLAPS

\* What each assumption and definition of the data comes to.
USE RuntimesAssumption, NoRuntimeAssumption
    DEF RuntimesAssumption, NoRuntimeAssumption, RuntimeOrNone

-----------------------------------------------------------------------------
(* Types *)

LEMMA NoCrashYet == 0 \in 0..MaxCrashes
  BY MaxCrashesAssumption DEF MaxCrashesAssumption

LEMMA InitTypes == ClientInit => ClientTypeOK
  BY NoCrashYet, Zenon DEF ClientInit, ClientTypeOK, Steps, Outcomes

(***************************************************************************)
(* Every step keeps the types; only Crash counts.                          *)
(***************************************************************************)
LEMMA StepTypes == ClientTypeOK /\ [ClientNext]_clientVars => ClientTypeOK'
  <1> SUFFICES ASSUME ClientTypeOK, [ClientNext]_clientVars
               PROVE  ClientTypeOK'
    OBVIOUS
  <1> USE DEF ClientTypeOK, Steps, ApplySteps, RollbackSteps, Outcomes,
              fileVars, frpcVars, stepVars, Goto, End, StopFrpc, StartFrpc
  <1>1. ASSUME NEW d \in Runtimes, Begin(d) PROVE ClientTypeOK'
    BY <1>1 DEF Begin
  <1>2. CASE Accept \/ AcceptFails \/ Leave \/ LeaveFails
    BY <1>2 DEF Accept, AcceptFails, Leave, LeaveFails
  <1>3. CASE Prepare \/ PrepareFails \/ PrepareStopFails
    BY <1>3 DEF Prepare, PrepareFails, PrepareStopFails
  <1>4. CASE Write \/ WriteFails
    BY <1>4 DEF Write, WriteFails, Undo
  <1>5. CASE Start \/ StartFails
    BY <1>5 DEF Start, StartFails, Undo
  <1>6. CASE Commit \/ CommitFails
    BY <1>6 DEF Commit, CommitFails, Undo
  <1>7. CASE RollbackStop \/ RollbackWrite \/ RollbackStart
    BY <1>7 DEF RollbackStop, RollbackWrite, RollbackStart
  <1>8. CASE Return \/ Restart \/ Respawn
    BY <1>8 DEF Return, Restart, Respawn
  <1>9. CASE Stop \/ Boot
    BY <1>9 DEF Stop, Boot
  <1>10. CASE Crash
    <2>1. crashes' \in 0..MaxCrashes
      BY <1>10, MaxCrashesAssumption DEF MaxCrashesAssumption, Crash
    <2> QED
      BY <1>10, <2>1, Zenon DEF Crash
  <1>11. CASE UNCHANGED clientVars
    BY <1>11 DEF clientVars
  <1> QED
    BY <1>1, <1>2, <1>3, <1>4, <1>5, <1>6, <1>7, <1>8, <1>9, <1>10, <1>11
       DEF ClientNext, ApplyStep

(***************************************************************************)
(* Every reachable state of the reconciler is well typed.                  *)
(***************************************************************************)
THEOREM ClientTypes == ClientSpec => []ClientTypeOK
  BY InitTypes, StepTypes, PTL DEF ClientSpec

-----------------------------------------------------------------------------
(* The inductive invariant *)

\* After the target has been accepted, and after frpc.toml has been read.
UnderWay == {"leave", "prepare", "write", "start", "commit"} \cup RollbackSteps
Exchanging == {"write", "start", "commit"} \cup RollbackSteps

AtMost(r, s) == r # NoRuntime => s # NoRuntime /\ (r = s \/ r.revision < s.revision)

ServedAs(r) == IF Enabled(r) THEN r ELSE NoRuntime

\* frpc is down while its configuration is exchanged.
FrpcDown ==
    /\ pc \in {"down", "write", "start", "rbWrite", "rbStart"} => child = NoRuntime
    /\ pc = "prepare" /\ Crosses => child = NoRuntime

\* Nothing on disk is ahead of what has been accepted.
NothingAhead ==
    /\ AtMost(applied, accepted)
    /\ AtMost(active, accepted)
    /\ pc \in Exchanging => AtMost(previous, accepted)

\* An Apply is about a target that was not refused, then accepted, and is
\* not the one in service.
OnTarget ==
    /\ pc = "accept" => target \in Runtimes /\ ~Refused(target)
    /\ pc \in UnderWay =>
          /\ target \in Runtimes
          /\ accepted = target
          /\ ~(activated /\ applied = target)

\* Where frpc.toml stands.
FileOfStep ==
    /\ pc = "write" => active = previous
    /\ pc = "start" => active = target /\ Enabled(target)
    /\ pc = "commit" => active = target /\ child = ServedAs(target)
    /\ pc \in RollbackSteps => ~Crosses /\ active \in {target, previous}
    /\ pc = "rbStart" => active # NoRuntime /\ applied # NoRuntime

\* While nothing newer is accepted, frpc.toml is that of the applied state.
FileOfApplied ==
    applied # NoRuntime /\ accepted = applied =>
        /\ active = applied
        /\ pc \in Exchanging => previous = applied

\* activated means that the applied state is in service.
InService ==
    /\ activated => applied # NoRuntime
    /\ pc = "down" => ~activated
    /\ activated /\ accepted = applied /\ pc \in {"idle", "done", "accept"}
         /\ ~restartFailed => child = ServedAs(applied)

Acknowledged ==
    pc = "done" /\ outcome \in {"applied", "skipped"} =>
        activated /\ accepted = target /\ applied = target

ClientInv ==
    /\ RespawnServesTheSame
    /\ FrpcDown
    /\ NothingAhead
    /\ OnTarget
    /\ FileOfStep
    /\ FileOfApplied
    /\ InService
    /\ Acknowledged

LEMMA InitInv == ClientInit => ClientInv
  BY DEF ClientInit, ClientInv, RespawnServesTheSame, FrpcDown, NothingAhead,
         OnTarget, FileOfStep, FileOfApplied, InService, Acknowledged,
         UnderWay, Exchanging, RollbackSteps, AtMost, Crosses

LEMMA StepInv ==
    ClientTypeOK /\ ClientInv /\ [ClientNext]_clientVars => ClientInv'
  <1> SUFFICES ASSUME ClientTypeOK, ClientInv, [ClientNext]_clientVars
               PROVE  ClientInv'
    OBVIOUS
  <1> USE DEF ClientTypeOK, ClientInv, RespawnServesTheSame, FrpcDown,
              NothingAhead, OnTarget, FileOfStep, FileOfApplied, InService,
              Acknowledged, UnderWay, Exchanging, RollbackSteps, AtMost,
              Crosses, Refused, Older, Contradicts, Enabled, ServedAs,
              fileVars, frpcVars, stepVars, Goto, End, StopFrpc, StartFrpc
  <1>1. ASSUME NEW d \in Runtimes, Begin(d) PROVE ClientInv'
    BY <1>1 DEF Begin
  <1>2. CASE Accept
    BY <1>2 DEF Accept
  <1>3. CASE AcceptFails
    BY <1>3 DEF AcceptFails
  <1>4. CASE Leave
    BY <1>4 DEF Leave
  <1>5. CASE LeaveFails
    BY <1>5 DEF LeaveFails
  <1>6. CASE Prepare
    BY <1>6 DEF Prepare
  <1>7. CASE PrepareFails
    BY <1>7 DEF PrepareFails
  <1>8. CASE PrepareStopFails
    BY <1>8 DEF PrepareStopFails
  <1>9. CASE Write
    BY <1>9 DEF Write
  <1>10. CASE WriteFails
    BY <1>10 DEF WriteFails, Undo
  <1>11. CASE Start
    BY <1>11 DEF Start
  <1>12. CASE StartFails
    BY <1>12 DEF StartFails, Undo
  <1>13. CASE Commit
    BY <1>13 DEF Commit
  <1>14. CASE CommitFails
    BY <1>14 DEF CommitFails, Undo
  <1>15. CASE RollbackStop
    BY <1>15 DEF RollbackStop
  <1>16. CASE RollbackWrite
    BY <1>16 DEF RollbackWrite
  <1>17. CASE RollbackStart
    BY <1>17 DEF RollbackStart
  <1>18. CASE Return
    BY <1>18 DEF Return
  <1>19. CASE Restart
    BY <1>19 DEF Restart, Restartable
  <1>20. CASE Respawn
    BY <1>20 DEF Respawn
  <1>21. CASE Stop
    BY <1>21 DEF Stop
  <1>22. CASE Crash
    BY <1>22 DEF Crash
  <1>23. CASE Boot
    BY <1>23 DEF Boot
  <1>24. CASE UNCHANGED clientVars
    BY <1>24 DEF clientVars
  <1> QED
    BY <1>1, <1>2, <1>3, <1>4, <1>5, <1>6, <1>7, <1>8, <1>9, <1>10, <1>11,
       <1>12, <1>13, <1>14, <1>15, <1>16, <1>17, <1>18, <1>19, <1>20, <1>21,
       <1>22, <1>23, <1>24
       DEF ClientNext, ApplyStep

\* What frpc serves, as a step leaves it: what was active before.
LEMMA StartsActive ==
    ClientTypeOK /\ ClientInv /\ [ClientNext]_clientVars
        => \/ child' \in {child, NoRuntime}
           \/ pc \in {"start", "rbStart"} /\ child' = active
           \/ Restartable /\ child' = active
  BY DEF ClientInv, RespawnServesTheSame, ClientNext, ApplyStep, clientVars,
         fileVars, frpcVars, stepVars, Begin, Accept, AcceptFails, Leave,
         LeaveFails, Prepare, PrepareFails, PrepareStopFails, Write,
         WriteFails, Start, StartFails, Commit, CommitFails, RollbackStop,
         RollbackWrite, RollbackStart, Return, Restart, Respawn, Stop, Crash,
         Boot, StopFrpc, StartFrpc

LEMMA StartsNode ==
    ClientTypeOK /\ ClientInv /\ [ClientNext]_clientVars
        => [child' # child /\ child' # NoRuntime =>
               \/ child'.node = accepted.node
               \/ pc = "rbStart" /\ previous # applied]_clientVars
  <1> SUFFICES ASSUME ClientTypeOK, ClientInv, [ClientNext]_clientVars,
                      child' # child, child' # NoRuntime
               PROVE  \/ child'.node = accepted.node
                      \/ pc = "rbStart" /\ previous # applied
    OBVIOUS
  <1> USE DEF ClientInv, OnTarget, FileOfStep, UnderWay, RollbackSteps
  <1>1. CASE pc = "start" /\ child' = active
    BY <1>1
  <1>2. CASE pc = "rbStart" /\ child' = active
    BY <1>2 DEF Crosses
  <1>3. CASE Restartable /\ child' = active
    BY <1>3 DEF Restartable, Enabled, FileOfApplied
  <1> QED
    BY <1>1, <1>2, <1>3, StartsActive

(***************************************************************************)
(* A reachable state satisfies the inductive invariant.                    *)
(***************************************************************************)
THEOREM ClientInvariant == ClientSpec => [](ClientTypeOK /\ ClientInv)
  BY InitTypes, StepTypes, InitInv, StepInv, PTL DEF ClientSpec

(***************************************************************************)
(* frpc.toml is never changed under a running frpc, so what the supervisor *)
(* brings up after frpc has exited is what it served before.               *)
(***************************************************************************)
THEOREM RespawnServes == ClientSpec => []RespawnServesTheSame
  BY ClientInvariant, PTL DEF ClientInv

LEMMA InvServes == ClientTypeOK /\ ClientInv => SuccessIsServed
  BY DEF ClientTypeOK, ClientInv, SuccessIsServed, Acknowledged, InService,
         ServedAs

(***************************************************************************)
(* What reportClientApply acknowledges is what frpc serves, unless a       *)
(* Restart has failed since frpc was last started.                         *)
(***************************************************************************)
THEOREM SuccessServed == ClientSpec => []SuccessIsServed
  BY ClientInvariant, InvServes, PTL

(***************************************************************************)
(* frpc is started only for the Node of the accepted runtime, except by a  *)
(* rollback that restores a frpc.toml which was not the applied one.       *)
(***************************************************************************)
THEOREM StartsAccepted == ClientSpec => StartsAcceptedNode
  BY ClientInvariant, StartsNode, PTL DEF ClientSpec, StartsAcceptedNode

-----------------------------------------------------------------------------
(* The refinement of ClientTargets *)

LEMMA InitTargets == ClientInit => Targets!TargetsInit
  BY DEF ClientInit, Targets!TargetsInit

LEMMA StepTargets ==
    ClientTypeOK /\ ClientInv /\ [ClientNext]_clientVars
        => [Targets!TargetsNext]_(Targets!targetVars)
  <1> SUFFICES ASSUME ClientTypeOK, ClientInv, [ClientNext]_clientVars
               PROVE  [Targets!TargetsNext]_(Targets!targetVars)
    OBVIOUS
  <1> USE DEF ClientTypeOK, ClientInv, Targets!targetVars, Targets!TargetsNext,
              Targets!Newer, fileVars, frpcVars, stepVars, Goto, End, StopFrpc,
              StartFrpc
  <1>1. CASE Accept
    BY <1>1 DEF Accept, OnTarget, NothingAhead, Refused, Older, Contradicts,
                Targets!TakeOn
  <1>2. CASE Commit
    BY <1>2 DEF Commit, OnTarget, FileOfStep, UnderWay, ServedAs, Enabled,
                Targets!Fulfil, Targets!ServedAs
  <1>3. CASE Start \/ RollbackStart \/ Restart \/ Respawn
    <2>1. UNCHANGED <<accepted, applied>> /\ child' \in {active, NoRuntime}
      BY <1>3 DEF Start, RollbackStart, Restart, Respawn
    <2>2. child = NoRuntime \/ child = active
      BY DEF RespawnServesTheSame
    <2>3. CASE child' = active /\ child = NoRuntime /\ active # NoRuntime
      BY <2>1, <2>3 DEF NothingAhead, AtMost, Targets!Serve
    <2> QED
      BY <2>1, <2>2, <2>3 DEF Targets!Leave
  <1>4. CASE AcceptFails \/ Leave \/ LeaveFails \/ Prepare \/ PrepareFails
             \/ PrepareStopFails \/ StartFails \/ CommitFails \/ RollbackStop
             \/ Stop \/ Crash
    BY <1>4 DEF AcceptFails, Leave, LeaveFails, Prepare, PrepareFails,
                PrepareStopFails, StartFails, CommitFails, RollbackStop, Stop,
                Crash, Targets!Leave
  <1>5. ASSUME NEW d \in Runtimes, Begin(d)
        PROVE  UNCHANGED Targets!targetVars
    BY <1>5 DEF Begin
  <1>6. CASE Write \/ WriteFails \/ RollbackWrite \/ Return \/ Boot
             \/ UNCHANGED clientVars
    BY <1>6 DEF Write, WriteFails, RollbackWrite, Return, Boot, clientVars
  <1> QED
    BY <1>1, <1>2, <1>3, <1>4, <1>5, <1>6 DEF ClientNext, ApplyStep

(***************************************************************************)
(* The reconciler implements ClientTargets, for every way it can fail and  *)
(* die: see KeepsTargets.                                                  *)
(***************************************************************************)
THEOREM TargetsKept == ClientSpec => KeepsTargets
  BY ClientInvariant, InitTargets, StepTargets, PTL
     DEF ClientSpec, KeepsTargets, Targets!TargetsSpec
=============================================================================
