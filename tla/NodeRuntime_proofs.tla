------------------------- MODULE NodeRuntime_proofs -------------------------
(***************************************************************************)
(* Proofs about NodeRuntime, for every set of snapshots, PIDs and faults   *)
(* and every number of crashes.  The argument:                             *)
(*   - each write of the Node is a step of the record protocol (RowStep),  *)
(*     because the control state knows what the row says (ControlInv), so  *)
(*     that RecordInv is an invariant of the Node, too;                    *)
(*   - what the supervisor serves follows the row (ServesInv);             *)
(*   - where stops succeed, only the supervised FRPS lives (OnlyChild);    *)
(*   - where files can be handled, too, no recorded FRPS is lost           *)
(*     (OwnerInv) and a completed disable is clean (CleanInv);             *)
(*   - what is not recorded yet will be (TrackInv), and a status without   *)
(*     an error is a settled one (ReportInv).                              *)
(***************************************************************************)
EXTENDS NodeRuntime, TLAPS

-----------------------------------------------------------------------------
(* The record protocol: whatever the snapshots, the row is well typed, openable *)
(* and truthful                                                                *)

\* Any phase but the first, and the boot flag, come from an accepted snapshot.
FromCandidate == phase # "idle" \/ bootDisabled => candidate # NoSnapshot

RecordInv ==
    /\ RecordTypeOK
    /\ Reopenable
    /\ PhaseMeaning
    /\ FromCandidate

LEMMA RecordInitInv == RecordInit => RecordInv
<1> SUFFICES ASSUME RecordInit PROVE RecordInv
    OBVIOUS
<1> USE DEF RecordInit
<1>1. RecordTypeOK
    BY DEF RecordTypeOK, Phases
<1>2. Reopenable
    BY DEF Reopenable
<1>3. PhaseMeaning /\ FromCandidate
    BY DEF PhaseMeaning, FromCandidate
<1>4. QED
    BY <1>1, <1>2, <1>3 DEF RecordInv

\* A candidate is an accepted snapshot, and its revision is the highest one.
LEMMA CandidateFacts ==
    ASSUME RecordInv, candidate # NoSnapshot
    PROVE  /\ candidate \in Offers
           /\ candidate.state \in {"running", "disabled"}
           /\ candidate.revision = highest
           /\ highest # 0
BY OffersAssumption DEF RecordInv, RecordTypeOK, Reopenable, IsSnapshot

LEMMA AcceptInv == ASSUME RecordInv, NEW s \in Offers, Accept(s) PROVE RecordInv'
<1> USE DEF Accept
<1>1. /\ s # NoSnapshot
      /\ s.revision \in Nat \ {0}
    BY OffersAssumption, NoSnapshotAssumption DEF IsSnapshot
<1>2. RecordTypeOK'
    BY <1>1 DEF RecordInv, RecordTypeOK, Phases
<1>3. Reopenable'
    BY <1>1 DEF RecordInv, RecordTypeOK, Reopenable
<1>4. PhaseMeaning'
    <2>1. failure' = "none" /\ phase' = "accepted" /\ disabledComplete' = FALSE
        OBVIOUS
    <2>2. QED
        BY <2>1 DEF PhaseMeaning
<1>5. FromCandidate'
    BY <1>1 DEF FromCandidate
<1>6. QED
    BY <1>2, <1>3, <1>4, <1>5 DEF RecordInv

\* A write of phase and failure alone, where the new pair means what it says.
LEMMA SetPhaseInv ==
    ASSUME RecordInv, NEW p \in Phases, NEW f \in Failures \cup {"none"},
           SetPhase(p, f),
           p \notin {"idle", "applied", "disabled"},
           p = "failed" <=> f # "none",
           p = "disabling" => bootDisabled /\ candidate.state = "disabled",
           p = "switching" => candidate.state = "running",
           candidate # NoSnapshot,
           ~disabledComplete
    PROVE  RecordInv'
<1> USE DEF SetPhase
<1>1. RecordTypeOK'
    BY DEF RecordInv, RecordTypeOK
<1>2. Reopenable'
    BY DEF RecordInv, Reopenable
<1>3. PhaseMeaning'
    BY DEF RecordInv, PhaseMeaning
<1>4. FromCandidate'
    BY DEF FromCandidate
<1>5. QED
    BY <1>1, <1>2, <1>3, <1>4 DEF RecordInv

LEMMA FinishSwitchInv == ASSUME RecordInv, FinishSwitch PROVE RecordInv'
<1> USE DEF FinishSwitch, MarkRunningApplied
<1>1. /\ candidate \in Offers
      /\ candidate.revision = highest
      /\ highest # 0
      /\ candidate.state = "running"
    BY CandidateFacts
<1>2. RecordTypeOK'
    BY <1>1 DEF RecordInv, RecordTypeOK, Phases
<1>3. Reopenable'
    BY <1>1 DEF RecordInv, RecordTypeOK, Reopenable
<1>4. PhaseMeaning'
    BY DEF PhaseMeaning
<1>5. FromCandidate'
    BY DEF FromCandidate
<1>6. QED
    BY <1>2, <1>3, <1>4, <1>5 DEF RecordInv

LEMMA BeginDisableInv == ASSUME RecordInv, BeginDisable PROVE RecordInv'
<1> USE DEF BeginDisable, MarkDisabling
<1>1. candidate # NoSnapshot
    BY DEF RecordInv, FromCandidate, Undecided
<1>2. RecordTypeOK'
    BY DEF RecordInv, RecordTypeOK, Phases
<1>3. Reopenable'
    BY DEF RecordInv, Reopenable
<1>4. PhaseMeaning'
    BY DEF PhaseMeaning
<1>5. FromCandidate'
    BY <1>1 DEF FromCandidate
<1>6. QED
    BY <1>2, <1>3, <1>4, <1>5 DEF RecordInv

LEMMA FinishDisableInv == ASSUME RecordInv, FinishDisable PROVE RecordInv'
<1> USE DEF FinishDisable, DisablePending, MarkDisabled
<1>1. candidate # NoSnapshot
    BY DEF RecordInv, FromCandidate
<1>2. RecordTypeOK'
    BY DEF RecordInv, RecordTypeOK, Phases
<1>3. Reopenable'
    BY <1>1, CandidateFacts DEF RecordInv, RecordTypeOK, Reopenable
<1>4. PhaseMeaning'
    BY DEF PhaseMeaning
<1>5. FromCandidate'
    BY <1>1 DEF FromCandidate
<1>6. QED
    BY <1>2, <1>3, <1>4, <1>5 DEF RecordInv

\* Each write of the protocol keeps the invariant.
LEMMA RecordStepInv == RecordInv /\ [RecordNext]_recordVars => RecordInv'
<1> SUFFICES ASSUME RecordInv, [RecordNext]_recordVars PROVE RecordInv'
    OBVIOUS
<1>1. CASE \E s \in Offers : Accept(s)
    BY <1>1, AcceptInv
<1>2. CASE BeginSwitch
    <2>1. candidate # NoSnapshot /\ ~disabledComplete
        BY <1>2 DEF BeginSwitch, Undecided, RecordInv, FromCandidate, PhaseMeaning
    <2>2. "switching" \in Phases
        BY DEF Phases
    <2>3. QED
        BY <1>2, <2>1, <2>2, SetPhaseInv DEF BeginSwitch
<1>3. CASE FinishSwitch
    BY <1>3, FinishSwitchInv
<1>4. CASE BeginDisable
    BY <1>4, BeginDisableInv
<1>5. CASE FinishDisable
    BY <1>5, FinishDisableInv
<1>6. CASE GiveUp
    <2>1. PICK f \in Failures : SetPhase("failed", f)
        BY <1>6 DEF GiveUp
    <2>2. candidate # NoSnapshot /\ ~disabledComplete
        BY <1>6 DEF GiveUp, RecordInv, FromCandidate, PhaseMeaning
    <2>3. "failed" \in Phases /\ f # "none"
        BY DEF Phases, Failures
    <2>4. QED
        BY <2>1, <2>2, <2>3, SetPhaseInv
<1>7. CASE Interrupt
    <2>1. candidate # NoSnapshot /\ ~disabledComplete
        BY <1>7 DEF Interrupt, RecordInv, FromCandidate, PhaseMeaning
    <2>2. "interrupted" \in Phases
        BY DEF Phases
    <2>3. QED
        BY <1>7, <2>1, <2>2, SetPhaseInv DEF Interrupt
<1>8. CASE UNCHANGED recordVars
    BY <1>8 DEF recordVars, RecordInv, RecordTypeOK, Reopenable, PhaseMeaning,
                FromCandidate
<1>9. QED
    BY <1>1, <1>2, <1>3, <1>4, <1>5, <1>6, <1>7, <1>8 DEF RecordNext

(***************************************************************************)
(* The row passes the checks of loadNodeV1Identity (Reopenable) and its    *)
(* phase means what a Controller takes it to mean (PhaseMeaning), after    *)
(* every write.                                                            *)
(***************************************************************************)
THEOREM RecordSafe == RecordSpec => [](Reopenable /\ PhaseMeaning)
<1>1. RecordInv => Reopenable /\ PhaseMeaning
    BY DEF RecordInv
<1>2. QED
    BY <1>1, RecordInitInv, RecordStepInv, PTL DEF RecordSpec

\* Neither a revision nor the document accepted under it is ever taken back.
THEOREM RecordAdvances == RecordSpec => RevisionsAdvance
<1>1. ASSUME RecordInv, [RecordNext]_recordVars
      PROVE  [/\ highest' >= highest
              /\ applied' >= applied
              /\ highest' = highest => candidate' = candidate]_recordVars
    <2>1. highest \in Nat /\ applied \in Nat /\ applied <= highest
        BY <1>1 DEF RecordInv, RecordTypeOK, Reopenable
    <2>2. CASE \E s \in Offers : Accept(s)
        BY <2>1, <2>2, OffersAssumption DEF Accept, IsSnapshot
    <2>3. CASE BeginSwitch \/ GiveUp \/ Interrupt
        BY <2>1, <2>3 DEF BeginSwitch, GiveUp, Interrupt, SetPhase
    <2>4. CASE FinishSwitch \/ FinishDisable
        BY <2>1, <2>4 DEF FinishSwitch, FinishDisable, MarkRunningApplied, MarkDisabled
    <2>5. CASE BeginDisable
        BY <2>1, <2>5 DEF BeginDisable, MarkDisabling
    <2>6. CASE UNCHANGED recordVars
        BY <2>6
    <2>7. QED
        BY <1>1, <2>2, <2>3, <2>4, <2>5, <2>6 DEF RecordNext
<1>2. QED
    BY <1>1, RecordInitInv, RecordStepInv, PTL DEF RecordSpec, RevisionsAdvance

-----------------------------------------------------------------------------
(* The inductive invariant *)

Supervised == child # NoPid \/ retry

\* The steps between stopping one FRPS and starting the next, and all those
\* before the first one is started.
StoppedSteps == {"down", "clearOld", "start", "rollbackClear", "disableClear",
                 "disableFiles", "disableCommit"} \cup RecoverSteps

\* The steps at which the candidate may be served before it is recorded.
Window == {"confirm", "remember", "commit", "rollback"}

Switching ==
    \/ pc \in {"stopOld", "clearOld", "commit", "rollback", "rollbackClear"}
    \/ pc \in StartSteps /\ task \in {"apply", "rollback"}

\* What the next step of the Node may take for granted of its row.
ControlInv ==
    /\ pc = "switch" => Undecided /\ candidate.state = "running"
    /\ Switching => phase = "switching"
    /\ pc \in {"rollback", "rollbackClear", "fail"} => code # "none"
    /\ pc \in StartSteps /\ task = "rollback" => code # "none"
    /\ pc = "fail" => phase \in {"accepted", "interrupted", "switching", "disabling"}
    /\ pc = "disable" => Undecided /\ candidate.state = "disabled"
    /\ pc \in DisableSteps \ {"disable"} => phase = "disabling"
    /\ pc = "recoverFiles" => bootDisabled /\ (disabledComplete \/ candidate.state = "disabled")
    /\ pc = "recoverDisabled" => DisablePending
    /\ pc = "recoverPrepare" => lastGood # NoSnapshot

\* What the supervisor serves, and that it serves nothing when it should not.
ServesInv ==
    /\ Alive(child) => proc[child] = config
    /\ Supervised => \/ config = lastGood
                     \/ config = candidate /\ phase = "switching" /\ pc \in Window
    /\ retry => child = NoPid
    /\ pc \in StoppedSteps \/ ~prepared => ~Supervised
    /\ pc \in StartSteps \cup {"switch", "stopOld", "clearOld", "commit",
                               "rollback", "rollbackClear"} => prepared
    /\ pc = "commit" \/ (pc \in {"confirm", "remember"} /\ task = "apply")
           => config = candidate
    /\ pc \in {"confirm", "remember"} /\ task # "apply" => config = lastGood
    /\ bootDisabled /\ Supervised => pc = "disableStop" \/ pc \in Window
    /\ bootDisabled => /\ pc # "recoverPrepare"
                       /\ pc \in StartSteps => task = "apply"

\* As long as nothing fails to stop, nothing lives that is not supervised.
OnlyChild == crashes = 0 /\ "stop" \notin Faults =>
                 \A p \in Pids : Alive(p) => p = child

\* TypeOK in two parts: the flags, and everything else.
FlagsOK ==
    /\ bound \in BOOLEAN
    /\ prepared \in BOOLEAN
    /\ retry \in BOOLEAN
    /\ ownerUnknown \in BOOLEAN
    /\ recoveryError \in BOOLEAN

ValuesOK ==
    /\ RecordTypeOK
    /\ owner \in Pids \cup {NoPid}
    /\ files \subseteq Offers
    /\ proc \in [Pids -> Offers \cup {NoSnapshot}]
    /\ pc \in Steps
    /\ task \in {"recover", "apply", "rollback"}
    /\ code \in Failures \cup {"none"}
    /\ child \in Pids \cup {NoPid}
    /\ config \in Offers \cup {NoSnapshot}
    /\ activeConfig \in Offers \cup {NoSnapshot}
    /\ trackers \subseteq Pids
    /\ tracking \in Pids \cup {NoPid}
    /\ crashes \in 0..MaxCrashes

\* Every step of the Node is a step of the record protocol, or none of it.
LEMMA RowStep ==
    ASSUME RecordInv, TypeOK, ControlInv, [Next]_vars
    PROVE  [RecordNext]_recordVars
<1>1. CASE Boot
    BY <1>1
    DEF Boot, Goto
<1>2. CASE RecoverNothing
    BY <1>2
    DEF RecoverNothing, Step, Goto, RecoverReturns
<1>3. CASE RecoverOwner
    BY <1>3
    DEF RecoverOwner, Step, Goto, RecoverReturns
<1>4. CASE RecoverClear
    BY <1>4
    DEF RecoverClear, Step, Goto, RecoverReturns
<1>5. CASE RecoverDisabledRecord
    BY <1>5
    DEF RecoverDisabledRecord, Step, Goto, RecoverReturns, WriteFails,
        RecordNext, Interrupt
<1>6. CASE RecoverFiles
    BY <1>6
    DEF RecoverFiles, Step, Goto, RecoverReturns
<1>7. CASE RecoverDisabled
    BY <1>7
    DEF RecoverDisabled, Step, Goto, RecoverReturns, WriteFails, ControlInv,
        RecordNext, FinishDisable
<1>8. CASE RecoverRunningRecord
    BY <1>8
    DEF RecoverRunningRecord, Step, Goto, RecoverReturns, WriteFails,
        HalfDone, RecordNext, Interrupt
<1>9. CASE RecoverPrepare
    BY <1>9
    DEF RecoverPrepare, Step, Goto, RecoverReturns
<1>10. CASE Start
    BY <1>10
    DEF Start, Step, Goto
<1>11. CASE Confirm
    BY <1>11
    DEF Confirm, Step, Goto
<1>12. CASE Remember
    BY <1>12
    DEF Remember, Step, Goto, RecoverReturns
<1>13. CASE Claim
    BY <1>13
    DEF Claim
<1>14. ASSUME NEW s \in Offers, Receive(s) PROVE [RecordNext]_recordVars
    BY <1>14
    DEF Receive, Goto, RecordNext
<1>15. CASE ApplyNothing
    BY <1>15
    DEF ApplyNothing, Step, Goto
<1>16. CASE ApplyPrepare
    BY <1>16
    DEF ApplyPrepare, Step, Goto
<1>17. CASE Switch
    BY <1>17
    DEF Switch, Step, Goto, WriteFails, ControlInv, RecordNext, BeginSwitch
<1>18. CASE StopOld
    BY <1>18
    DEF StopOld, Step, Goto
<1>19. CASE ClearOld
    BY <1>19
    DEF ClearOld, Step, Goto
<1>20. CASE Commit
    BY <1>20
    DEF Commit, Step, Goto, RecoverReturns, WriteFails, ControlInv, Switching,
        RecordInv, PhaseMeaning, RecordNext, FinishSwitch
<1>21. CASE Disable
    BY <1>21
    DEF Disable, Step, Goto, WriteFails, ControlInv, RecordNext, BeginDisable
<1>22. CASE DisableStop
    BY <1>22
    DEF DisableStop, Step, Goto
<1>23. CASE DisableClear
    BY <1>23
    DEF DisableClear, Step, Goto
<1>24. CASE DisableFiles
    BY <1>24
    DEF DisableFiles, Step, Goto
<1>25. CASE DisableCommit
    BY <1>25
    DEF DisableCommit, Step, Goto, RecoverReturns, WriteFails, ControlInv,
        DisableSteps, RecordInv, PhaseMeaning, RecordNext, FinishDisable,
        DisablePending
<1>26. CASE Rollback
    BY <1>26
    DEF Rollback, Step, Goto
<1>27. CASE RollbackClear
    BY <1>27
    DEF RollbackClear, Step, Goto
<1>28. CASE Fail
    BY <1>28
    DEF Fail, Step, Goto, WriteFails, TypeOK, ControlInv, RecordNext, GiveUp
<1>29. ASSUME NEW p \in Pids, FrpsExits(p) PROVE [RecordNext]_recordVars
    BY <1>29
    DEF FrpsExits
<1>30. CASE WatchExit
    BY <1>30
    DEF WatchExit
<1>31. CASE Respawn
    BY <1>31
    DEF Respawn
<1>32. ASSUME NEW p \in Pids, TrackBegin(p) PROVE [RecordNext]_recordVars
    BY <1>32
    DEF TrackBegin
<1>33. CASE TrackEnd
    BY <1>33
    DEF TrackEnd
<1>34. CASE Crash
    BY <1>34
    DEF Crash, Goto
<1>35. CASE UNCHANGED vars
    BY <1>35
    DEF vars
<1>36. QED
    BY <1>1, <1>2, <1>3, <1>4, <1>5, <1>6, <1>7, <1>8, <1>9, <1>10, <1>11,
       <1>12, <1>13, <1>14, <1>15, <1>16, <1>17, <1>18, <1>19, <1>20, <1>21,
       <1>22, <1>23, <1>24, <1>25, <1>26, <1>27, <1>28, <1>29, <1>30, <1>31,
       <1>32, <1>33, <1>34, <1>35
    DEF Next, LocalNext, NodeSteps, Recover, StartFrps, ApplyAccepted,
        ApplyDisabled, Undo, Supervise, Track

\* Flags stay flags.
LEMMA FlagsStep ==
    ASSUME TypeOK, [Next]_vars
    PROVE  FlagsOK'
<1>1. CASE Boot
    BY <1>1
    DEF Boot, Goto, supVars, trackVars, nodeVars, TypeOK, FlagsOK
<1>2. CASE RecoverNothing
    BY <1>2
    DEF RecoverNothing, Step, Goto, RecoverReturns, MayFail, supVars,
        trackVars, TypeOK, FlagsOK
<1>3. CASE RecoverOwner
    BY <1>3
    DEF RecoverOwner, Step, Goto, RecoverReturns, MayFail, Alive,
        TerminateOwner, supVars, trackVars, TypeOK, FlagsOK
<1>4. CASE RecoverClear
    BY <1>4
    DEF RecoverClear, Step, Goto, RecoverReturns, MayFail, supVars, trackVars,
        TypeOK, FlagsOK
<1>5. CASE RecoverDisabledRecord
    BY <1>5
    DEF RecoverDisabledRecord, Step, Goto, RecoverReturns, supVars, trackVars,
        TypeOK, FlagsOK
<1>6. CASE RecoverFiles
    BY <1>6
    DEF RecoverFiles, Step, Goto, RecoverReturns, MayFail, supVars, trackVars,
        TypeOK, FlagsOK
<1>7. CASE RecoverDisabled
    BY <1>7
    DEF RecoverDisabled, Step, Goto, RecoverReturns, supVars, trackVars,
        TypeOK, FlagsOK
<1>8. CASE RecoverRunningRecord
    BY <1>8
    DEF RecoverRunningRecord, Step, Goto, RecoverReturns, HalfDone, supVars,
        trackVars, TypeOK, FlagsOK
<1>9. CASE RecoverPrepare
    BY <1>9
    DEF RecoverPrepare, Step, Goto, RecoverReturns, MayFail, supVars,
        trackVars, TypeOK, FlagsOK
<1>10. CASE Start
    BY <1>10
    DEF Start, Step, Goto, RecoverReturns, MayFail, Spawn, Fresh, Alive,
        StartFails, StartPath, TypeOK, FlagsOK
<1>11. CASE Confirm
    BY <1>11
    DEF Confirm, Step, Goto, RecoverReturns, Alive, StartFails, trackVars,
        TypeOK, FlagsOK
<1>12. CASE Remember
    BY <1>12
    DEF Remember, Step, Goto, RecoverReturns, MayFail, StopChild, Alive,
        RememberOwner, RememberOwnerFails, StartFails, trackVars, TypeOK,
        FlagsOK
<1>13. CASE Claim
    BY <1>13
    DEF Claim, supVars, trackVars, nodeVars, TypeOK, FlagsOK
<1>14. ASSUME NEW s \in Offers, Receive(s) PROVE FlagsOK'
    BY <1>14
    DEF Receive, Goto, supVars, trackVars, nodeVars, TypeOK, FlagsOK
<1>15. CASE ApplyNothing
    BY <1>15
    DEF ApplyNothing, Step, Goto, Undecided, supVars, trackVars, nodeVars,
        TypeOK, FlagsOK
<1>16. CASE ApplyPrepare
    BY <1>16
    DEF ApplyPrepare, Step, Goto, MayFail, Undecided, supVars, trackVars,
        TypeOK, FlagsOK
<1>17. CASE Switch
    BY <1>17
    DEF Switch, Step, Goto, supVars, trackVars, nodeVars, TypeOK, FlagsOK
<1>18. CASE StopOld
    BY <1>18
    DEF StopOld, Step, Goto, MayFail, StopChild, trackVars, nodeVars, TypeOK,
        FlagsOK
<1>19. CASE ClearOld
    BY <1>19
    DEF ClearOld, Step, Goto, MayFail, supVars, trackVars, TypeOK, FlagsOK
<1>20. CASE Commit
    BY <1>20
    DEF Commit, Step, Goto, RecoverReturns, supVars, trackVars, TypeOK,
        FlagsOK
<1>21. CASE Disable
    BY <1>21
    DEF Disable, Step, Goto, supVars, trackVars, nodeVars, TypeOK, FlagsOK
<1>22. CASE DisableStop
    BY <1>22
    DEF DisableStop, Step, Goto, MayFail, StopChild, trackVars, nodeVars,
        TypeOK, FlagsOK
<1>23. CASE DisableClear
    BY <1>23
    DEF DisableClear, Step, Goto, MayFail, supVars, trackVars, TypeOK, FlagsOK
<1>24. CASE DisableFiles
    BY <1>24
    DEF DisableFiles, Step, Goto, MayFail, supVars, trackVars, nodeVars,
        TypeOK, FlagsOK
<1>25. CASE DisableCommit
    BY <1>25
    DEF DisableCommit, Step, Goto, RecoverReturns, supVars, trackVars, TypeOK,
        FlagsOK
<1>26. CASE Rollback
    BY <1>26
    DEF Rollback, Step, Goto, MayFail, StopChild, trackVars, nodeVars, TypeOK,
        FlagsOK
<1>27. CASE RollbackClear
    BY <1>27
    DEF RollbackClear, Step, Goto, MayFail, Restores, supVars, trackVars,
        TypeOK, FlagsOK
<1>28. CASE Fail
    BY <1>28
    DEF Fail, Step, Goto, supVars, trackVars, nodeVars, TypeOK, FlagsOK
<1>29. ASSUME NEW p \in Pids, FrpsExits(p) PROVE FlagsOK'
    BY <1>29
    DEF FrpsExits, Alive, supVars, trackVars, nodeVars, TypeOK, FlagsOK
<1>30. CASE WatchExit
    BY <1>30
    DEF WatchExit, Alive, SupervisorFree, trackVars, nodeVars, TypeOK, FlagsOK
<1>31. CASE Respawn
    BY <1>31
    DEF Respawn, Spawn, Fresh, Alive, SupervisorFree, nodeVars, TypeOK,
        FlagsOK
<1>32. ASSUME NEW p \in Pids, TrackBegin(p) PROVE FlagsOK'
    BY <1>32
    DEF TrackBegin, RuntimeFree, supVars, nodeVars, TypeOK, FlagsOK
<1>33. CASE TrackEnd
    BY <1>33
    DEF TrackEnd, MayFail, Alive, RememberOwner, supVars, TypeOK, FlagsOK
<1>34. CASE Crash
    BY <1>34
    DEF Crash, Goto, TypeOK, FlagsOK
<1>35. CASE UNCHANGED vars
    BY <1>35
    DEF vars, supVars, trackVars, nodeVars, TypeOK, FlagsOK
<1>36. QED
    BY <1>1, <1>2, <1>3, <1>4, <1>5, <1>6, <1>7, <1>8, <1>9, <1>10, <1>11,
       <1>12, <1>13, <1>14, <1>15, <1>16, <1>17, <1>18, <1>19, <1>20, <1>21,
       <1>22, <1>23, <1>24, <1>25, <1>26, <1>27, <1>28, <1>29, <1>30, <1>31,
       <1>32, <1>33, <1>34, <1>35
    DEF Next, LocalNext, NodeSteps, Recover, StartFrps, ApplyAccepted,
        ApplyDisabled, Undo, Supervise, Track

\* Values keep their types; those of the row by the protocol.
LEMMA ValuesStep ==
    ASSUME RecordInv, TypeOK, ControlInv, RecordTypeOK', [Next]_vars
    PROVE  ValuesOK'
<1>1. CASE Boot
    BY <1>1
    DEF Boot, Goto, supVars, trackVars, nodeVars, TypeOK, ValuesOK, Steps,
        RecoverSteps, StartSteps, ApplySteps, DisableSteps, UndoSteps,
        Failures
<1>2. CASE RecoverNothing
    BY <1>2
    DEF RecoverNothing, Step, Goto, RecoverReturns, MayFail, supVars,
        trackVars, TypeOK, ValuesOK, Steps, RecoverSteps, StartSteps,
        ApplySteps, DisableSteps, UndoSteps, Failures
<1>3. CASE RecoverOwner
    BY <1>3
    DEF RecoverOwner, Step, Goto, RecoverReturns, MayFail, Alive,
        TerminateOwner, supVars, trackVars, TypeOK, ValuesOK, Steps,
        RecoverSteps, StartSteps, ApplySteps, DisableSteps, UndoSteps,
        Failures
<1>4. CASE RecoverClear
    BY <1>4
    DEF RecoverClear, Step, Goto, RecoverReturns, MayFail, supVars, trackVars,
        TypeOK, ValuesOK, Steps, RecoverSteps, StartSteps, ApplySteps,
        DisableSteps, UndoSteps, Failures
<1>5. CASE RecoverDisabledRecord
    BY <1>5
    DEF RecoverDisabledRecord, Step, Goto, RecoverReturns, MayFail,
        WriteFails, SetPhase, supVars, trackVars, TypeOK, ValuesOK, Steps,
        RecoverSteps, StartSteps, ApplySteps, DisableSteps, UndoSteps,
        Failures
<1>6. CASE RecoverFiles
    BY <1>6
    DEF RecoverFiles, Step, Goto, RecoverReturns, MayFail, supVars, trackVars,
        TypeOK, ValuesOK, Steps, RecoverSteps, StartSteps, ApplySteps,
        DisableSteps, UndoSteps, Failures
<1>7. CASE RecoverDisabled
    BY <1>7
    DEF RecoverDisabled, Step, Goto, RecoverReturns, MayFail, WriteFails,
        MarkDisabled, supVars, trackVars, TypeOK, ValuesOK, Steps,
        RecoverSteps, StartSteps, ApplySteps, DisableSteps, UndoSteps,
        Failures
<1>8. CASE RecoverRunningRecord
    BY <1>8
    DEF RecoverRunningRecord, Step, Goto, RecoverReturns, MayFail, WriteFails,
        HalfDone, SetPhase, supVars, trackVars, TypeOK, ValuesOK, Steps,
        RecoverSteps, StartSteps, ApplySteps, DisableSteps, UndoSteps,
        Failures
<1>9. CASE RecoverPrepare
    BY <1>9
    DEF RecoverPrepare, Step, Goto, RecoverReturns, MayFail, supVars,
        trackVars, ControlInv, RecordTypeOK, TypeOK, ValuesOK, Steps,
        RecoverSteps, StartSteps, ApplySteps, DisableSteps, UndoSteps,
        Failures
<1>10. CASE Start
    BY <1>10
    DEF Start, Step, Goto, RecoverReturns, MayFail, Spawn, Fresh, Alive,
        StartFails, StartPath, RecordTypeOK, TypeOK, ValuesOK, Steps,
        RecoverSteps, StartSteps, ApplySteps, DisableSteps, UndoSteps,
        Failures
<1>11. CASE Confirm
    BY <1>11
    DEF Confirm, Step, Goto, RecoverReturns, Alive, StartFails, trackVars,
        TypeOK, ValuesOK, Steps, RecoverSteps, StartSteps, ApplySteps,
        DisableSteps, UndoSteps, Failures
<1>12. CASE Remember
    BY <1>12
    DEF Remember, Step, Goto, RecoverReturns, MayFail, StopChild, Alive,
        RememberOwner, RememberOwnerFails, StartFails, trackVars, TypeOK,
        ValuesOK, Steps, RecoverSteps, StartSteps, ApplySteps, DisableSteps,
        UndoSteps, Failures
<1>13. CASE Claim
    BY <1>13
    DEF Claim, supVars, trackVars, nodeVars, TypeOK, ValuesOK, Steps,
        RecoverSteps, StartSteps, ApplySteps, DisableSteps, UndoSteps,
        Failures
<1>14. ASSUME NEW s \in Offers, Receive(s) PROVE ValuesOK'
    BY <1>14
    DEF Receive, Goto, Accept, supVars, trackVars, nodeVars, TypeOK, ValuesOK,
        Steps, RecoverSteps, StartSteps, ApplySteps, DisableSteps, UndoSteps,
        Failures
<1>15. CASE ApplyNothing
    BY <1>15
    DEF ApplyNothing, Step, Goto, Undecided, supVars, trackVars, nodeVars,
        TypeOK, ValuesOK, Steps, RecoverSteps, StartSteps, ApplySteps,
        DisableSteps, UndoSteps, Failures
<1>16. CASE ApplyPrepare
    BY <1>16
    DEF ApplyPrepare, Step, Goto, MayFail, Undecided, supVars, trackVars,
        RecordInv, RecordTypeOK, FromCandidate, TypeOK, ValuesOK, Steps,
        RecoverSteps, StartSteps, ApplySteps, DisableSteps, UndoSteps,
        Failures
<1>17. CASE Switch
    BY <1>17
    DEF Switch, Step, Goto, MayFail, WriteFails, SetPhase, supVars, trackVars,
        nodeVars, TypeOK, ValuesOK, Steps, RecoverSteps, StartSteps,
        ApplySteps, DisableSteps, UndoSteps, Failures
<1>18. CASE StopOld
    BY <1>18
    DEF StopOld, Step, Goto, MayFail, StopChild, trackVars, nodeVars, TypeOK,
        ValuesOK, Steps, RecoverSteps, StartSteps, ApplySteps, DisableSteps,
        UndoSteps, Failures
<1>19. CASE ClearOld
    BY <1>19
    DEF ClearOld, Step, Goto, MayFail, supVars, trackVars, TypeOK, ValuesOK,
        Steps, RecoverSteps, StartSteps, ApplySteps, DisableSteps, UndoSteps,
        Failures
<1>20. CASE Commit
    BY <1>20
    DEF Commit, Step, Goto, RecoverReturns, MayFail, WriteFails,
        MarkRunningApplied, supVars, trackVars, TypeOK, ValuesOK, Steps,
        RecoverSteps, StartSteps, ApplySteps, DisableSteps, UndoSteps,
        Failures
<1>21. CASE Disable
    BY <1>21
    DEF Disable, Step, Goto, MayFail, WriteFails, MarkDisabling, supVars,
        trackVars, nodeVars, TypeOK, ValuesOK, Steps, RecoverSteps,
        StartSteps, ApplySteps, DisableSteps, UndoSteps, Failures
<1>22. CASE DisableStop
    BY <1>22
    DEF DisableStop, Step, Goto, MayFail, StopChild, trackVars, nodeVars,
        TypeOK, ValuesOK, Steps, RecoverSteps, StartSteps, ApplySteps,
        DisableSteps, UndoSteps, Failures
<1>23. CASE DisableClear
    BY <1>23
    DEF DisableClear, Step, Goto, MayFail, supVars, trackVars, TypeOK,
        ValuesOK, Steps, RecoverSteps, StartSteps, ApplySteps, DisableSteps,
        UndoSteps, Failures
<1>24. CASE DisableFiles
    BY <1>24
    DEF DisableFiles, Step, Goto, MayFail, supVars, trackVars, nodeVars,
        TypeOK, ValuesOK, Steps, RecoverSteps, StartSteps, ApplySteps,
        DisableSteps, UndoSteps, Failures
<1>25. CASE DisableCommit
    BY <1>25
    DEF DisableCommit, Step, Goto, RecoverReturns, MayFail, WriteFails,
        MarkDisabled, supVars, trackVars, TypeOK, ValuesOK, Steps,
        RecoverSteps, StartSteps, ApplySteps, DisableSteps, UndoSteps,
        Failures
<1>26. CASE Rollback
    BY <1>26
    DEF Rollback, Step, Goto, MayFail, StopChild, trackVars, nodeVars, TypeOK,
        ValuesOK, Steps, RecoverSteps, StartSteps, ApplySteps, DisableSteps,
        UndoSteps, Failures
<1>27. CASE RollbackClear
    BY <1>27
    DEF RollbackClear, Step, Goto, MayFail, Restores, supVars, trackVars,
        RecordTypeOK, TypeOK, ValuesOK, Steps, RecoverSteps, StartSteps,
        ApplySteps, DisableSteps, UndoSteps, Failures
<1>28. CASE Fail
    BY <1>28
    DEF Fail, Step, Goto, MayFail, WriteFails, SetPhase, supVars, trackVars,
        nodeVars, TypeOK, ValuesOK, Steps, RecoverSteps, StartSteps,
        ApplySteps, DisableSteps, UndoSteps, Failures
<1>29. ASSUME NEW p \in Pids, FrpsExits(p) PROVE ValuesOK'
    BY <1>29
    DEF FrpsExits, Alive, supVars, trackVars, nodeVars, TypeOK, ValuesOK,
        Steps, RecoverSteps, StartSteps, ApplySteps, DisableSteps, UndoSteps,
        Failures
<1>30. CASE WatchExit
    BY <1>30
    DEF WatchExit, Alive, SupervisorFree, trackVars, nodeVars, TypeOK,
        ValuesOK, Steps, RecoverSteps, StartSteps, ApplySteps, DisableSteps,
        UndoSteps, Failures
<1>31. CASE Respawn
    BY <1>31
    DEF Respawn, Spawn, Fresh, Alive, SupervisorFree, nodeVars, TypeOK,
        ValuesOK, Steps, RecoverSteps, StartSteps, ApplySteps, DisableSteps,
        UndoSteps, Failures
<1>32. ASSUME NEW p \in Pids, TrackBegin(p) PROVE ValuesOK'
    BY <1>32
    DEF TrackBegin, RuntimeFree, supVars, nodeVars, TypeOK, ValuesOK, Steps,
        RecoverSteps, StartSteps, ApplySteps, DisableSteps, UndoSteps,
        Failures
<1>33. CASE TrackEnd
    BY <1>33
    DEF TrackEnd, MayFail, Alive, RememberOwner, supVars, TypeOK, ValuesOK,
        Steps, RecoverSteps, StartSteps, ApplySteps, DisableSteps, UndoSteps,
        Failures
<1>34. CASE Crash
    BY <1>34, MaxCrashesAssumption
    DEF Crash, Goto, TypeOK, ValuesOK, Steps, RecoverSteps, StartSteps,
        ApplySteps, DisableSteps, UndoSteps, Failures
<1>35. CASE UNCHANGED vars
    BY <1>35
    DEF vars, supVars, trackVars, nodeVars, TypeOK, ValuesOK
<1>36. QED
    BY <1>1, <1>2, <1>3, <1>4, <1>5, <1>6, <1>7, <1>8, <1>9, <1>10, <1>11,
       <1>12, <1>13, <1>14, <1>15, <1>16, <1>17, <1>18, <1>19, <1>20, <1>21,
       <1>22, <1>23, <1>24, <1>25, <1>26, <1>27, <1>28, <1>29, <1>30, <1>31,
       <1>32, <1>33, <1>34, <1>35
    DEF Next, LocalNext, NodeSteps, Recover, StartFrps, ApplyAccepted,
        ApplyDisabled, Undo, Supervise, Track

\* Each step finds the row as the step before left it.
LEMMA ControlStep ==
    ASSUME RecordInv, RecordInv', TypeOK, ControlInv, [Next]_vars
    PROVE  ControlInv'
<1>1. CASE Boot
    BY <1>1
    DEF Boot, Goto, recordVars, supVars, trackVars, nodeVars, RecordInv,
        FromCandidate, PhaseMeaning, Undecided, DisablePending, ControlInv,
        Switching, Steps, RecoverSteps, StartSteps, ApplySteps, DisableSteps,
        UndoSteps
<1>2. CASE RecoverNothing
    BY <1>2
    DEF RecoverNothing, Step, Goto, RecoverReturns, MayFail, recordVars,
        supVars, trackVars, RecordInv, FromCandidate, PhaseMeaning, Undecided,
        DisablePending, ControlInv, Switching, Steps, RecoverSteps,
        StartSteps, ApplySteps, DisableSteps, UndoSteps
<1>3. CASE RecoverOwner
    BY <1>3
    DEF RecoverOwner, Step, Goto, RecoverReturns, MayFail, Alive,
        TerminateOwner, recordVars, supVars, trackVars, RecordInv,
        FromCandidate, PhaseMeaning, Undecided, DisablePending, ControlInv,
        Switching, Steps, RecoverSteps, StartSteps, ApplySteps, DisableSteps,
        UndoSteps
<1>4. CASE RecoverClear
    BY <1>4
    DEF RecoverClear, Step, Goto, RecoverReturns, MayFail, recordVars,
        supVars, trackVars, RecordInv, FromCandidate, PhaseMeaning, Undecided,
        DisablePending, ControlInv, Switching, Steps, RecoverSteps,
        StartSteps, ApplySteps, DisableSteps, UndoSteps
<1>5. CASE RecoverDisabledRecord
    BY <1>5, CandidateFacts
    DEF RecoverDisabledRecord, Step, Goto, RecoverReturns, MayFail,
        WriteFails, SetPhase, recordVars, supVars, trackVars, RecordInv,
        FromCandidate, PhaseMeaning, Undecided, DisablePending, ControlInv,
        Switching, Steps, RecoverSteps, StartSteps, ApplySteps, DisableSteps,
        UndoSteps
<1>6. CASE RecoverFiles
    BY <1>6
    DEF RecoverFiles, Step, Goto, RecoverReturns, MayFail, recordVars,
        supVars, trackVars, RecordInv, FromCandidate, PhaseMeaning, Undecided,
        DisablePending, ControlInv, Switching, Steps, RecoverSteps,
        StartSteps, ApplySteps, DisableSteps, UndoSteps
<1>7. CASE RecoverDisabled
    BY <1>7
    DEF RecoverDisabled, Step, Goto, RecoverReturns, MayFail, WriteFails,
        MarkDisabled, recordVars, supVars, trackVars, RecordInv,
        FromCandidate, PhaseMeaning, Undecided, DisablePending, ControlInv,
        Switching, Steps, RecoverSteps, StartSteps, ApplySteps, DisableSteps,
        UndoSteps
<1>8. CASE RecoverRunningRecord
    BY <1>8
    DEF RecoverRunningRecord, Step, Goto, RecoverReturns, MayFail, WriteFails,
        HalfDone, SetPhase, recordVars, supVars, trackVars, RecordInv,
        FromCandidate, PhaseMeaning, Undecided, DisablePending, ControlInv,
        Switching, Steps, RecoverSteps, StartSteps, ApplySteps, DisableSteps,
        UndoSteps
<1>9. CASE RecoverPrepare
    BY <1>9
    DEF RecoverPrepare, Step, Goto, RecoverReturns, MayFail, recordVars,
        supVars, trackVars, RecordInv, FromCandidate, PhaseMeaning, Undecided,
        DisablePending, ControlInv, Switching, Steps, RecoverSteps,
        StartSteps, ApplySteps, DisableSteps, UndoSteps
<1>10. CASE Start
    BY <1>10
    DEF Start, Step, Goto, RecoverReturns, MayFail, Spawn, Fresh, Alive,
        StartFails, StartPath, recordVars, RecordInv, FromCandidate,
        PhaseMeaning, Undecided, DisablePending, ControlInv, Switching, Steps,
        RecoverSteps, StartSteps, ApplySteps, DisableSteps, UndoSteps
<1>11. CASE Confirm
    BY <1>11
    DEF Confirm, Step, Goto, RecoverReturns, Alive, StartFails, recordVars,
        trackVars, RecordInv, FromCandidate, PhaseMeaning, Undecided,
        DisablePending, ControlInv, Switching, Steps, RecoverSteps,
        StartSteps, ApplySteps, DisableSteps, UndoSteps
<1>12. CASE Remember
    BY <1>12
    DEF Remember, Step, Goto, RecoverReturns, MayFail, StopChild, Alive,
        RememberOwner, RememberOwnerFails, StartFails, recordVars, trackVars,
        RecordInv, FromCandidate, PhaseMeaning, Undecided, DisablePending,
        ControlInv, Switching, Steps, RecoverSteps, StartSteps, ApplySteps,
        DisableSteps, UndoSteps
<1>13. CASE Claim
    BY <1>13
    DEF Claim, recordVars, supVars, trackVars, nodeVars, RecordInv,
        FromCandidate, PhaseMeaning, Undecided, DisablePending, ControlInv,
        Switching, Steps, RecoverSteps, StartSteps, ApplySteps, DisableSteps,
        UndoSteps
<1>14. ASSUME NEW s \in Offers, Receive(s) PROVE ControlInv'
    BY <1>14
    DEF Receive, Goto, Accept, recordVars, supVars, trackVars, nodeVars,
        RecordInv, FromCandidate, PhaseMeaning, Undecided, DisablePending,
        ControlInv, Switching, Steps, RecoverSteps, StartSteps, ApplySteps,
        DisableSteps, UndoSteps
<1>15. CASE ApplyNothing
    BY <1>15
    DEF ApplyNothing, Step, Goto, Undecided, recordVars, supVars, trackVars,
        nodeVars, RecordInv, FromCandidate, PhaseMeaning, DisablePending,
        ControlInv, Switching, Steps, RecoverSteps, StartSteps, ApplySteps,
        DisableSteps, UndoSteps
<1>16. CASE ApplyPrepare
    BY <1>16, CandidateFacts
    DEF ApplyPrepare, Step, Goto, MayFail, Undecided, recordVars, supVars,
        trackVars, RecordInv, FromCandidate, PhaseMeaning, DisablePending,
        ControlInv, Switching, Steps, RecoverSteps, StartSteps, ApplySteps,
        DisableSteps, UndoSteps
<1>17. CASE Switch
    BY <1>17
    DEF Switch, Step, Goto, MayFail, WriteFails, SetPhase, recordVars,
        supVars, trackVars, nodeVars, RecordInv, FromCandidate, PhaseMeaning,
        Undecided, DisablePending, ControlInv, Switching, Steps, RecoverSteps,
        StartSteps, ApplySteps, DisableSteps, UndoSteps
<1>18. CASE StopOld
    BY <1>18
    DEF StopOld, Step, Goto, MayFail, StopChild, recordVars, trackVars,
        nodeVars, RecordInv, FromCandidate, PhaseMeaning, Undecided,
        DisablePending, ControlInv, Switching, Steps, RecoverSteps,
        StartSteps, ApplySteps, DisableSteps, UndoSteps
<1>19. CASE ClearOld
    BY <1>19
    DEF ClearOld, Step, Goto, MayFail, recordVars, supVars, trackVars,
        RecordInv, FromCandidate, PhaseMeaning, Undecided, DisablePending,
        ControlInv, Switching, Steps, RecoverSteps, StartSteps, ApplySteps,
        DisableSteps, UndoSteps
<1>20. CASE Commit
    BY <1>20
    DEF Commit, Step, Goto, RecoverReturns, MayFail, WriteFails,
        MarkRunningApplied, recordVars, supVars, trackVars, RecordInv,
        FromCandidate, PhaseMeaning, Undecided, DisablePending, ControlInv,
        Switching, Steps, RecoverSteps, StartSteps, ApplySteps, DisableSteps,
        UndoSteps
<1>21. CASE Disable
    BY <1>21
    DEF Disable, Step, Goto, MayFail, WriteFails, MarkDisabling, recordVars,
        supVars, trackVars, nodeVars, RecordInv, FromCandidate, PhaseMeaning,
        Undecided, DisablePending, ControlInv, Switching, Steps, RecoverSteps,
        StartSteps, ApplySteps, DisableSteps, UndoSteps
<1>22. CASE DisableStop
    BY <1>22
    DEF DisableStop, Step, Goto, MayFail, StopChild, recordVars, trackVars,
        nodeVars, RecordInv, FromCandidate, PhaseMeaning, Undecided,
        DisablePending, ControlInv, Switching, Steps, RecoverSteps,
        StartSteps, ApplySteps, DisableSteps, UndoSteps
<1>23. CASE DisableClear
    BY <1>23
    DEF DisableClear, Step, Goto, MayFail, recordVars, supVars, trackVars,
        RecordInv, FromCandidate, PhaseMeaning, Undecided, DisablePending,
        ControlInv, Switching, Steps, RecoverSteps, StartSteps, ApplySteps,
        DisableSteps, UndoSteps
<1>24. CASE DisableFiles
    BY <1>24
    DEF DisableFiles, Step, Goto, MayFail, recordVars, supVars, trackVars,
        nodeVars, RecordInv, FromCandidate, PhaseMeaning, Undecided,
        DisablePending, ControlInv, Switching, Steps, RecoverSteps,
        StartSteps, ApplySteps, DisableSteps, UndoSteps
<1>25. CASE DisableCommit
    BY <1>25
    DEF DisableCommit, Step, Goto, RecoverReturns, MayFail, WriteFails,
        MarkDisabled, recordVars, supVars, trackVars, RecordInv,
        FromCandidate, PhaseMeaning, Undecided, DisablePending, ControlInv,
        Switching, Steps, RecoverSteps, StartSteps, ApplySteps, DisableSteps,
        UndoSteps
<1>26. CASE Rollback
    BY <1>26
    DEF Rollback, Step, Goto, MayFail, StopChild, recordVars, trackVars,
        nodeVars, RecordInv, FromCandidate, PhaseMeaning, Undecided,
        DisablePending, ControlInv, Switching, Steps, RecoverSteps,
        StartSteps, ApplySteps, DisableSteps, UndoSteps
<1>27. CASE RollbackClear
    BY <1>27
    DEF RollbackClear, Step, Goto, MayFail, Restores, recordVars, supVars,
        trackVars, RecordInv, FromCandidate, PhaseMeaning, Undecided,
        DisablePending, ControlInv, Switching, Steps, RecoverSteps,
        StartSteps, ApplySteps, DisableSteps, UndoSteps
<1>28. CASE Fail
    BY <1>28
    DEF Fail, Step, Goto, MayFail, WriteFails, SetPhase, recordVars, supVars,
        trackVars, nodeVars, RecordInv, FromCandidate, PhaseMeaning,
        Undecided, DisablePending, ControlInv, Switching, Steps, RecoverSteps,
        StartSteps, ApplySteps, DisableSteps, UndoSteps
<1>29. ASSUME NEW p \in Pids, FrpsExits(p) PROVE ControlInv'
    BY <1>29
    DEF FrpsExits, Alive, recordVars, supVars, trackVars, nodeVars, RecordInv,
        FromCandidate, PhaseMeaning, Undecided, DisablePending, ControlInv,
        Switching, Steps, RecoverSteps, StartSteps, ApplySteps, DisableSteps,
        UndoSteps
<1>30. CASE WatchExit
    BY <1>30
    DEF WatchExit, Alive, SupervisorFree, recordVars, trackVars, nodeVars,
        RecordInv, FromCandidate, PhaseMeaning, Undecided, DisablePending,
        ControlInv, Switching, Steps, RecoverSteps, StartSteps, ApplySteps,
        DisableSteps, UndoSteps
<1>31. CASE Respawn
    BY <1>31
    DEF Respawn, Spawn, Fresh, Alive, SupervisorFree, recordVars, nodeVars,
        RecordInv, FromCandidate, PhaseMeaning, Undecided, DisablePending,
        ControlInv, Switching, Steps, RecoverSteps, StartSteps, ApplySteps,
        DisableSteps, UndoSteps
<1>32. ASSUME NEW p \in Pids, TrackBegin(p) PROVE ControlInv'
    BY <1>32
    DEF TrackBegin, RuntimeFree, recordVars, supVars, nodeVars, RecordInv,
        FromCandidate, PhaseMeaning, Undecided, DisablePending, ControlInv,
        Switching, Steps, RecoverSteps, StartSteps, ApplySteps, DisableSteps,
        UndoSteps
<1>33. CASE TrackEnd
    BY <1>33
    DEF TrackEnd, MayFail, Alive, RememberOwner, recordVars, supVars,
        RecordInv, FromCandidate, PhaseMeaning, Undecided, DisablePending,
        ControlInv, Switching, Steps, RecoverSteps, StartSteps, ApplySteps,
        DisableSteps, UndoSteps
<1>34. CASE Crash
    BY <1>34
    DEF Crash, Goto, recordVars, RecordInv, FromCandidate, PhaseMeaning,
        Undecided, DisablePending, ControlInv, Switching, Steps, RecoverSteps,
        StartSteps, ApplySteps, DisableSteps, UndoSteps
<1>35. CASE UNCHANGED vars
    BY <1>35
    DEF vars, recordVars, supVars, trackVars, nodeVars, ControlInv, Switching,
        Undecided, DisablePending
<1>36. QED
    BY <1>1, <1>2, <1>3, <1>4, <1>5, <1>6, <1>7, <1>8, <1>9, <1>10, <1>11,
       <1>12, <1>13, <1>14, <1>15, <1>16, <1>17, <1>18, <1>19, <1>20, <1>21,
       <1>22, <1>23, <1>24, <1>25, <1>26, <1>27, <1>28, <1>29, <1>30, <1>31,
       <1>32, <1>33, <1>34, <1>35
    DEF Next, LocalNext, NodeSteps, Recover, StartFrps, ApplyAccepted,
        ApplyDisabled, Undo, Supervise, Track

\* What is supervised is what the row says, and nothing when it says so.
LEMMA ServesStep ==
    ASSUME RecordInv, TypeOK, ControlInv, ServesInv, [Next]_vars
    PROVE  ServesInv'
<1>1. CASE Boot
    BY <1>1, NoPidAssumption
    DEF Boot, Goto, recordVars, supVars, trackVars, nodeVars, ControlInv,
        Switching, Undecided, DisablePending, ServesInv, Supervised,
        StoppedSteps, Window, Alive, TypeOK, RecoverSteps, StartSteps
<1>2. CASE RecoverNothing
    BY <1>2, NoPidAssumption
    DEF RecoverNothing, Step, Goto, RecoverReturns, MayFail, recordVars,
        supVars, trackVars, ControlInv, Switching, Undecided, DisablePending,
        ServesInv, Supervised, StoppedSteps, Window, Alive, TypeOK,
        RecoverSteps, StartSteps
<1>3. CASE RecoverOwner
    BY <1>3, NoPidAssumption
    DEF RecoverOwner, Step, Goto, RecoverReturns, MayFail, Alive,
        TerminateOwner, recordVars, supVars, trackVars, ControlInv, Switching,
        Undecided, DisablePending, ServesInv, Supervised, StoppedSteps,
        Window, TypeOK, RecoverSteps, StartSteps
<1>4. CASE RecoverClear
    BY <1>4, NoPidAssumption
    DEF RecoverClear, Step, Goto, RecoverReturns, MayFail, recordVars,
        supVars, trackVars, ControlInv, Switching, Undecided, DisablePending,
        ServesInv, Supervised, StoppedSteps, Window, Alive, TypeOK,
        RecoverSteps, StartSteps
<1>5. CASE RecoverDisabledRecord
    BY <1>5, NoPidAssumption
    DEF RecoverDisabledRecord, Step, Goto, RecoverReturns, MayFail,
        WriteFails, SetPhase, recordVars, supVars, trackVars, ControlInv,
        Switching, Undecided, DisablePending, ServesInv, Supervised,
        StoppedSteps, Window, Alive, TypeOK, RecoverSteps, StartSteps
<1>6. CASE RecoverFiles
    BY <1>6, NoPidAssumption
    DEF RecoverFiles, Step, Goto, RecoverReturns, MayFail, recordVars,
        supVars, trackVars, ControlInv, Switching, Undecided, DisablePending,
        ServesInv, Supervised, StoppedSteps, Window, Alive, TypeOK,
        RecoverSteps, StartSteps
<1>7. CASE RecoverDisabled
    BY <1>7, NoPidAssumption
    DEF RecoverDisabled, Step, Goto, RecoverReturns, MayFail, WriteFails,
        MarkDisabled, recordVars, supVars, trackVars, ControlInv, Switching,
        Undecided, DisablePending, ServesInv, Supervised, StoppedSteps,
        Window, Alive, TypeOK, RecoverSteps, StartSteps
<1>8. CASE RecoverRunningRecord
    BY <1>8, NoPidAssumption
    DEF RecoverRunningRecord, Step, Goto, RecoverReturns, MayFail, WriteFails,
        HalfDone, SetPhase, recordVars, supVars, trackVars, ControlInv,
        Switching, Undecided, DisablePending, ServesInv, Supervised,
        StoppedSteps, Window, Alive, TypeOK, RecoverSteps, StartSteps
<1>9. CASE RecoverPrepare
    BY <1>9, NoPidAssumption
    DEF RecoverPrepare, Step, Goto, RecoverReturns, MayFail, recordVars,
        supVars, trackVars, ControlInv, Switching, Undecided, DisablePending,
        ServesInv, Supervised, StoppedSteps, Window, Alive, TypeOK,
        RecoverSteps, StartSteps
<1>10. CASE Start
    BY <1>10, NoPidAssumption
    DEF Start, Step, Goto, RecoverReturns, MayFail, Spawn, Fresh, Alive,
        StartFails, StartPath, recordVars, ControlInv, Switching, Undecided,
        DisablePending, ServesInv, Supervised, StoppedSteps, Window, TypeOK,
        RecoverSteps, StartSteps
<1>11. CASE Confirm
    BY <1>11, NoPidAssumption
    DEF Confirm, Step, Goto, RecoverReturns, Alive, StartFails, recordVars,
        trackVars, ControlInv, Switching, Undecided, DisablePending,
        ServesInv, Supervised, StoppedSteps, Window, TypeOK, RecoverSteps,
        StartSteps
<1>12. CASE Remember
    BY <1>12, NoPidAssumption
    DEF Remember, Step, Goto, RecoverReturns, MayFail, StopChild, Alive,
        RememberOwner, RememberOwnerFails, StartFails, recordVars, trackVars,
        ControlInv, Switching, Undecided, DisablePending, ServesInv,
        Supervised, StoppedSteps, Window, TypeOK, RecoverSteps, StartSteps
<1>13. CASE Claim
    BY <1>13, NoPidAssumption
    DEF Claim, recordVars, supVars, trackVars, nodeVars, ControlInv,
        Switching, Undecided, DisablePending, ServesInv, Supervised,
        StoppedSteps, Window, Alive, TypeOK, RecoverSteps, StartSteps
<1>14. ASSUME NEW s \in Offers, Receive(s) PROVE ServesInv'
    BY <1>14, NoPidAssumption
    DEF Receive, Goto, Accept, recordVars, supVars, trackVars, nodeVars,
        ControlInv, Switching, Undecided, DisablePending, ServesInv,
        Supervised, StoppedSteps, Window, Alive, TypeOK, RecoverSteps,
        StartSteps
<1>15. CASE ApplyNothing
    BY <1>15, NoPidAssumption
    DEF ApplyNothing, Step, Goto, Undecided, recordVars, supVars, trackVars,
        nodeVars, ControlInv, Switching, DisablePending, ServesInv,
        Supervised, StoppedSteps, Window, Alive, TypeOK, RecoverSteps,
        StartSteps
<1>16. CASE ApplyPrepare
    BY <1>16, NoPidAssumption
    DEF ApplyPrepare, Step, Goto, MayFail, Undecided, recordVars, supVars,
        trackVars, ControlInv, Switching, DisablePending, ServesInv,
        Supervised, StoppedSteps, Window, Alive, TypeOK, RecoverSteps,
        StartSteps
<1>17. CASE Switch
    BY <1>17, NoPidAssumption
    DEF Switch, Step, Goto, MayFail, WriteFails, SetPhase, recordVars,
        supVars, trackVars, nodeVars, ControlInv, Switching, Undecided,
        DisablePending, ServesInv, Supervised, StoppedSteps, Window, Alive,
        TypeOK, RecoverSteps, StartSteps
<1>18. CASE StopOld
    BY <1>18, NoPidAssumption
    DEF StopOld, Step, Goto, MayFail, StopChild, recordVars, trackVars,
        nodeVars, ControlInv, Switching, Undecided, DisablePending, ServesInv,
        Supervised, StoppedSteps, Window, Alive, TypeOK, RecoverSteps,
        StartSteps
<1>19. CASE ClearOld
    BY <1>19, NoPidAssumption
    DEF ClearOld, Step, Goto, MayFail, recordVars, supVars, trackVars,
        ControlInv, Switching, Undecided, DisablePending, ServesInv,
        Supervised, StoppedSteps, Window, Alive, TypeOK, RecoverSteps,
        StartSteps
<1>20. CASE Commit
    BY <1>20, NoPidAssumption
    DEF Commit, Step, Goto, RecoverReturns, MayFail, WriteFails,
        MarkRunningApplied, recordVars, supVars, trackVars, ControlInv,
        Switching, Undecided, DisablePending, ServesInv, Supervised,
        StoppedSteps, Window, Alive, TypeOK, RecoverSteps, StartSteps
<1>21. CASE Disable
    BY <1>21, NoPidAssumption
    DEF Disable, Step, Goto, MayFail, WriteFails, MarkDisabling, recordVars,
        supVars, trackVars, nodeVars, ControlInv, Switching, Undecided,
        DisablePending, ServesInv, Supervised, StoppedSteps, Window, Alive,
        TypeOK, RecoverSteps, StartSteps
<1>22. CASE DisableStop
    BY <1>22, NoPidAssumption
    DEF DisableStop, Step, Goto, MayFail, StopChild, recordVars, trackVars,
        nodeVars, ControlInv, Switching, Undecided, DisablePending, ServesInv,
        Supervised, StoppedSteps, Window, Alive, TypeOK, RecoverSteps,
        StartSteps
<1>23. CASE DisableClear
    BY <1>23, NoPidAssumption
    DEF DisableClear, Step, Goto, MayFail, recordVars, supVars, trackVars,
        ControlInv, Switching, Undecided, DisablePending, ServesInv,
        Supervised, StoppedSteps, Window, Alive, TypeOK, RecoverSteps,
        StartSteps
<1>24. CASE DisableFiles
    BY <1>24, NoPidAssumption
    DEF DisableFiles, Step, Goto, MayFail, recordVars, supVars, trackVars,
        nodeVars, ControlInv, Switching, Undecided, DisablePending, ServesInv,
        Supervised, StoppedSteps, Window, Alive, TypeOK, RecoverSteps,
        StartSteps
<1>25. CASE DisableCommit
    BY <1>25, NoPidAssumption
    DEF DisableCommit, Step, Goto, RecoverReturns, MayFail, WriteFails,
        MarkDisabled, recordVars, supVars, trackVars, ControlInv, Switching,
        Undecided, DisablePending, ServesInv, Supervised, StoppedSteps,
        Window, Alive, TypeOK, RecoverSteps, StartSteps
<1>26. CASE Rollback
    BY <1>26, NoPidAssumption
    DEF Rollback, Step, Goto, MayFail, StopChild, recordVars, trackVars,
        nodeVars, ControlInv, Switching, Undecided, DisablePending, ServesInv,
        Supervised, StoppedSteps, Window, Alive, TypeOK, RecoverSteps,
        StartSteps
<1>27. CASE RollbackClear
    BY <1>27, NoPidAssumption
    DEF RollbackClear, Step, Goto, MayFail, Restores, recordVars, supVars,
        trackVars, ControlInv, Switching, Undecided, DisablePending,
        ServesInv, Supervised, StoppedSteps, Window, Alive, TypeOK,
        RecoverSteps, StartSteps
<1>28. CASE Fail
    BY <1>28, NoPidAssumption
    DEF Fail, Step, Goto, MayFail, WriteFails, SetPhase, recordVars, supVars,
        trackVars, nodeVars, ControlInv, Switching, Undecided, DisablePending,
        ServesInv, Supervised, StoppedSteps, Window, Alive, TypeOK,
        RecoverSteps, StartSteps
<1>29. ASSUME NEW p \in Pids, FrpsExits(p) PROVE ServesInv'
    BY <1>29, NoPidAssumption
    DEF FrpsExits, Alive, recordVars, supVars, trackVars, nodeVars,
        ControlInv, Switching, Undecided, DisablePending, ServesInv,
        Supervised, StoppedSteps, Window, TypeOK, RecoverSteps, StartSteps
<1>30. CASE WatchExit
    BY <1>30, NoPidAssumption
    DEF WatchExit, Alive, SupervisorFree, recordVars, trackVars, nodeVars,
        ControlInv, Switching, Undecided, DisablePending, ServesInv,
        Supervised, StoppedSteps, Window, TypeOK, RecoverSteps, StartSteps
<1>31. CASE Respawn
    BY <1>31, NoPidAssumption
    DEF Respawn, Spawn, Fresh, Alive, SupervisorFree, recordVars, nodeVars,
        ControlInv, Switching, Undecided, DisablePending, ServesInv,
        Supervised, StoppedSteps, Window, TypeOK, RecoverSteps, StartSteps
<1>32. ASSUME NEW p \in Pids, TrackBegin(p) PROVE ServesInv'
    BY <1>32, NoPidAssumption
    DEF TrackBegin, RuntimeFree, recordVars, supVars, nodeVars, ControlInv,
        Switching, Undecided, DisablePending, ServesInv, Supervised,
        StoppedSteps, Window, Alive, TypeOK, RecoverSteps, StartSteps
<1>33. CASE TrackEnd
    BY <1>33, NoPidAssumption
    DEF TrackEnd, MayFail, Alive, RememberOwner, recordVars, supVars,
        ControlInv, Switching, Undecided, DisablePending, ServesInv,
        Supervised, StoppedSteps, Window, TypeOK, RecoverSteps, StartSteps
<1>34. CASE Crash
    BY <1>34, NoPidAssumption
    DEF Crash, Goto, recordVars, ControlInv, Switching, Undecided,
        DisablePending, ServesInv, Supervised, StoppedSteps, Window, Alive,
        TypeOK, RecoverSteps, StartSteps
<1>35. CASE UNCHANGED vars
    BY <1>35, NoPidAssumption
    DEF vars, recordVars, supVars, trackVars, nodeVars, ServesInv, Supervised,
        Alive
<1>36. QED
    BY <1>1, <1>2, <1>3, <1>4, <1>5, <1>6, <1>7, <1>8, <1>9, <1>10, <1>11,
       <1>12, <1>13, <1>14, <1>15, <1>16, <1>17, <1>18, <1>19, <1>20, <1>21,
       <1>22, <1>23, <1>24, <1>25, <1>26, <1>27, <1>28, <1>29, <1>30, <1>31,
       <1>32, <1>33, <1>34, <1>35
    DEF Next, LocalNext, NodeSteps, Recover, StartFrps, ApplyAccepted,
        ApplyDisabled, Undo, Supervise, Track

\* An FRPS is started only where none is alive.
LEMMA OnlyChildStep ==
    ASSUME TypeOK, ServesInv, OnlyChild, [Next]_vars
    PROVE  OnlyChild'
<1>1. CASE Boot
    BY <1>1, NoPidAssumption
    DEF Boot, Goto, recordVars, supVars, trackVars, nodeVars, OnlyChild,
        ServesInv, Supervised, StoppedSteps, Alive, TypeOK, RecoverSteps
<1>2. CASE RecoverNothing
    BY <1>2, NoPidAssumption
    DEF RecoverNothing, Step, Goto, RecoverReturns, MayFail, recordVars,
        supVars, trackVars, OnlyChild, ServesInv, Supervised, StoppedSteps,
        Alive, TypeOK, RecoverSteps
<1>3. CASE RecoverOwner
    BY <1>3, NoPidAssumption
    DEF RecoverOwner, Step, Goto, RecoverReturns, MayFail, Alive,
        TerminateOwner, recordVars, supVars, trackVars, OnlyChild, ServesInv,
        Supervised, StoppedSteps, TypeOK, RecoverSteps
<1>4. CASE RecoverClear
    BY <1>4, NoPidAssumption
    DEF RecoverClear, Step, Goto, RecoverReturns, MayFail, recordVars,
        supVars, trackVars, OnlyChild, ServesInv, Supervised, StoppedSteps,
        Alive, TypeOK, RecoverSteps
<1>5. CASE RecoverDisabledRecord
    BY <1>5, NoPidAssumption
    DEF RecoverDisabledRecord, Step, Goto, RecoverReturns, MayFail,
        WriteFails, SetPhase, recordVars, supVars, trackVars, OnlyChild,
        ServesInv, Supervised, StoppedSteps, Alive, TypeOK, RecoverSteps
<1>6. CASE RecoverFiles
    BY <1>6, NoPidAssumption
    DEF RecoverFiles, Step, Goto, RecoverReturns, MayFail, recordVars,
        supVars, trackVars, OnlyChild, ServesInv, Supervised, StoppedSteps,
        Alive, TypeOK, RecoverSteps
<1>7. CASE RecoverDisabled
    BY <1>7, NoPidAssumption
    DEF RecoverDisabled, Step, Goto, RecoverReturns, MayFail, WriteFails,
        MarkDisabled, recordVars, supVars, trackVars, OnlyChild, ServesInv,
        Supervised, StoppedSteps, Alive, TypeOK, RecoverSteps
<1>8. CASE RecoverRunningRecord
    BY <1>8, NoPidAssumption
    DEF RecoverRunningRecord, Step, Goto, RecoverReturns, MayFail, WriteFails,
        HalfDone, SetPhase, recordVars, supVars, trackVars, OnlyChild,
        ServesInv, Supervised, StoppedSteps, Alive, TypeOK, RecoverSteps
<1>9. CASE RecoverPrepare
    BY <1>9, NoPidAssumption
    DEF RecoverPrepare, Step, Goto, RecoverReturns, MayFail, recordVars,
        supVars, trackVars, OnlyChild, ServesInv, Supervised, StoppedSteps,
        Alive, TypeOK, RecoverSteps
<1>10. CASE Start
    BY <1>10, NoPidAssumption
    DEF Start, Step, Goto, RecoverReturns, MayFail, Spawn, Fresh, Alive,
        StartFails, StartPath, recordVars, OnlyChild, ServesInv, Supervised,
        StoppedSteps, TypeOK, RecoverSteps
<1>11. CASE Confirm
    BY <1>11, NoPidAssumption
    DEF Confirm, Step, Goto, RecoverReturns, Alive, StartFails, recordVars,
        trackVars, OnlyChild, ServesInv, Supervised, StoppedSteps, TypeOK,
        RecoverSteps
<1>12. CASE Remember
    BY <1>12, NoPidAssumption
    DEF Remember, Step, Goto, RecoverReturns, MayFail, StopChild, Alive,
        RememberOwner, RememberOwnerFails, StartFails, recordVars, trackVars,
        OnlyChild, ServesInv, Supervised, StoppedSteps, TypeOK, RecoverSteps
<1>13. CASE Claim
    BY <1>13, NoPidAssumption
    DEF Claim, recordVars, supVars, trackVars, nodeVars, OnlyChild, ServesInv,
        Supervised, StoppedSteps, Alive, TypeOK, RecoverSteps
<1>14. ASSUME NEW s \in Offers, Receive(s) PROVE OnlyChild'
    BY <1>14, NoPidAssumption
    DEF Receive, Goto, Accept, recordVars, supVars, trackVars, nodeVars,
        OnlyChild, ServesInv, Supervised, StoppedSteps, Alive, TypeOK,
        RecoverSteps
<1>15. CASE ApplyNothing
    BY <1>15, NoPidAssumption
    DEF ApplyNothing, Step, Goto, Undecided, recordVars, supVars, trackVars,
        nodeVars, OnlyChild, ServesInv, Supervised, StoppedSteps, Alive,
        TypeOK, RecoverSteps
<1>16. CASE ApplyPrepare
    BY <1>16, NoPidAssumption
    DEF ApplyPrepare, Step, Goto, MayFail, Undecided, recordVars, supVars,
        trackVars, OnlyChild, ServesInv, Supervised, StoppedSteps, Alive,
        TypeOK, RecoverSteps
<1>17. CASE Switch
    BY <1>17, NoPidAssumption
    DEF Switch, Step, Goto, MayFail, WriteFails, SetPhase, recordVars,
        supVars, trackVars, nodeVars, OnlyChild, ServesInv, Supervised,
        StoppedSteps, Alive, TypeOK, RecoverSteps
<1>18. CASE StopOld
    BY <1>18, NoPidAssumption
    DEF StopOld, Step, Goto, MayFail, StopChild, recordVars, trackVars,
        nodeVars, OnlyChild, ServesInv, Supervised, StoppedSteps, Alive,
        TypeOK, RecoverSteps
<1>19. CASE ClearOld
    BY <1>19, NoPidAssumption
    DEF ClearOld, Step, Goto, MayFail, recordVars, supVars, trackVars,
        OnlyChild, ServesInv, Supervised, StoppedSteps, Alive, TypeOK,
        RecoverSteps
<1>20. CASE Commit
    BY <1>20, NoPidAssumption
    DEF Commit, Step, Goto, RecoverReturns, MayFail, WriteFails,
        MarkRunningApplied, recordVars, supVars, trackVars, OnlyChild,
        ServesInv, Supervised, StoppedSteps, Alive, TypeOK, RecoverSteps
<1>21. CASE Disable
    BY <1>21, NoPidAssumption
    DEF Disable, Step, Goto, MayFail, WriteFails, MarkDisabling, recordVars,
        supVars, trackVars, nodeVars, OnlyChild, ServesInv, Supervised,
        StoppedSteps, Alive, TypeOK, RecoverSteps
<1>22. CASE DisableStop
    BY <1>22, NoPidAssumption
    DEF DisableStop, Step, Goto, MayFail, StopChild, recordVars, trackVars,
        nodeVars, OnlyChild, ServesInv, Supervised, StoppedSteps, Alive,
        TypeOK, RecoverSteps
<1>23. CASE DisableClear
    BY <1>23, NoPidAssumption
    DEF DisableClear, Step, Goto, MayFail, recordVars, supVars, trackVars,
        OnlyChild, ServesInv, Supervised, StoppedSteps, Alive, TypeOK,
        RecoverSteps
<1>24. CASE DisableFiles
    BY <1>24, NoPidAssumption
    DEF DisableFiles, Step, Goto, MayFail, recordVars, supVars, trackVars,
        nodeVars, OnlyChild, ServesInv, Supervised, StoppedSteps, Alive,
        TypeOK, RecoverSteps
<1>25. CASE DisableCommit
    BY <1>25, NoPidAssumption
    DEF DisableCommit, Step, Goto, RecoverReturns, MayFail, WriteFails,
        MarkDisabled, recordVars, supVars, trackVars, OnlyChild, ServesInv,
        Supervised, StoppedSteps, Alive, TypeOK, RecoverSteps
<1>26. CASE Rollback
    BY <1>26, NoPidAssumption
    DEF Rollback, Step, Goto, MayFail, StopChild, recordVars, trackVars,
        nodeVars, OnlyChild, ServesInv, Supervised, StoppedSteps, Alive,
        TypeOK, RecoverSteps
<1>27. CASE RollbackClear
    BY <1>27, NoPidAssumption
    DEF RollbackClear, Step, Goto, MayFail, Restores, recordVars, supVars,
        trackVars, OnlyChild, ServesInv, Supervised, StoppedSteps, Alive,
        TypeOK, RecoverSteps
<1>28. CASE Fail
    BY <1>28, NoPidAssumption
    DEF Fail, Step, Goto, MayFail, WriteFails, SetPhase, recordVars, supVars,
        trackVars, nodeVars, OnlyChild, ServesInv, Supervised, StoppedSteps,
        Alive, TypeOK, RecoverSteps
<1>29. ASSUME NEW p \in Pids, FrpsExits(p) PROVE OnlyChild'
    BY <1>29, NoPidAssumption
    DEF FrpsExits, Alive, recordVars, supVars, trackVars, nodeVars, OnlyChild,
        ServesInv, Supervised, StoppedSteps, TypeOK, RecoverSteps
<1>30. CASE WatchExit
    BY <1>30, NoPidAssumption
    DEF WatchExit, Alive, SupervisorFree, recordVars, trackVars, nodeVars,
        OnlyChild, ServesInv, Supervised, StoppedSteps, TypeOK, RecoverSteps
<1>31. CASE Respawn
    BY <1>31, NoPidAssumption
    DEF Respawn, Spawn, Fresh, Alive, SupervisorFree, recordVars, nodeVars,
        OnlyChild, ServesInv, Supervised, StoppedSteps, TypeOK, RecoverSteps
<1>32. ASSUME NEW p \in Pids, TrackBegin(p) PROVE OnlyChild'
    BY <1>32, NoPidAssumption
    DEF TrackBegin, RuntimeFree, recordVars, supVars, nodeVars, OnlyChild,
        ServesInv, Supervised, StoppedSteps, Alive, TypeOK, RecoverSteps
<1>33. CASE TrackEnd
    BY <1>33, NoPidAssumption
    DEF TrackEnd, MayFail, Alive, RememberOwner, recordVars, supVars,
        OnlyChild, ServesInv, Supervised, StoppedSteps, TypeOK, RecoverSteps
<1>34. CASE Crash
    BY <1>34, NoPidAssumption
    DEF Crash, Goto, recordVars, OnlyChild, ServesInv, Supervised,
        StoppedSteps, Alive, TypeOK, RecoverSteps
<1>35. CASE UNCHANGED vars
    BY <1>35, NoPidAssumption
    DEF vars, recordVars, supVars, trackVars, nodeVars, OnlyChild, Alive
<1>36. QED
    BY <1>1, <1>2, <1>3, <1>4, <1>5, <1>6, <1>7, <1>8, <1>9, <1>10, <1>11,
       <1>12, <1>13, <1>14, <1>15, <1>16, <1>17, <1>18, <1>19, <1>20, <1>21,
       <1>22, <1>23, <1>24, <1>25, <1>26, <1>27, <1>28, <1>29, <1>30, <1>31,
       <1>32, <1>33, <1>34, <1>35
    DEF Next, LocalNext, NodeSteps, Recover, StartFrps, ApplyAccepted,
        ApplyDisabled, Undo, Supervise, Track

-----------------------------------------------------------------------------
(* The results *)

IInv == RecordInv /\ TypeOK /\ ControlInv /\ ServesInv /\ OnlyChild

LEMMA InitInv == Init => IInv
<1> SUFFICES ASSUME Init PROVE IInv
    OBVIOUS
<1>1. RecordInv
    BY RecordInitInv DEF Init
<1>2. FlagsOK
    BY DEF Init, FlagsOK
<1>3. ValuesOK
    BY <1>1, MaxCrashesAssumption DEF Init, ValuesOK, RecordInv, Steps
<1>4. ControlInv
    BY DEF Init, ControlInv, Switching, StartSteps, DisableSteps
<1>5. ServesInv /\ OnlyChild
    BY DEF Init, RecordInit, ServesInv, Supervised, OnlyChild, Alive, StartSteps
<1>6. QED
    BY <1>1, <1>2, <1>3, <1>4, <1>5 DEF IInv, TypeOK, FlagsOK, ValuesOK

LEMMA StepInv == IInv /\ [Next]_vars => IInv'
<1> SUFFICES ASSUME IInv, [Next]_vars PROVE IInv'
    OBVIOUS
<1>1. RecordInv'
    BY RowStep, RecordStepInv DEF IInv
<1>2. TypeOK'
    <2>1. FlagsOK'
        BY FlagsStep DEF IInv
    <2>2. ValuesOK'
        BY <1>1, ValuesStep DEF IInv, RecordInv
    <2>3. QED
        BY <2>1, <2>2 DEF TypeOK, FlagsOK, ValuesOK
<1>3. ControlInv'
    BY <1>1, ControlStep DEF IInv
<1>4. ServesInv'
    BY ServesStep DEF IInv
<1>5. OnlyChild'
    BY OnlyChildStep DEF IInv
<1>6. QED
    BY <1>1, <1>2, <1>3, <1>4, <1>5 DEF IInv

LEMMA Invariance == Spec => []IInv
BY InitInv, StepInv, PTL DEF Spec

(***************************************************************************)
(* Every variable of the Node keeps its type, whatever the snapshots, the  *)
(* failures and the number of crashes.                                     *)
(***************************************************************************)
THEOREM TypeCorrect == Spec => []TypeOK
<1>1. IInv => TypeOK
    BY DEF IInv
<1>2. QED
    BY <1>1, Invariance, PTL

(***************************************************************************)
(* node_runtime.go writes runtime_state only as the record protocol says:  *)
(* each step between two writes is a stutter, each write one of its steps. *)
(***************************************************************************)
THEOREM ImplementsRecord == Spec => RecordSpec
<1>1. Init => RecordInit
    BY DEF Init
<1>2. IInv /\ [Next]_vars => [RecordNext]_recordVars
    BY RowStep DEF IInv
<1>3. QED
    BY <1>1, <1>2, Invariance, PTL DEF Spec, RecordSpec

(***************************************************************************)
(* So the row a Node leaves, at whatever step it dies, passes the checks   *)
(* of loadNodeV1Identity.                                                  *)
(***************************************************************************)
THEOREM NodeReopens == Spec => []Reopenable
BY ImplementsRecord, RecordSafe, PTL

\* The phase a Controller reads is true at every step of the Node, also there.
THEOREM NodePhaseMeans == Spec => []PhaseMeaning
BY ImplementsRecord, RecordSafe, PTL

\* Neither a revision nor the document accepted under it is ever taken back.
THEOREM NodeRevisionsAdvance == Spec => RevisionsAdvance
BY ImplementsRecord, RecordAdvances, PTL

(***************************************************************************)
(* FRPS serves the last good snapshot, or the candidate inside its switch. *)
(***************************************************************************)
THEOREM NodeServesLastGood == Spec => []ServesLastGood
<1>1. IInv => ServesLastGood
    <2> SUFFICES ASSUME IInv, Alive(child) PROVE
            \/ proc[child] = lastGood
            \/ /\ proc[child] = candidate
               /\ phase = "switching"
               /\ pc \in {"confirm", "remember", "commit", "rollback"}
        BY DEF ServesLastGood
    <2>1. proc[child] = config
        BY DEF IInv, ServesInv
    <2>2. Supervised
        BY DEF Alive, Supervised
    <2>3. QED
        BY <2>1, <2>2 DEF IInv, ServesInv, Window
<1>2. QED
    BY <1>1, Invariance, PTL

(***************************************************************************)
(* A Node that has been disabled has no FRPS and gets none by itself.      *)
(***************************************************************************)
THEOREM NodeDisabledStaysDown == Spec => []DisabledStaysDown
<1>1. IInv => DisabledStaysDown
    <2> SUFFICES ASSUME IInv, bootDisabled, Supervised PROVE
            \/ pc = "disableStop"
            \/ /\ phase = "switching"
               /\ pc \in {"confirm", "remember", "commit", "rollback"}
        BY DEF DisabledStaysDown, Supervised
    <2>1. pc = "disableStop" \/ pc \in Window
        BY DEF IInv, ServesInv
    <2>2. pc \in Window => phase = "switching"
        BY DEF IInv, ServesInv, ControlInv, Switching, Window, StartSteps
    <2>3. QED
        BY <2>1, <2>2 DEF Window
<1>2. QED
    BY <1>1, Invariance, PTL

(***************************************************************************)
(* Where every process that is told to stop does stop, a Node that has not *)
(* died never runs two FRPS.                                               *)
(***************************************************************************)
THEOREM NodeSingleFrps ==
    ASSUME "stop" \notin Faults
    PROVE  Spec => []SingleFrps
<1>1. IInv => SingleFrps
    BY DEF IInv, OnlyChild, SingleFrps
<1>2. QED
    BY <1>1, Invariance, PTL

-----------------------------------------------------------------------------
(***************************************************************************)
(* What the Node promises where a process that is told to stop does stop   *)
(* and the state directory can be read and written: it keeps track of      *)
(* every FRPS it has recorded, and a completed disable leaves nothing      *)
(* behind.  Neither holds without the two assumptions                      *)
(* (ReportedStoppedIsStopped is refuted where "files" may fail).           *)
(*   - A recorded FRPS that is alive is the supervised one, but for the    *)
(*     one an earlier run of the Node left, until recover has looked at it *)
(*     (OwnerInv);                                                         *)
(*   - so it is dead where disablement is recorded (CleanInv).             *)
(***************************************************************************)

\* recover has not looked at the recorded FRPS, or could not tell what it is.
Unseen == ~prepared /\ (ownerUnknown \/ pc \in {"down", "recover"})

OwnerInv ==
    /\ Alive(owner) => owner = child \/ Unseen
    /\ ownerUnknown => pc \in {"idle", "apply"}
    /\ tracking # NoPid => pc \in {"idle", "apply"}
    /\ ~bound => /\ owner = NoPid /\ ~prepared
                 /\ pc \in {"down", "recover", "idle"}

CleanInv ==
    /\ pc \in {"disableCommit", "recoverDisabled"} => files = {}
    /\ disabledComplete => files = {} /\ ~Alive(owner)

-----------------------------------------------------------------------------

LEMMA OwnerStep ==
    ASSUME TypeOK, ServesInv, OwnerInv, "stop" \notin Faults, "files" \notin Faults,
           [Next]_vars
    PROVE  OwnerInv'
<1> USE NoPidAssumption
    DEF OwnerInv, Unseen, Alive, ServesInv, Supervised, StoppedSteps,
        RecoverSteps, TypeOK, MayFail
<1>1. CASE Boot
    BY <1>1
    DEF Boot, Goto, recordVars, supVars, trackVars, nodeVars
<1>2. CASE RecoverNothing
    BY <1>2
    DEF RecoverNothing, Step, Goto, RecoverReturns, recordVars, supVars,
        trackVars
<1>3. CASE RecoverOwner
    BY <1>3
    DEF RecoverOwner, Step, Goto, RecoverReturns, TerminateOwner, recordVars,
        supVars, trackVars
<1>4. CASE RecoverClear
    BY <1>4
    DEF RecoverClear, Step, Goto, RecoverReturns, recordVars, supVars,
        trackVars
<1>5. CASE RecoverDisabledRecord
    BY <1>5
    DEF RecoverDisabledRecord, Step, Goto, RecoverReturns, WriteFails,
        SetPhase, recordVars, supVars, trackVars
<1>6. CASE RecoverFiles
    BY <1>6
    DEF RecoverFiles, Step, Goto, RecoverReturns, recordVars, supVars,
        trackVars
<1>7. CASE RecoverDisabled
    BY <1>7
    DEF RecoverDisabled, Step, Goto, RecoverReturns, WriteFails, MarkDisabled,
        recordVars, supVars, trackVars
<1>8. CASE RecoverRunningRecord
    BY <1>8
    DEF RecoverRunningRecord, Step, Goto, RecoverReturns, WriteFails, HalfDone,
        SetPhase, recordVars, supVars, trackVars
<1>9. CASE RecoverPrepare
    BY <1>9
    DEF RecoverPrepare, Step, Goto, RecoverReturns, recordVars, supVars,
        trackVars
<1>10. CASE Start
    BY <1>10
    DEF Start, Step, Goto, RecoverReturns, Spawn, Fresh, StartFails, StartPath,
        recordVars
<1>11. CASE Confirm
    BY <1>11
    DEF Confirm, Step, Goto, RecoverReturns, StartFails, recordVars, trackVars
<1>12. CASE Remember
    BY <1>12
    DEF Remember, Step, Goto, RecoverReturns, StopChild, RememberOwner,
        RememberOwnerFails, StartFails, recordVars, trackVars
<1>13. CASE Claim
    BY <1>13
    DEF Claim, recordVars, supVars, trackVars, nodeVars
<1>14. ASSUME NEW s \in Offers, Receive(s) PROVE OwnerInv'
    BY <1>14
    DEF Receive, Goto, Accept, recordVars, supVars, trackVars, nodeVars
<1>15. CASE ApplyNothing
    BY <1>15
    DEF ApplyNothing, Step, Goto, Undecided, recordVars, supVars, trackVars,
        nodeVars
<1>16. CASE ApplyPrepare
    BY <1>16
    DEF ApplyPrepare, Step, Goto, Undecided, recordVars, supVars, trackVars
<1>17. CASE Switch
    BY <1>17
    DEF Switch, Step, Goto, WriteFails, SetPhase, recordVars, supVars,
        trackVars, nodeVars
<1>18. CASE StopOld
    BY <1>18
    DEF StopOld, Step, Goto, StopChild, recordVars, trackVars, nodeVars
<1>19. CASE ClearOld
    BY <1>19
    DEF ClearOld, Step, Goto, recordVars, supVars, trackVars
<1>20. CASE Commit
    BY <1>20
    DEF Commit, Step, Goto, RecoverReturns, WriteFails, MarkRunningApplied,
        recordVars, supVars, trackVars
<1>21. CASE Disable
    BY <1>21
    DEF Disable, Step, Goto, WriteFails, MarkDisabling, recordVars, supVars,
        trackVars, nodeVars
<1>22. CASE DisableStop
    BY <1>22
    DEF DisableStop, Step, Goto, StopChild, recordVars, trackVars, nodeVars
<1>23. CASE DisableClear
    BY <1>23
    DEF DisableClear, Step, Goto, recordVars, supVars, trackVars
<1>24. CASE DisableFiles
    BY <1>24
    DEF DisableFiles, Step, Goto, recordVars, supVars, trackVars, nodeVars
<1>25. CASE DisableCommit
    BY <1>25
    DEF DisableCommit, Step, Goto, RecoverReturns, WriteFails, MarkDisabled,
        recordVars, supVars, trackVars
<1>26. CASE Rollback
    BY <1>26
    DEF Rollback, Step, Goto, StopChild, recordVars, trackVars, nodeVars
<1>27. CASE RollbackClear
    BY <1>27
    DEF RollbackClear, Step, Goto, Restores, recordVars, supVars, trackVars
<1>28. CASE Fail
    BY <1>28
    DEF Fail, Step, Goto, WriteFails, SetPhase, recordVars, supVars, trackVars,
        nodeVars
<1>29. ASSUME NEW p \in Pids, FrpsExits(p) PROVE OwnerInv'
    BY <1>29
    DEF FrpsExits, recordVars, supVars, trackVars, nodeVars
<1>30. CASE WatchExit
    BY <1>30
    DEF WatchExit, SupervisorFree, recordVars, trackVars, nodeVars
<1>31. CASE Respawn
    BY <1>31
    DEF Respawn, Spawn, Fresh, SupervisorFree, recordVars, nodeVars
<1>32. ASSUME NEW p \in Pids, TrackBegin(p) PROVE OwnerInv'
    BY <1>32
    DEF TrackBegin, RuntimeFree, recordVars, supVars, nodeVars
<1>33. CASE TrackEnd
    BY <1>33
    DEF TrackEnd, RememberOwner, recordVars, supVars
<1>34. CASE Crash
    BY <1>34
    DEF Crash, Goto, recordVars
<1>35. CASE UNCHANGED vars
    BY <1>35
    DEF vars, recordVars, supVars, trackVars, nodeVars
<1>36. QED
    BY <1>1, <1>2, <1>3, <1>4, <1>5, <1>6, <1>7, <1>8, <1>9, <1>10, <1>11,
       <1>12, <1>13, <1>14, <1>15, <1>16, <1>17, <1>18, <1>19, <1>20, <1>21,
       <1>22, <1>23, <1>24, <1>25, <1>26, <1>27, <1>28, <1>29, <1>30, <1>31,
       <1>32, <1>33, <1>34, <1>35
    DEF Next, LocalNext, NodeSteps, Recover, StartFrps, ApplyAccepted,
        ApplyDisabled, Undo, Supervise, Track

\* Where disablement is recorded, nothing is supervised and nothing is undecided.
LEMMA CompleteFacts ==
    ASSUME IInv, disabledComplete
    PROVE  /\ child = NoPid /\ ~retry
           /\ bootDisabled /\ phase = "disabled" /\ lastGood = NoSnapshot
<1>1. bootDisabled /\ phase = "disabled" /\ lastGood = NoSnapshot
    BY DEF IInv, RecordInv, Reopenable, PhaseMeaning
<1>2. ~(pc = "disableStop" \/ pc \in Window)
    BY <1>1 DEF IInv, ControlInv, ServesInv, Switching, Window, StartSteps,
                DisableSteps
<1>3. QED
    BY <1>1, <1>2 DEF IInv, ServesInv, Supervised

LEMMA CleanStep ==
    ASSUME IInv, OwnerInv, CleanInv, "files" \notin Faults, [Next]_vars
    PROVE  CleanInv'
<1>1. /\ proc \in [Pids -> Offers \cup {NoSnapshot}]
      /\ owner \in Pids \cup {NoPid}
    BY DEF IInv, TypeOK
<1>2. disabledComplete => /\ child = NoPid /\ ~retry
                          /\ bootDisabled /\ phase = "disabled"
                          /\ lastGood = NoSnapshot
    BY CompleteFacts
<1>3. /\ pc \in {"disableCommit", "recoverDisabled"} => ~Alive(owner)
      /\ pc = "rollbackClear" => phase = "switching"
      /\ pc = "recoverPrepare" => lastGood # NoSnapshot
      /\ pc = "start" => ~bootDisabled \/ phase = "switching"
    BY DEF IInv, OwnerInv, Unseen, Alive, ServesInv, ControlInv, Switching,
           StoppedSteps, Supervised, StartSteps, RecoverSteps
<1> USE NoPidAssumption DEF CleanInv, Alive, MayFail
<1>4. CASE Boot
    BY <1>4, <1>1, <1>2, <1>3
    DEF Boot, Goto, recordVars, supVars, trackVars, nodeVars
<1>5. CASE RecoverNothing
    BY <1>5, <1>1, <1>2, <1>3
    DEF RecoverNothing, Step, Goto, RecoverReturns, recordVars, supVars,
        trackVars
<1>6. CASE RecoverOwner
    BY <1>6, <1>1, <1>2, <1>3
    DEF RecoverOwner, Step, Goto, RecoverReturns, TerminateOwner, recordVars,
        supVars, trackVars
<1>7. CASE RecoverClear
    BY <1>7, <1>1, <1>2, <1>3
    DEF RecoverClear, Step, Goto, RecoverReturns, recordVars, supVars,
        trackVars
<1>8. CASE RecoverDisabledRecord
    BY <1>8, <1>1, <1>2, <1>3
    DEF RecoverDisabledRecord, Step, Goto, RecoverReturns, WriteFails,
        SetPhase, recordVars, supVars, trackVars
<1>9. CASE RecoverFiles
    BY <1>9, <1>1, <1>2, <1>3
    DEF RecoverFiles, Step, Goto, RecoverReturns, recordVars, supVars,
        trackVars
<1>10. CASE RecoverDisabled
    BY <1>10, <1>1, <1>2, <1>3
    DEF RecoverDisabled, Step, Goto, RecoverReturns, WriteFails, MarkDisabled,
        recordVars, supVars, trackVars
<1>11. CASE RecoverRunningRecord
    BY <1>11, <1>1, <1>2, <1>3
    DEF RecoverRunningRecord, Step, Goto, RecoverReturns, WriteFails, HalfDone,
        SetPhase, recordVars, supVars, trackVars
<1>12. CASE RecoverPrepare
    BY <1>12, <1>1, <1>2, <1>3
    DEF RecoverPrepare, Step, Goto, RecoverReturns, recordVars, supVars,
        trackVars
<1>13. CASE Start
    BY <1>13, <1>1, <1>2, <1>3
    DEF Start, Step, Goto, RecoverReturns, Spawn, Fresh, StartFails, StartPath,
        recordVars
<1>14. CASE Confirm
    BY <1>14, <1>1, <1>2, <1>3
    DEF Confirm, Step, Goto, RecoverReturns, StartFails, recordVars, trackVars
<1>15. CASE Remember
    BY <1>15, <1>1, <1>2, <1>3
    DEF Remember, Step, Goto, RecoverReturns, StopChild, RememberOwner,
        RememberOwnerFails, StartFails, recordVars, trackVars
<1>16. CASE Claim
    BY <1>16, <1>1, <1>2, <1>3
    DEF Claim, recordVars, supVars, trackVars, nodeVars
<1>17. ASSUME NEW s \in Offers, Receive(s) PROVE CleanInv'
    BY <1>17, <1>1, <1>2, <1>3
    DEF Receive, Goto, Accept, recordVars, supVars, trackVars, nodeVars
<1>18. CASE ApplyNothing
    BY <1>18, <1>1, <1>2, <1>3
    DEF ApplyNothing, Step, Goto, Undecided, recordVars, supVars, trackVars,
        nodeVars
<1>19. CASE ApplyPrepare
    BY <1>19, <1>1, <1>2, <1>3
    DEF ApplyPrepare, Step, Goto, Undecided, recordVars, supVars, trackVars
<1>20. CASE Switch
    BY <1>20, <1>1, <1>2, <1>3
    DEF Switch, Step, Goto, WriteFails, SetPhase, recordVars, supVars,
        trackVars, nodeVars
<1>21. CASE StopOld
    BY <1>21, <1>1, <1>2, <1>3
    DEF StopOld, Step, Goto, StopChild, recordVars, trackVars, nodeVars
<1>22. CASE ClearOld
    BY <1>22, <1>1, <1>2, <1>3
    DEF ClearOld, Step, Goto, recordVars, supVars, trackVars
<1>23. CASE Commit
    BY <1>23, <1>1, <1>2, <1>3
    DEF Commit, Step, Goto, RecoverReturns, WriteFails, MarkRunningApplied,
        recordVars, supVars, trackVars
<1>24. CASE Disable
    BY <1>24, <1>1, <1>2, <1>3
    DEF Disable, Step, Goto, WriteFails, MarkDisabling, recordVars, supVars,
        trackVars, nodeVars
<1>25. CASE DisableStop
    BY <1>25, <1>1, <1>2, <1>3
    DEF DisableStop, Step, Goto, StopChild, recordVars, trackVars, nodeVars
<1>26. CASE DisableClear
    BY <1>26, <1>1, <1>2, <1>3
    DEF DisableClear, Step, Goto, recordVars, supVars, trackVars
<1>27. CASE DisableFiles
    BY <1>27, <1>1, <1>2, <1>3
    DEF DisableFiles, Step, Goto, recordVars, supVars, trackVars, nodeVars
<1>28. CASE DisableCommit
    BY <1>28, <1>1, <1>2, <1>3
    DEF DisableCommit, Step, Goto, RecoverReturns, WriteFails, MarkDisabled,
        recordVars, supVars, trackVars
<1>29. CASE Rollback
    BY <1>29, <1>1, <1>2, <1>3
    DEF Rollback, Step, Goto, StopChild, recordVars, trackVars, nodeVars
<1>30. CASE RollbackClear
    BY <1>30, <1>1, <1>2, <1>3
    DEF RollbackClear, Step, Goto, Restores, recordVars, supVars, trackVars
<1>31. CASE Fail
    BY <1>31, <1>1, <1>2, <1>3
    DEF Fail, Step, Goto, WriteFails, SetPhase, recordVars, supVars, trackVars,
        nodeVars
<1>32. ASSUME NEW p \in Pids, FrpsExits(p) PROVE CleanInv'
    BY <1>32, <1>1, <1>2, <1>3
    DEF FrpsExits, recordVars, supVars, trackVars, nodeVars
<1>33. CASE WatchExit
    BY <1>33, <1>1, <1>2, <1>3
    DEF WatchExit, SupervisorFree, recordVars, trackVars, nodeVars
<1>34. CASE Respawn
    BY <1>34, <1>1, <1>2, <1>3
    DEF Respawn, Spawn, Fresh, SupervisorFree, recordVars, nodeVars
<1>35. ASSUME NEW p \in Pids, TrackBegin(p) PROVE CleanInv'
    BY <1>35, <1>1, <1>2, <1>3
    DEF TrackBegin, RuntimeFree, recordVars, supVars, nodeVars
<1>36. CASE TrackEnd
    BY <1>36, <1>1, <1>2, <1>3
    DEF TrackEnd, RememberOwner, recordVars, supVars
<1>37. CASE Crash
    BY <1>37, <1>1, <1>2, <1>3
    DEF Crash, Goto, recordVars
<1>38. CASE UNCHANGED vars
    BY <1>38, <1>1, <1>2, <1>3
    DEF vars, recordVars, supVars, trackVars, nodeVars
<1>39. QED
    BY <1>4, <1>5, <1>6, <1>7, <1>8, <1>9, <1>10, <1>11, <1>12, <1>13, <1>14,
       <1>15, <1>16, <1>17, <1>18, <1>19, <1>20, <1>21, <1>22, <1>23, <1>24,
       <1>25, <1>26, <1>27, <1>28, <1>29, <1>30, <1>31, <1>32, <1>33, <1>34,
       <1>35, <1>36, <1>37, <1>38
    DEF Next, LocalNext, NodeSteps, Recover, StartFrps, ApplyAccepted,
        ApplyDisabled, Undo, Supervise, Track

\* Whatever is dropped is dead, unless the Node dies with it unrecorded.
LEMMA KnownStep ==
    ASSUME TypeOK, ServesInv, OwnerInv, "stop" \notin Faults, "files" \notin Faults,
           [Next]_vars, NEW p \in Pids, Known(p), Alive(p), Alive(p)', ~Known(p)'
    PROVE  pc' = "down" /\ owner # p
<1> USE NoPidAssumption
    DEF OwnerInv, Unseen, Alive, ServesInv, Supervised, StoppedSteps, Known,
        RecoverSteps, TypeOK, MayFail
<1>1. CASE Boot
    BY <1>1
    DEF Boot, Goto, recordVars, supVars, trackVars, nodeVars
<1>2. CASE RecoverNothing
    BY <1>2
    DEF RecoverNothing, Step, Goto, RecoverReturns, recordVars, supVars,
        trackVars
<1>3. CASE RecoverOwner
    BY <1>3
    DEF RecoverOwner, Step, Goto, RecoverReturns, TerminateOwner, recordVars,
        supVars, trackVars
<1>4. CASE RecoverClear
    BY <1>4
    DEF RecoverClear, Step, Goto, RecoverReturns, recordVars, supVars,
        trackVars
<1>5. CASE RecoverDisabledRecord
    BY <1>5
    DEF RecoverDisabledRecord, Step, Goto, RecoverReturns, WriteFails,
        SetPhase, recordVars, supVars, trackVars
<1>6. CASE RecoverFiles
    BY <1>6
    DEF RecoverFiles, Step, Goto, RecoverReturns, recordVars, supVars,
        trackVars
<1>7. CASE RecoverDisabled
    BY <1>7
    DEF RecoverDisabled, Step, Goto, RecoverReturns, WriteFails, MarkDisabled,
        recordVars, supVars, trackVars
<1>8. CASE RecoverRunningRecord
    BY <1>8
    DEF RecoverRunningRecord, Step, Goto, RecoverReturns, WriteFails, HalfDone,
        SetPhase, recordVars, supVars, trackVars
<1>9. CASE RecoverPrepare
    BY <1>9
    DEF RecoverPrepare, Step, Goto, RecoverReturns, recordVars, supVars,
        trackVars
<1>10. CASE Start
    BY <1>10
    DEF Start, Step, Goto, RecoverReturns, Spawn, Fresh, StartFails, StartPath,
        recordVars
<1>11. CASE Confirm
    BY <1>11
    DEF Confirm, Step, Goto, RecoverReturns, StartFails, recordVars, trackVars
<1>12. CASE Remember
    BY <1>12
    DEF Remember, Step, Goto, RecoverReturns, StopChild, RememberOwner,
        RememberOwnerFails, StartFails, recordVars, trackVars
<1>13. CASE Claim
    BY <1>13
    DEF Claim, recordVars, supVars, trackVars, nodeVars
<1>14. ASSUME NEW s \in Offers, Receive(s) PROVE pc' = "down" /\ owner # p
    BY <1>14
    DEF Receive, Goto, Accept, recordVars, supVars, trackVars, nodeVars
<1>15. CASE ApplyNothing
    BY <1>15
    DEF ApplyNothing, Step, Goto, Undecided, recordVars, supVars, trackVars,
        nodeVars
<1>16. CASE ApplyPrepare
    BY <1>16
    DEF ApplyPrepare, Step, Goto, Undecided, recordVars, supVars, trackVars
<1>17. CASE Switch
    BY <1>17
    DEF Switch, Step, Goto, WriteFails, SetPhase, recordVars, supVars,
        trackVars, nodeVars
<1>18. CASE StopOld
    BY <1>18
    DEF StopOld, Step, Goto, StopChild, recordVars, trackVars, nodeVars
<1>19. CASE ClearOld
    BY <1>19
    DEF ClearOld, Step, Goto, recordVars, supVars, trackVars
<1>20. CASE Commit
    BY <1>20
    DEF Commit, Step, Goto, RecoverReturns, WriteFails, MarkRunningApplied,
        recordVars, supVars, trackVars
<1>21. CASE Disable
    BY <1>21
    DEF Disable, Step, Goto, WriteFails, MarkDisabling, recordVars, supVars,
        trackVars, nodeVars
<1>22. CASE DisableStop
    BY <1>22
    DEF DisableStop, Step, Goto, StopChild, recordVars, trackVars, nodeVars
<1>23. CASE DisableClear
    BY <1>23
    DEF DisableClear, Step, Goto, recordVars, supVars, trackVars
<1>24. CASE DisableFiles
    BY <1>24
    DEF DisableFiles, Step, Goto, recordVars, supVars, trackVars, nodeVars
<1>25. CASE DisableCommit
    BY <1>25
    DEF DisableCommit, Step, Goto, RecoverReturns, WriteFails, MarkDisabled,
        recordVars, supVars, trackVars
<1>26. CASE Rollback
    BY <1>26
    DEF Rollback, Step, Goto, StopChild, recordVars, trackVars, nodeVars
<1>27. CASE RollbackClear
    BY <1>27
    DEF RollbackClear, Step, Goto, Restores, recordVars, supVars, trackVars
<1>28. CASE Fail
    BY <1>28
    DEF Fail, Step, Goto, WriteFails, SetPhase, recordVars, supVars, trackVars,
        nodeVars
<1>29. ASSUME NEW q \in Pids, FrpsExits(q) PROVE pc' = "down" /\ owner # p
    BY <1>29
    DEF FrpsExits, recordVars, supVars, trackVars, nodeVars
<1>30. CASE WatchExit
    BY <1>30
    DEF WatchExit, SupervisorFree, recordVars, trackVars, nodeVars
<1>31. CASE Respawn
    BY <1>31
    DEF Respawn, Spawn, Fresh, SupervisorFree, recordVars, nodeVars
<1>32. ASSUME NEW q \in Pids, TrackBegin(q) PROVE pc' = "down" /\ owner # p
    BY <1>32
    DEF TrackBegin, RuntimeFree, recordVars, supVars, nodeVars
<1>33. CASE TrackEnd
    BY <1>33
    DEF TrackEnd, RememberOwner, recordVars, supVars
<1>34. CASE Crash
    BY <1>34
    DEF Crash, Goto, recordVars
<1>35. CASE UNCHANGED vars
    BY <1>35
    DEF vars, recordVars, supVars, trackVars, nodeVars
<1>36. QED
    BY <1>1, <1>2, <1>3, <1>4, <1>5, <1>6, <1>7, <1>8, <1>9, <1>10, <1>11,
       <1>12, <1>13, <1>14, <1>15, <1>16, <1>17, <1>18, <1>19, <1>20, <1>21,
       <1>22, <1>23, <1>24, <1>25, <1>26, <1>27, <1>28, <1>29, <1>30, <1>31,
       <1>32, <1>33, <1>34, <1>35
    DEF Next, LocalNext, NodeSteps, Recover, StartFrps, ApplyAccepted,
        ApplyDisabled, Undo, Supervise, Track

-----------------------------------------------------------------------------
(* The results *)

LEMMA OwnerInvariance ==
    ASSUME "stop" \notin Faults, "files" \notin Faults
    PROVE  Spec => [](IInv /\ OwnerInv /\ CleanInv)
<1>1. Init => OwnerInv /\ CleanInv
    BY NoPidAssumption DEF Init, RecordInit, OwnerInv, CleanInv, Unseen, Alive
<1>2. IInv /\ OwnerInv /\ CleanInv /\ [Next]_vars => OwnerInv' /\ CleanInv'
    BY OwnerStep, CleanStep DEF IInv
<1>3. QED
    BY <1>1, <1>2, InitInv, StepInv, PTL DEF Spec

(***************************************************************************)
(* What the Controller deletes its record of a Node on is true: no FRPS,   *)
(* supervised or recorded, and no file with a token is left.               *)
(***************************************************************************)
THEOREM CompletedDisableIsClean ==
    ASSUME "stop" \notin Faults, "files" \notin Faults
    PROVE  Spec => []DisabledIsClean
<1>1. IInv /\ CleanInv => DisabledIsClean
    BY CompleteFacts DEF CleanInv, DisabledIsClean
<1>2. QED
    BY <1>1, OwnerInvariance, PTL

(***************************************************************************)
(* The Node lets go of a live FRPS only by dying before it has recorded    *)
(* the one it just started.                                                *)
(***************************************************************************)
THEOREM NothingForgotten ==
    ASSUME "stop" \notin Faults, "files" \notin Faults
    PROVE  Spec => NoForgottenFrps
<1>1. IInv /\ OwnerInv /\ [Next]_vars =>
          [\A p \in Pids : (Known(p) /\ Alive(p) /\ Alive(p)' /\ ~Known(p)')
                               => pc' = "down" /\ owner # p]_vars
    BY KnownStep DEF IInv
<1>2. QED
    BY <1>1, OwnerInvariance, PTL DEF Spec, NoForgottenFrps

-----------------------------------------------------------------------------
(***************************************************************************)
(* What a Controller may conclude from a status, and what liveness rests   *)
(* on.  The fairness of the runs makes the Node act; that somebody is      *)
(* there to act, and that a status without an error is a settled one, is   *)
(* proved here.                                                            *)
(*   - TrackInv: what is supervised is recorded, or a trackRecovery that   *)
(*     will record it is there (its guard on activeConfig lets it through);*)
(*   - ReportInv: every return to idle, from the first boot to the last    *)
(*     failed write, leaves supervisor and row in agreement or says so.    *)
(***************************************************************************)

(***************************************************************************)
(* A live supervised FRPS that the row does not name has a goroutine on    *)
(* its way to record it, or the status says that ownership is unknown (the *)
(* safety core of SupervisedIsRecorded).                                   *)
(***************************************************************************)
WillBeRecorded ==
    Alive(child) /\ owner # child =>
        child \in trackers \/ tracking = child \/ ownerUnknown

TrackInv ==
    /\ WillBeRecorded
    /\ pc = "start" => StartPath # NoSnapshot
    /\ Supervised => activeConfig # NoSnapshot

(***************************************************************************)
(* A status without an error is true of the FRPS.  "applied": the accepted *)
(* snapshot is being served, or restarted.  "failed" with                  *)
(* NODE_APPLY_FAILED: the rollback has succeeded, so that the last good    *)
(* snapshot is, if there is one and the Node is not disabled.              *)
(***************************************************************************)
ReportIsServed ==
    pc = "idle" /\ ~recoveryError /\ ~ownerUnknown =>
        /\ phase = "applied" => Supervised /\ config = candidate
        /\ phase = "failed" /\ failure = "NODE_APPLY_FAILED" =>
               \/ lastGood = NoSnapshot \/ bootDisabled
               \/ Supervised /\ config = lastGood

(***************************************************************************)
(* A Node that is idle has decided the accepted snapshot or reports an     *)
(* error: it never sits on it in silence (the safety core of               *)
(* EveryCandidateIsDecided; where the row can be written).                 *)
(***************************************************************************)
UndecidedIsReported ==
    pc = "idle" /\ phase \in {"accepted", "switching", "disabling"} =>
        recoveryError \/ ownerUnknown

\* idle, or about to look whether there is anything to do.
Answering == pc \in {"idle", "apply"}

ReportInv ==
    /\ pc = "confirm" => child # NoPid
    /\ pc \in {"remember", "commit"} => Supervised
    /\ Answering /\ phase = "applied" /\ ~recoveryError /\ ~ownerUnknown => Supervised
    /\ Answering /\ phase = "failed" /\ failure = "NODE_APPLY_FAILED"
           /\ ~recoveryError /\ ~ownerUnknown =>
               lastGood = NoSnapshot \/ bootDisabled \/ Supervised
    /\ pc = "fail" /\ code = "NODE_APPLY_FAILED" =>
           lastGood = NoSnapshot \/ bootDisabled \/ Supervised
    /\ pc = "recoverPrepare" \/ (pc \in StartSteps /\ task = "recover") =>
           phase \notin {"accepted", "switching", "disabling"}
    /\ "store" \notin Faults =>
           /\ UndecidedIsReported
           /\ pc = "apply" /\ phase \in {"switching", "disabling"} =>
                  recoveryError \/ ownerUnknown

\* Whoever starts an FRPS, or changes what is recorded, leaves a goroutine or the
\* row behind that knows of it.
LEMMA TrackStep ==
    ASSUME RecordInv, TypeOK, ControlInv, ServesInv, TrackInv, [Next]_vars
    PROVE  TrackInv'
<1> USE NoPidAssumption, NoSnapshotAssumption
    DEF TrackInv, WillBeRecorded, ServesInv, Supervised, StoppedSteps,
        RecoverSteps, Alive, TypeOK, StartPath
<1>1. CASE Boot
    BY <1>1
    DEF Boot, Goto, supVars
<1>2. CASE RecoverNothing
    BY <1>2
    DEF RecoverNothing, Step, Goto, RecoverReturns, supVars
<1>3. CASE RecoverOwner
    BY <1>3
    DEF RecoverOwner, Step, Goto, RecoverReturns, Alive, TerminateOwner,
        supVars
<1>4. CASE RecoverClear
    BY <1>4
    DEF RecoverClear, Step, Goto, RecoverReturns, supVars
<1>5. CASE RecoverDisabledRecord
    BY <1>5
    DEF RecoverDisabledRecord, Step, Goto, RecoverReturns, SetPhase, supVars
<1>6. CASE RecoverFiles
    BY <1>6
    DEF RecoverFiles, Step, Goto, RecoverReturns, supVars
<1>7. CASE RecoverDisabled
    BY <1>7
    DEF RecoverDisabled, Step, Goto, RecoverReturns, MarkDisabled, supVars
<1>8. CASE RecoverRunningRecord
    BY <1>8
    DEF RecoverRunningRecord, Step, Goto, RecoverReturns, HalfDone, SetPhase,
        supVars
<1>9. CASE RecoverPrepare
    BY <1>9
    DEF RecoverPrepare, Step, Goto, RecoverReturns, recordVars, supVars,
        ControlInv
<1>10. CASE Start
    BY <1>10
    DEF Start, Step, Goto, RecoverReturns, Spawn, Alive, StartFails
<1>11. CASE Confirm
    BY <1>11
    DEF Confirm, Step, Goto, RecoverReturns, Alive, StartFails, trackVars
<1>12. CASE Remember
    BY <1>12
    DEF Remember, Step, Goto, RecoverReturns, StopChild, Alive, RememberOwner,
        RememberOwnerFails, StartFails, trackVars
<1>13. CASE Claim
    BY <1>13
    DEF Claim, supVars, trackVars, nodeVars
<1>14. ASSUME NEW s \in Offers, Receive(s) PROVE TrackInv'
    BY <1>14
    DEF Receive, Goto, Accept, supVars, trackVars, nodeVars
<1>15. CASE ApplyNothing
    BY <1>15
    DEF ApplyNothing, Step, Goto, supVars, trackVars, nodeVars
<1>16. CASE ApplyPrepare
    BY <1>16
    DEF ApplyPrepare, Step, Goto, supVars, trackVars
<1>17. CASE Switch
    BY <1>17
    DEF Switch, Step, Goto, SetPhase, supVars, trackVars, nodeVars
<1>18. CASE StopOld
    BY <1>18
    DEF StopOld, Step, Goto, StopChild
<1>19. CASE ClearOld
    BY <1>19
    DEF ClearOld, Step, Goto, recordVars, supVars, ControlInv, Switching,
        RecordInv, FromCandidate
<1>20. CASE Commit
    BY <1>20
    DEF Commit, Step, Goto, RecoverReturns, MarkRunningApplied, supVars,
        trackVars
<1>21. CASE Disable
    BY <1>21
    DEF Disable, Step, Goto, MarkDisabling, supVars, trackVars, nodeVars
<1>22. CASE DisableStop
    BY <1>22
    DEF DisableStop, Step, Goto, StopChild
<1>23. CASE DisableClear
    BY <1>23
    DEF DisableClear, Step, Goto, supVars
<1>24. CASE DisableFiles
    BY <1>24
    DEF DisableFiles, Step, Goto, supVars
<1>25. CASE DisableCommit
    BY <1>25
    DEF DisableCommit, Step, Goto, RecoverReturns, MarkDisabled, supVars
<1>26. CASE Rollback
    BY <1>26
    DEF Rollback, Step, Goto, StopChild
<1>27. CASE RollbackClear
    BY <1>27
    DEF RollbackClear, Step, Goto, Restores, recordVars, supVars
<1>28. CASE Fail
    BY <1>28
    DEF Fail, Step, Goto, SetPhase, supVars, trackVars, nodeVars
<1>29. ASSUME NEW p \in Pids, FrpsExits(p) PROVE TrackInv'
    BY <1>29
    DEF FrpsExits, Alive, recordVars, supVars, trackVars, nodeVars
<1>30. CASE WatchExit
    BY <1>30
    DEF WatchExit, Alive, SupervisorFree, nodeVars
<1>31. CASE Respawn
    BY <1>31
    DEF Respawn, Spawn, Alive, SupervisorFree, nodeVars
<1>32. ASSUME NEW p \in Pids, TrackBegin(p) PROVE TrackInv'
    BY <1>32
    DEF TrackBegin, RuntimeFree, supVars, nodeVars
<1>33. CASE TrackEnd
    BY <1>33
    DEF TrackEnd, Alive, RememberOwner, recordVars, supVars
<1>34. CASE Crash
    BY <1>34
    DEF Crash, Goto
<1>35. CASE UNCHANGED vars
    BY <1>35
    DEF vars, recordVars, supVars, trackVars, nodeVars, recordVars, supVars,
        trackVars, nodeVars
<1>36. QED
    BY <1>1, <1>2, <1>3, <1>4, <1>5, <1>6, <1>7, <1>8, <1>9, <1>10, <1>11,
       <1>12, <1>13, <1>14, <1>15, <1>16, <1>17, <1>18, <1>19, <1>20, <1>21,
       <1>22, <1>23, <1>24, <1>25, <1>26, <1>27, <1>28, <1>29, <1>30, <1>31,
       <1>32, <1>33, <1>34, <1>35
    DEF Next, LocalNext, NodeSteps, Recover, StartFrps, ApplyAccepted,
        ApplyDisabled, Undo, Supervise, Track

\* Each way back to idle leaves the row and the supervisor in agreement, or an
\* error beside them.
LEMMA ReportStep ==
    ASSUME RecordInv, RecordInv', TypeOK, ControlInv, ServesInv, ReportInv, [Next]_vars
    PROVE  ReportInv'
<1> USE NoPidAssumption, NoSnapshotAssumption
    DEF ReportInv, Answering, UndecidedIsReported, Supervised, Alive, TypeOK, StartSteps
<1>1. CASE Boot
    BY <1>1
    DEF Boot, Goto
<1>2. CASE RecoverNothing
    BY <1>2
    DEF RecoverNothing, Step, Goto, RecoverReturns, recordVars, RecordInv,
        FromCandidate, Reopenable
<1>3. CASE RecoverOwner
    BY <1>3
    DEF RecoverOwner, Step, Goto, RecoverReturns, Alive, TerminateOwner
<1>4. CASE RecoverClear
    BY <1>4
    DEF RecoverClear, Step, Goto, RecoverReturns
<1>5. CASE RecoverDisabledRecord
    BY <1>5
    DEF RecoverDisabledRecord, Step, Goto, RecoverReturns, SetPhase
<1>6. CASE RecoverFiles
    BY <1>6
    DEF RecoverFiles, Step, Goto, RecoverReturns, recordVars, RecordInv,
        PhaseMeaning
<1>7. CASE RecoverDisabled
    BY <1>7
    DEF RecoverDisabled, Step, Goto, RecoverReturns, MarkDisabled
<1>8. CASE RecoverRunningRecord
    BY <1>8
    DEF RecoverRunningRecord, Step, Goto, RecoverReturns, HalfDone, SetPhase,
        recordVars, RecordInv, PhaseMeaning, FromCandidate
<1>9. CASE RecoverPrepare
    BY <1>9
    DEF RecoverPrepare, Step, Goto, RecoverReturns, recordVars
<1>10. CASE Start
    BY <1>10
    DEF Start, Step, Goto, RecoverReturns, Spawn, Alive, StartFails,
        recordVars
<1>11. CASE Confirm
    BY <1>11
    DEF Confirm, Step, Goto, RecoverReturns, Alive, StartFails, recordVars
<1>12. CASE Remember
    BY <1>12
    DEF Remember, Step, Goto, RecoverReturns, StopChild, Alive, RememberOwner,
        RememberOwnerFails, StartFails, recordVars
<1>13. CASE Claim
    BY <1>13
    DEF Claim, recordVars, supVars, nodeVars
<1>14. ASSUME NEW s \in Offers, Receive(s) PROVE ReportInv'
    BY <1>14
    DEF Receive, Goto, Accept, recordVars, supVars, nodeVars
<1>15. CASE ApplyNothing
    BY <1>15
    DEF ApplyNothing, Step, Goto, Undecided, recordVars, supVars, nodeVars
<1>16. CASE ApplyPrepare
    BY <1>16
    DEF ApplyPrepare, Step, Goto
<1>17. CASE Switch
    BY <1>17
    DEF Switch, Step, Goto, MayFail, WriteFails, SetPhase, recordVars,
        ControlInv, Undecided
<1>18. CASE StopOld
    BY <1>18
    DEF StopOld, Step, Goto, StopChild
<1>19. CASE ClearOld
    BY <1>19
    DEF ClearOld, Step, Goto
<1>20. CASE Commit
    BY <1>20
    DEF Commit, Step, Goto, RecoverReturns, MarkRunningApplied, supVars
<1>21. CASE Disable
    BY <1>21
    DEF Disable, Step, Goto, MayFail, WriteFails, MarkDisabling, recordVars,
        ControlInv, Undecided
<1>22. CASE DisableStop
    BY <1>22
    DEF DisableStop, Step, Goto, StopChild, recordVars, ControlInv,
        DisableSteps, RecordInv, PhaseMeaning
<1>23. CASE DisableClear
    BY <1>23
    DEF DisableClear, Step, Goto, MayFail, recordVars, ControlInv,
        DisableSteps
<1>24. CASE DisableFiles
    BY <1>24
    DEF DisableFiles, Step, Goto, recordVars, ControlInv, DisableSteps,
        RecordInv, PhaseMeaning
<1>25. CASE DisableCommit
    BY <1>25
    DEF DisableCommit, Step, Goto, RecoverReturns, MayFail, WriteFails,
        MarkDisabled, recordVars, ControlInv, DisableSteps
<1>26. CASE Rollback
    BY <1>26
    DEF Rollback, Step, Goto, StopChild
<1>27. CASE RollbackClear
    BY <1>27
    DEF RollbackClear, Step, Goto, MayFail, Restores, recordVars, ControlInv,
        Switching
<1>28. CASE Fail
    BY <1>28
    DEF Fail, Step, Goto, MayFail, WriteFails, SetPhase, recordVars, supVars,
        ControlInv
<1>29. ASSUME NEW p \in Pids, FrpsExits(p) PROVE ReportInv'
    BY <1>29
    DEF FrpsExits, Alive, recordVars, supVars, nodeVars
<1>30. CASE WatchExit
    BY <1>30
    DEF WatchExit, Alive, SupervisorFree, recordVars, nodeVars
<1>31. CASE Respawn
    BY <1>31
    DEF Respawn, Spawn, Alive, SupervisorFree, recordVars, nodeVars
<1>32. ASSUME NEW p \in Pids, TrackBegin(p) PROVE ReportInv'
    BY <1>32
    DEF TrackBegin, RuntimeFree, recordVars, supVars, nodeVars
<1>33. CASE TrackEnd
    BY <1>33
    DEF TrackEnd, Alive, RememberOwner, recordVars, supVars
<1>34. CASE Crash
    BY <1>34
    DEF Crash, Goto
<1>35. CASE UNCHANGED vars
    BY <1>35
    DEF vars, recordVars, supVars, nodeVars, recordVars, supVars, nodeVars
<1>36. QED
    BY <1>1, <1>2, <1>3, <1>4, <1>5, <1>6, <1>7, <1>8, <1>9, <1>10, <1>11,
       <1>12, <1>13, <1>14, <1>15, <1>16, <1>17, <1>18, <1>19, <1>20, <1>21,
       <1>22, <1>23, <1>24, <1>25, <1>26, <1>27, <1>28, <1>29, <1>30, <1>31,
       <1>32, <1>33, <1>34, <1>35
    DEF Next, LocalNext, NodeSteps, Recover, StartFrps, ApplyAccepted,
        ApplyDisabled, Undo, Supervise, Track

LEMMA ReportInvariance == Spec => [](IInv /\ TrackInv /\ ReportInv)
<1>1. Init => TrackInv /\ ReportInv
    BY DEF Init, RecordInit, TrackInv, WillBeRecorded, ReportInv, Answering,
           UndecidedIsReported, Supervised, Alive, StartSteps
<1>2. IInv /\ TrackInv /\ ReportInv /\ [Next]_vars => TrackInv' /\ ReportInv'
    BY TrackStep, ReportStep, StepInv DEF IInv
<1>3. QED
    BY <1>1, <1>2, InitInv, StepInv, PTL DEF Spec

(***************************************************************************)
(* No live FRPS of the supervisor stays out of the row without anyone who  *)
(* will put it there, in whatever order spawns, exits, restarts and        *)
(* goroutines follow each other.                                           *)
(***************************************************************************)
THEOREM SupervisedWillBeRecorded == Spec => []WillBeRecorded
<1>1. TrackInv => WillBeRecorded
    BY DEF TrackInv
<1>2. QED
    BY <1>1, ReportInvariance, PTL

(***************************************************************************)
(* A Controller that reads "applied", or a failed but rolled back switch,  *)
(* without an error, reads what the FRPS serves -- also after restarts and *)
(* failed writes.                                                          *)
(***************************************************************************)
THEOREM StatusIsServed == Spec => []ReportIsServed
<1>1. IInv /\ ReportInv => ReportIsServed
    <2> SUFFICES ASSUME IInv, ReportInv, pc = "idle", ~recoveryError, ~ownerUnknown
                 PROVE  /\ phase = "applied" => Supervised /\ config = candidate
                        /\ phase = "failed" /\ failure = "NODE_APPLY_FAILED" =>
                               \/ lastGood = NoSnapshot \/ bootDisabled
                               \/ Supervised /\ config = lastGood
        BY DEF ReportIsServed
    <2>1. Supervised => config = lastGood
        BY DEF IInv, ServesInv, Window
    <2>2. phase = "applied" => Supervised /\ lastGood = candidate
        BY DEF IInv, RecordInv, PhaseMeaning, ReportInv, Answering
    <2>3. QED
        BY <2>1, <2>2 DEF ReportInv, Answering
<1>2. QED
    BY <1>1, ReportInvariance, PTL

(***************************************************************************)
(* An idle Node that has not decided its snapshot says that something is   *)
(* wrong, so that its Controller can tell waiting from being stuck.        *)
(***************************************************************************)
THEOREM NothingIsLeftUndecided ==
    ASSUME "store" \notin Faults
    PROVE  Spec => []UndecidedIsReported
<1>1. ReportInv => UndecidedIsReported
    BY DEF ReportInv
<1>2. QED
    BY <1>1, ReportInvariance, PTL
=============================================================================
