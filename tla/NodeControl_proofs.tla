------------------------- MODULE NodeControl_proofs -------------------------
(***************************************************************************)
(* Proofs about NodeControl, for every number of revisions, tokens,        *)
(* requests and commits under way, and restarts.  The argument:            *)
(*   - every step of the composition is a step of the Node or leaves it    *)
(*     alone (ControlRunsNode), so that all NodeRuntime_proofs has shown   *)
(*     of the Node holds of it here;                                       *)
(*   - the row's own columns agree in whatever order requests come         *)
(*     (TokenInv);                                                         *)
(*   - what is on its way to the Node was once desired under the present   *)
(*     row, and the Node is never ahead of that row (WireInv);             *)
(*   - a status grows old only in one way: the Node accepts a higher       *)
(*     revision (SeenInv);                                                 *)
(*   - tokens are issued in the order of revisions, and the snapshots in   *)
(*     play keep that order (IssuedInv, OrderInv).                         *)
(* A row that an earlier registration can still disturb (late: made while  *)
(* its commits were under way, or by a mark they have passed since) is     *)
(* exempt from WireInv and OrderInv, and from all that follows from them.  *)
(***************************************************************************)
EXTENDS NodeControl, NodeRuntime_proofs

-----------------------------------------------------------------------------
(* The inductive invariant *)

\* The revision and the tokens a row carries, as the requests need them.
TokenInv ==
    lifecycle = "active" =>
        /\ activeToken # 0
        /\ stagedToken = 0 => stagedRevision = 0
        /\ stagedToken # 0 => /\ desired # NoSnapshot
                              /\ stagedRevision = desiredRevision
                              /\ desired.token = stagedToken
        /\ stagedToken = 0 /\ desired # NoSnapshot => desired.token = activeToken

\* The steps of a round, and what each of them has at hand.
RoundInv ==
    /\ ~Registered => step = "rest"
    /\ step \in {"send", "statusAgain", "observeAgain", "finish"} =>
           rec.desired # NoSnapshot
    /\ ~bound => highest = 0
    /\ desired # NoSnapshot => desired.revision = desiredRevision

\* s was desired under this row, now or before.
Offered(s) == s.revision < desiredRevision \/ s = desired

WireInv ==
    Registered /\ ~late =>
        /\ highest <= desiredRevision
        /\ highest = desiredRevision /\ desired # NoSnapshot => candidate = desired
        /\ \A s \in wire : Offered(s)
        /\ step # "rest" /\ rec.desired # NoSnapshot => Offered(rec.desired)

\* The steps that act on a status, which is of the past by then.
SeenSteps == {"observe", "decide", "observeAgain", "finish"}

SeenInv ==
    step \in SeenSteps =>
        /\ seen.highest \in Nat /\ seen.highest <= highest
        /\ seen.highest = highest =>
               /\ seen.document = candidate
               /\ seen.phase = "applied" => phase = "applied"
               /\ seen.disabledComplete => disabledComplete

\* Nothing on its way to a Node that was removed can change its row.
RemovedInv ==
    lifecycle = "removed" /\ ~late =>
        /\ disabledComplete
        /\ \A s \in wire : s.revision <= highest

CInv == IInv /\ ControlTypeOK /\ TokenInv /\ RoundInv /\ WireInv /\ SeenInv /\ RemovedInv

-----------------------------------------------------------------------------
(* What is used of the data and of the Node *)

LEMMA OfferFacts ==
    /\ \A s \in Offers : /\ s.revision \in 1..MaxRevision /\ s # NoSnapshot
                         /\ s.state = "running" => s.token \in 1..MaxToken
    /\ \A r \in 1..MaxRevision, t \in 1..MaxToken :
           [revision |-> r, state |-> "running", token |-> t] \in Offers
    /\ \A r \in 1..MaxRevision :
           [revision |-> r, state |-> "disabled", token |-> 0] \in Offers
BY OffersAreSnapshots, NoSnapshotAssumption DEF Snapshots

LEMMA HighestBounded == IInv => highest \in 0..MaxRevision
<1> SUFFICES ASSUME IInv PROVE highest \in 0..MaxRevision
    OBVIOUS
<1>1. highest = 0 \/ (candidate \in Offers /\ candidate.revision = highest)
    BY DEF IInv, RecordInv, Reopenable, RecordTypeOK
<1>2. MaxRevision \in Nat
    BY MaxRevisionAssumption DEF MaxRevisionAssumption
<1>3. QED
    BY <1>1, <1>2, OfferFacts

\* Left to itself the Node neither is claimed nor accepts anything.
LEMMA LocalKeepsHighest == LocalNext => highest' = highest /\ bound' = bound
<1> SUFFICES ASSUME LocalNext PROVE highest' = highest /\ bound' = bound
    OBVIOUS
<1> USE DEF recordVars, SetPhase, MarkRunningApplied, MarkDisabling, MarkDisabled,
            WriteFails
<1>1. CASE Boot
    BY <1>1 DEF Boot
<1>2. CASE Recover
    BY <1>2 DEF Recover, RecoverNothing, RecoverOwner, RecoverClear,
                RecoverDisabledRecord, RecoverFiles, RecoverDisabled,
                RecoverRunningRecord, RecoverPrepare
<1>3. CASE StartFrps
    BY <1>3 DEF StartFrps, Start, Confirm, Remember
<1>4. CASE ApplyAccepted
    BY <1>4 DEF ApplyAccepted, ApplyNothing, ApplyPrepare, Switch, StopOld,
                ClearOld, Commit
<1>5. CASE ApplyDisabled
    BY <1>5 DEF ApplyDisabled, Disable, DisableStop, DisableClear, DisableFiles,
                DisableCommit
<1>6. CASE Undo
    BY <1>6 DEF Undo, Rollback, RollbackClear, Fail
<1>7. CASE \E p \in Pids : FrpsExits(p)
    BY <1>7 DEF FrpsExits
<1>8. CASE Supervise
    BY <1>8 DEF Supervise, WatchExit, Respawn
<1>9. CASE Track
    BY <1>9 DEF Track, TrackBegin, TrackEnd
<1>10. CASE Crash
    BY <1>10 DEF Crash
<1>11. QED
    BY <1>1, <1>2, <1>3, <1>4, <1>5, <1>6, <1>7, <1>8, <1>9, <1>10
    DEF LocalNext, NodeSteps

\* A decided row changes only by accepting a higher revision.
LEMMA LocalKeepsDecided ==
    ASSUME IInv, LocalNext
    PROVE  /\ highest' = highest /\ candidate' = candidate /\ bound' = bound
           /\ phase = "applied" => phase' = "applied"
           /\ disabledComplete => disabledComplete'
<1>1. highest' = highest /\ bound' = bound /\ highest \in Nat
    BY LocalKeepsHighest DEF IInv, RecordInv, RecordTypeOK
<1>2. [RecordNext]_recordVars
    BY RowStep DEF IInv, Next
<1>3. disabledComplete => phase = "disabled"
    BY DEF IInv, RecordInv, PhaseMeaning
<1>4. phase = "applied" => ~bootDisabled
    BY DEF IInv, RecordInv, PhaseMeaning
<1>5. CASE \E s \in Offers : Accept(s)
    BY <1>1, <1>5, OfferFacts DEF Accept
<1>6. CASE BeginSwitch \/ GiveUp \/ Interrupt
    BY <1>1, <1>3, <1>4, <1>6 DEF BeginSwitch, GiveUp, Interrupt, Undecided, SetPhase
<1>7. CASE FinishSwitch \/ BeginDisable
    BY <1>1, <1>3, <1>4, <1>7
    DEF FinishSwitch, MarkRunningApplied, BeginDisable, MarkDisabling, Undecided
<1>8. CASE FinishDisable
    BY <1>1, <1>3, <1>4, <1>8 DEF FinishDisable, DisablePending, MarkDisabled
<1>9. CASE UNCHANGED recordVars
    BY <1>1, <1>9 DEF recordVars
<1>10. QED
    BY <1>2, <1>5, <1>6, <1>7, <1>8, <1>9 DEF RecordNext

LEMMA ReceiveRaises ==
    ASSUME IInv, NEW s \in Offers, Receive(s)
    PROVE  /\ bound' = bound /\ bound
           /\ \/ s.revision > highest /\ highest' = s.revision /\ candidate' = s
              \/ UNCHANGED recordVars
BY DEF Receive, Accept

\* A registration asks the Node and, later, makes the row; never both at once.
LEMMA RegistrationFacts ==
    ASSUME Registration
    PROVE  /\ Claim \/ UNCHANGED vars
           /\ UNCHANGED <<step, rec, seen, restarts, wire>>
           /\ \/ UNCHANGED <<rowVars, fault, late>>
              \/ /\ UNCHANGED vars
                 /\ \E a \in Admins : mark[a] # NoMark /\ Register(a)
BY DEF Registration, ClaimNode, ReadHighest, Register, RegistrationFails, coordVars

\* Every step of the composition is one of the Node, or leaves it alone.
LEMMA ControlStepsNode == [ControlNext]_allVars => [Next]_vars
<1> SUFFICES ASSUME [ControlNext]_allVars PROVE [Next]_vars
    OBVIOUS
<1>1. CASE Requests
    BY <1>1, RegistrationFacts DEF Requests, SaveDesired, RefreshInherited,
                StageToken, RequestRemoval, AssignClient, ReleaseClient,
                ForceForget, Next
<1>2. CASE Coordinates
    BY <1>2 DEF Coordinates, CoordGet, StatusFails, StatusAnswers, Decides,
                Observe, Decide, Send, Finish, ServerRestart
<1>3. CASE \E s \in Offers : Deliver(s) \/ Lose(s)
    BY <1>3 DEF Deliver, Lose, Next
<1>4. CASE NodeActs
    BY <1>4 DEF NodeActs, Next
<1>5. CASE UNCHANGED allVars
    BY <1>5 DEF allVars
<1>6. QED
    BY <1>1, <1>2, <1>3, <1>4, <1>5 DEF ControlNext

(***************************************************************************)
(* The Node that a Controller drives is the Node of NodeRuntime: whatever  *)
(* is proved of that one holds under every order of requests, rounds, lost *)
(* and late commits.                                                       *)
(***************************************************************************)
THEOREM ControlRunsNode == ControlSpec => Spec
<1>1. ControlInit => Init
    BY DEF ControlInit
<1>2. QED
    BY <1>1, ControlStepsNode, PTL DEF ControlSpec, Spec

-----------------------------------------------------------------------------
(* Types *)

RowTypes ==
    /\ lifecycle \in {"none", "active", "removing", "removed", "forgotten"}
    /\ desiredRevision \in 0..MaxRevision
    /\ desired \in Offers \cup {NoSnapshot}
    /\ activeToken \in 0..MaxToken
    /\ stagedToken \in 0..MaxToken
    /\ stagedRevision \in 0..MaxRevision
    /\ tokens \in 0..MaxToken
    /\ assigned \in BOOLEAN

RoundTypes ==
    /\ fault \in BOOLEAN
    /\ step \in {"rest", "status", "observe", "decide", "send", "statusAgain",
                 "observeAgain", "finish"}
    /\ rec.desired \in Offers \cup {NoSnapshot}
    /\ rec.revision \in 0..MaxRevision
    /\ seen.document \in Offers \cup {NoSnapshot}
    /\ restarts \in 0..MaxRestarts
    /\ mark \in [Admins -> {NoMark} \cup 0..MaxRevision]
    /\ wire \subseteq Offers
    /\ late \in BOOLEAN

LEMMA Bounds == MaxRevision \in Nat \ {0} /\ MaxToken \in Nat \ {0} /\ MaxRestarts \in Nat
BY MaxRevisionAssumption, MaxTokenAssumption, MaxRestartsAssumption
DEF MaxRevisionAssumption, MaxTokenAssumption, MaxRestartsAssumption

\* Each save desires the next snapshot, and with it the token that it says.
LEMMA DesireFacts ==
    ASSUME ControlTypeOK, NEW state, NEW token, Desire(NextSnapshot(state, token)),
           \/ state = "running" /\ token \in 1..MaxToken
           \/ state = "disabled" /\ token = 0
    PROVE  /\ desiredRevision' = desiredRevision + 1
           /\ desired' \in Offers
           /\ desired'.revision = desiredRevision + 1
           /\ desired'.token = token
           /\ desiredRevision + 1 \in 1..MaxRevision
<1>1. desiredRevision + 1 \in 1..MaxRevision
    BY Bounds DEF ControlTypeOK, Desire
<1>2. desired' = [revision |-> desiredRevision + 1, state |-> state, token |-> token]
    BY DEF Desire, NextSnapshot
<1>3. desired' \in Offers
    BY <1>1, <1>2, OfferFacts
<1>4. QED
    BY <1>1, <1>2, <1>3 DEF Desire

SavedToken == IF stagedToken # 0 THEN stagedToken ELSE activeToken

LEMMA SaveFacts ==
    ASSUME CInv, SaveDesired \/ RefreshInherited \/ StageToken \/ RequestRemoval
    PROVE  /\ desiredRevision' = desiredRevision + 1
           /\ desiredRevision' \in 0..MaxRevision
           /\ desiredRevision + 1 \in 0..MaxRevision
           /\ desired' \in Offers
           /\ desired'.revision = desiredRevision'
           /\ SaveDesired => desired'.token = SavedToken
           /\ RefreshInherited => desired'.token = desired.token
           /\ StageToken => desired'.token = tokens + 1
<1> USE Bounds DEF CInv
<1>1. ControlTypeOK
    OBVIOUS
<1>2. SaveDesired => SavedToken \in 1..MaxToken
    BY DEF SaveDesired, TokenInv, ControlTypeOK, SavedToken
<1>3. RefreshInherited => desired.token \in 1..MaxToken
    BY OfferFacts DEF RefreshInherited, DesiredRunning, ControlTypeOK
<1>4. StageToken => tokens + 1 \in 1..MaxToken
    BY DEF StageToken, ControlTypeOK
<1>5. /\ SaveDesired => Desire(NextSnapshot("running", SavedToken))
      /\ RefreshInherited => Desire(NextSnapshot("running", desired.token))
      /\ StageToken => Desire(NextSnapshot("running", tokens + 1))
      /\ RequestRemoval => Desire(NextSnapshot("disabled", 0))
    BY DEF SaveDesired, RefreshInherited, StageToken, RequestRemoval, SavedToken
<1>6. /\ desired' \in Offers
      /\ desiredRevision' = desiredRevision + 1
      /\ desired'.revision = desiredRevision + 1
      /\ desiredRevision + 1 \in 1..MaxRevision
    BY <1>1, <1>2, <1>3, <1>4, <1>5, DesireFacts
<1>7. /\ SaveDesired => desired'.token = SavedToken
      /\ RefreshInherited => desired'.token = desired.token
      /\ StageToken => desired'.token = tokens + 1
    BY <1>1, <1>2, <1>3, <1>4, <1>5, DesireFacts
<1>8. QED
    BY <1>6, <1>7

LEMMA RowTypesStep ==
    ASSUME CInv, [ControlNext]_allVars
    PROVE  RowTypes'
<1>1. RowTypes
    BY DEF CInv, ControlTypeOK, RowTypes
<1>2. highest \in 0..MaxRevision
    BY HighestBounded DEF CInv
<1> USE <1>1, Bounds DEF RowTypes
<1>3. ASSUME NEW a \in Admins, Register(a) PROVE RowTypes'
    <2>1. /\ tokens + 1 \in 0..MaxToken /\ 0 \in 0..MaxToken /\ 0 \in 0..MaxRevision
          /\ mark[a] \in 0..MaxRevision
        BY <1>3 DEF Register, CInv, ControlTypeOK
    <2>2. lifecycle' = "active" /\ assigned' = FALSE
        BY <1>3 DEF Register
    <2>3. QED
        BY <1>3, <2>1, <2>2, Zenon DEF Register
<1>4. CASE Registration
    <2>1. CASE UNCHANGED rowVars
        BY <2>1 DEF rowVars
    <2>2. QED
        BY <1>3, <1>4, <2>1, RegistrationFacts
<1>5. CASE SaveDesired
    BY <1>5, SaveFacts, Zenon DEF SaveDesired
<1>6. CASE RefreshInherited
    <2>1. 0 \in 0..MaxRevision
        OBVIOUS
    <2>2. QED
        BY <1>6, <2>1, SaveFacts, Zenon DEF RefreshInherited
<1>7. CASE StageToken
    <2>1. tokens + 1 \in 0..MaxToken
        BY <1>7 DEF StageToken
    <2>2. QED
        BY <1>7, <2>1, SaveFacts, Zenon DEF StageToken
<1>8. CASE RequestRemoval
    <2>1. lifecycle' = "removing"
        BY <1>8 DEF RequestRemoval
    <2>2. QED
        BY <1>8, <2>1, SaveFacts, Zenon DEF RequestRemoval
<1>9. CASE AssignClient \/ ReleaseClient
    BY <1>9 DEF AssignClient, ReleaseClient
<1>10. CASE ForceForget
    BY <1>10 DEF ForceForget, DeleteRow
<1>11. CASE CoordGet \/ StatusFails \/ StatusAnswers \/ Send \/ ServerRestart
    BY <1>11 DEF CoordGet, StatusFails, StatusAnswers, Send, ServerRestart, rowVars
<1>12. CASE Observe
    BY <1>12 DEF Observe
<1>13. CASE Decide \/ Finish
    BY <1>13 DEF Decide, Finish, DeleteRow, rowVars
<1>14. CASE (\E s \in Offers : Deliver(s) \/ Lose(s)) \/ NodeActs
    BY <1>14 DEF Deliver, Lose, NodeActs, rowVars
<1>15. CASE UNCHANGED allVars
    BY <1>15 DEF allVars, controlVars, rowVars
<1>16. QED
    BY <1>4, <1>5, <1>6, <1>7, <1>8, <1>9, <1>10, <1>11, <1>12, <1>13,
       <1>14, <1>15
    DEF ControlNext, Requests, Coordinates, Decides

LEMMA RoundTypesStep ==
    ASSUME CInv, [ControlNext]_allVars
    PROVE  RoundTypes'
<1>1. RoundTypes /\ RowTypes
    BY DEF CInv, ControlTypeOK, RoundTypes, RowTypes
<1> USE <1>1, Bounds DEF RoundTypes, coordVars
<1>2. CASE Registration
    <2>1. mark' \in [Admins -> {NoMark} \cup 0..MaxRevision]
        BY <1>2, HighestBounded
        DEF Registration, ClaimNode, ReadHighest, Register, RegistrationFails, CInv
    <2>2. fault' \in BOOLEAN /\ late' \in BOOLEAN
        <3>1. ASSUME NEW a \in Admins, Register(a) PROVE fault' \in BOOLEAN
            BY <3>1 DEF Register
        <3>2. ASSUME NEW a \in Admins, Register(a) PROVE late' \in BOOLEAN
            BY <3>2, Zenon DEF Register, MadeLate
        <3>3. QED
            BY <1>2, <3>1, <3>2, RegistrationFacts, Zenon
    <2>3. UNCHANGED <<step, rec, seen, restarts, wire>>
        BY <1>2, RegistrationFacts
    <2>4. QED
        BY <2>1, <2>2, <2>3
<1>3. CASE SaveDesired \/ RefreshInherited \/ StageToken \/ RequestRemoval
    BY <1>3 DEF SaveDesired, RefreshInherited, StageToken, RequestRemoval
<1>4. CASE AssignClient \/ ReleaseClient \/ ForceForget
    BY <1>4 DEF AssignClient, ReleaseClient, ForceForget
<1>5. CASE CoordGet
    BY <1>5 DEF CoordGet, RowTypes
<1>6. CASE StatusFails
    <2>1. fault' \in BOOLEAN
        BY <1>6, Zenon DEF StatusFails
    <2>2. rec'.desired = NoSnapshot /\ rec'.revision = 0 /\ seen'.document = NoSnapshot
        BY <1>6 DEF StatusFails, Returns, NoRecord, NoStatus
    <2>3. 0 \in 0..MaxRevision
        OBVIOUS
    <2>4. QED
        BY <1>6, <2>1, <2>2, <2>3, Zenon DEF StatusFails, Returns
<1>7. CASE StatusAnswers
    <2>1. candidate \in Offers \cup {NoSnapshot}
        BY DEF CInv, IInv, RecordInv, RecordTypeOK
    <2>2. QED
        BY <1>7, <2>1 DEF StatusAnswers, Status
<1>8. CASE Observe
    BY <1>8 DEF Observe
<1>9. CASE Decide \/ Finish
    BY <1>9 DEF Decide, Finish, Returns, NoRecord, NoStatus
<1>10. CASE Send
    BY <1>10 DEF Send, CInv, RoundInv
<1>11. CASE ServerRestart
    <2>1. rec'.desired = NoSnapshot /\ rec'.revision = 0 /\ seen'.document = NoSnapshot
        BY <1>11 DEF ServerRestart, Returns, NoRecord, NoStatus
    <2>2. restarts' \in 0..MaxRestarts /\ 0 \in 0..MaxRevision
        BY <1>11 DEF ServerRestart
    <2>3. QED
        BY <1>11, <2>1, <2>2, Zenon DEF ServerRestart, Returns
<1>12. CASE (\E s \in Offers : Deliver(s) \/ Lose(s)) \/ NodeActs
    BY <1>12 DEF Deliver, Lose, NodeActs
<1>13. CASE UNCHANGED allVars
    BY <1>13 DEF allVars, controlVars
<1>14. QED
    BY <1>2, <1>3, <1>4, <1>5, <1>6, <1>7, <1>8, <1>9, <1>10, <1>11, <1>12,
       <1>13
    DEF ControlNext, Requests, Coordinates, Decides

-----------------------------------------------------------------------------
(* The row *)

LEMMA TokenStep ==
    ASSUME CInv, [ControlNext]_allVars
    PROVE  TokenInv'
<1>1. RowTypes /\ TokenInv
    BY DEF CInv, ControlTypeOK, RowTypes
<1> USE <1>1, Bounds DEF RowTypes, TokenInv
<1>2. CASE Registration
    <2>1. CASE UNCHANGED rowVars
        BY <2>1 DEF rowVars
    <2>2. ASSUME NEW a \in Admins, Register(a) PROVE TokenInv'
        BY <2>2 DEF Register
    <2>3. QED
        BY <1>2, <2>1, <2>2, RegistrationFacts
<1>3. CASE SaveDesired
    <2>1. desired'.token = SavedToken /\ desired' # NoSnapshot
        BY <1>3, SaveFacts, NoSnapshotAssumption
    <2>2. /\ lifecycle = "active" /\ UNCHANGED <<lifecycle, activeToken, stagedToken>>
          /\ desiredRevision' = desiredRevision + 1
          /\ stagedToken # 0 => stagedRevision' = desiredRevision + 1
          /\ stagedToken = 0 => stagedRevision' = stagedRevision
        BY <1>3 DEF SaveDesired, Desire
    <2>3. QED
        BY <2>1, <2>2 DEF SavedToken
<1>4. CASE RefreshInherited
    <2>1. desired'.token = desired.token /\ desired' # NoSnapshot
        BY <1>4, SaveFacts, NoSnapshotAssumption
    <2>2. desiredRevision # 0 /\ desired # NoSnapshot
        BY <1>4, OfferFacts DEF RefreshInherited, DesiredRunning
    <2>3. /\ lifecycle = "active" /\ UNCHANGED <<lifecycle, activeToken, stagedToken>>
          /\ desiredRevision' = desiredRevision + 1
          /\ stagedRevision # 0 => stagedRevision' = desiredRevision + 1
          /\ stagedRevision = 0 => stagedRevision' = 0
        BY <1>4 DEF RefreshInherited, Desire
    <2>4. QED
        BY <2>1, <2>2, <2>3
<1>5. CASE StageToken
    <2>1. desired'.token = tokens + 1 /\ desired' # NoSnapshot
        BY <1>5, SaveFacts, NoSnapshotAssumption
    <2>2. /\ lifecycle = "active" /\ UNCHANGED <<lifecycle, activeToken>>
          /\ desiredRevision' = desiredRevision + 1
          /\ stagedToken' = tokens + 1 /\ stagedRevision' = desiredRevision + 1
        BY <1>5 DEF StageToken, Desire
    <2>3. QED
        BY <2>1, <2>2
<1>6. CASE RequestRemoval \/ AssignClient \/ ReleaseClient
    BY <1>6 DEF RequestRemoval, AssignClient, ReleaseClient
<1>7. CASE ForceForget
    BY <1>7 DEF ForceForget, DeleteRow
<1>8. CASE CoordGet \/ StatusFails \/ StatusAnswers \/ Send \/ ServerRestart
    BY <1>8 DEF CoordGet, StatusFails, StatusAnswers, Send, ServerRestart, rowVars
<1>9. CASE Observe
    BY <1>9 DEF Observe, Promotable, DesiredRunning
<1>10. CASE Decide \/ Finish
    BY <1>10 DEF Decide, Finish, DeleteRow, rowVars
<1>11. CASE (\E s \in Offers : Deliver(s) \/ Lose(s)) \/ NodeActs
    BY <1>11 DEF Deliver, Lose, NodeActs, rowVars
<1>12. CASE UNCHANGED allVars
    BY <1>12 DEF allVars, controlVars, rowVars
<1>13. QED
    BY <1>2, <1>3, <1>4, <1>5, <1>6, <1>7, <1>8, <1>9, <1>10, <1>11, <1>12
    DEF ControlNext, Requests, Coordinates, Decides

-----------------------------------------------------------------------------
(* A round *)

\* What a step of the composition does to the Node's high-water mark.
LEMMA NodeFacts ==
    ASSUME CInv, [ControlNext]_allVars
    PROVE  \/ /\ UNCHANGED <<highest, candidate>>
              /\ UNCHANGED bound \/ Claim
              /\ phase = "applied" => phase' = "applied"
              /\ disabledComplete => disabledComplete'
           \/ \E s \in wire : /\ Deliver(s) /\ bound /\ bound' = bound
                              /\ s.revision > highest
                              /\ highest' = s.revision /\ candidate' = s
<1>1. IInv
    BY DEF CInv
<1>2. CASE Claim
    BY <1>2 DEF Claim, recordVars
<1>3. CASE UNCHANGED vars
    BY <1>3 DEF vars, recordVars
<1>4. ASSUME NEW s \in Offers, Deliver(s) PROVE
          \/ UNCHANGED <<highest, candidate, bound, phase, disabledComplete>>
          \/ \E w \in wire : /\ Deliver(w) /\ bound /\ bound' = bound
                             /\ w.revision > highest
                             /\ highest' = w.revision /\ candidate' = w
    BY <1>1, <1>4, ReceiveRaises DEF Deliver, recordVars
<1>5. CASE NodeActs
    BY <1>1, <1>5, LocalKeepsDecided DEF NodeActs
<1>6. CASE Requests
    BY <1>2, <1>3, <1>6, RegistrationFacts
    DEF Requests, SaveDesired, RefreshInherited, StageToken,
        RequestRemoval, AssignClient, ReleaseClient, ForceForget
<1>7. CASE Coordinates
    BY <1>3, <1>7
    DEF Coordinates, CoordGet, StatusFails, StatusAnswers, Decides, Observe,
        Decide, Send, Finish, ServerRestart
<1>8. CASE \E s \in Offers : Lose(s)
    BY <1>3, <1>8 DEF Lose
<1>9. CASE UNCHANGED allVars
    BY <1>3, <1>9 DEF allVars
<1>10. QED
    BY <1>2, <1>4, <1>5, <1>6, <1>7, <1>8, <1>9 DEF ControlNext

LEMMA RoundStep ==
    ASSUME CInv, [ControlNext]_allVars
    PROVE  RoundInv'
<1> USE DEF CInv, RoundInv, Registered
<1>1. ~bound' => highest' = 0
    <2>1. CASE UNCHANGED <<highest, bound>>
        BY <2>1
    <2>2. CASE bound' = TRUE
        BY <2>2
    <2>3. Claim => bound' = TRUE
        BY DEF Claim
    <2>4. bound /\ bound' = bound => bound' = TRUE
        BY DEF IInv, TypeOK
    <2>5. QED
        BY <2>1, <2>2, <2>3, <2>4, NodeFacts
<1>2. CASE Registration
    BY <1>1, <1>2, RegistrationFacts DEF Register, rowVars
<1>3. CASE SaveDesired \/ RefreshInherited \/ StageToken \/ RequestRemoval
    <2>1. desired'.revision = desiredRevision'
        BY <1>3, SaveFacts
    <2>2. UNCHANGED <<step, rec>> /\ lifecycle = "active"
          /\ lifecycle' \in {"active", "removing"}
        BY <1>3 DEF SaveDesired, RefreshInherited, StageToken, RequestRemoval,
                    coordVars
    <2>3. QED
        BY <1>1, <2>1, <2>2
<1>4. CASE AssignClient \/ ReleaseClient
    BY <1>1, <1>4 DEF AssignClient, ReleaseClient, coordVars
<1>5. CASE ForceForget
    BY <1>1, <1>5 DEF ForceForget, DeleteRow
<1>6. CASE CoordGet
    BY <1>1, <1>6 DEF CoordGet, rowVars
<1>7. CASE StatusFails \/ ServerRestart
    BY <1>1, <1>7 DEF StatusFails, ServerRestart, Returns, rowVars
<1>8. CASE StatusAnswers
    BY <1>1, <1>8 DEF StatusAnswers, rowVars
<1>9. CASE Observe
    BY <1>1, <1>9 DEF Observe
<1>10. CASE Decide
    BY <1>1, <1>10 DEF Decide, DeleteRow, Returns, rowVars
<1>11. CASE Send
    BY <1>1, <1>11 DEF Send, rowVars
<1>12. CASE Finish
    BY <1>1, <1>12 DEF Finish, DeleteRow, Returns, rowVars
<1>13. CASE (\E s \in Offers : Deliver(s) \/ Lose(s)) \/ NodeActs
    BY <1>1, <1>13 DEF Deliver, Lose, NodeActs, rowVars, coordVars
<1>14. CASE UNCHANGED allVars
    BY <1>1, <1>14 DEF allVars, controlVars, rowVars, coordVars
<1>15. QED
    BY <1>2, <1>3, <1>4, <1>5, <1>6, <1>7, <1>8, <1>9, <1>10, <1>11, <1>12,
       <1>13, <1>14
    DEF ControlNext, Requests, Coordinates, Decides

LEMMA WireStep ==
    ASSUME CInv, [ControlNext]_allVars
    PROVE  WireInv'
<1>1. /\ highest \in Nat /\ desiredRevision \in Nat /\ wire \subseteq Offers
      /\ \A s \in Offers : s.revision \in Nat
    BY Bounds, OfferFacts
    DEF CInv, IInv, RecordInv, RecordTypeOK, ControlTypeOK
<1>2. /\ RoundInv /\ WireInv
      /\ desired \in Offers \cup {NoSnapshot}
      /\ rec.desired \in Offers \cup {NoSnapshot}
    BY DEF CInv, ControlTypeOK
<1> USE <1>1, <1>2 DEF RoundInv, WireInv, Offered, Registered
<1>3. ASSUME NEW a \in Admins, Register(a), UNCHANGED <<step, highest, candidate>>
      PROVE  WireInv'
    <2>1. ~late' => wire' = {} /\ highest = mark[a]
        BY <1>3 DEF Register, MadeLate
    <2>2. desiredRevision' = mark[a] /\ desired' = NoSnapshot /\ step' = "rest"
        BY <1>3 DEF Register
    <2>3. QED
        BY <1>3, <2>1, <2>2
<1>4. CASE Registration
    <2>1. UNCHANGED <<highest, candidate>>
        BY <1>4, RegistrationFacts DEF Claim, vars, recordVars
    <2>2. CASE UNCHANGED <<rowVars, fault, late>>
        BY <1>4, <2>1, <2>2, RegistrationFacts DEF rowVars
    <2>3. QED
        BY <1>3, <1>4, <2>1, <2>2, RegistrationFacts
<1>5. CASE SaveDesired \/ RefreshInherited \/ StageToken \/ RequestRemoval
    <2>1. /\ desiredRevision' = desiredRevision + 1
          /\ desired'.revision = desiredRevision'
        BY <1>5, SaveFacts
    <2>2. UNCHANGED <<step, rec, wire, late, highest, candidate>> /\ lifecycle = "active"
        BY <1>5 DEF SaveDesired, RefreshInherited, StageToken, RequestRemoval,
                    coordVars, vars, recordVars
    <2>3. \A s \in wire \cup {rec.desired} :
              s \in Offers /\ ~late /\ Offered(s) => s.revision < desiredRevision'
        BY <2>1, NoSnapshotAssumption
    <2>4. QED
        BY <2>1, <2>2, <2>3
<1>6. CASE AssignClient \/ ReleaseClient
    BY <1>6 DEF AssignClient, ReleaseClient, coordVars, vars, recordVars
<1>7. CASE ForceForget
    BY <1>7 DEF ForceForget, DeleteRow
<1>8. CASE CoordGet
    BY <1>8 DEF CoordGet, rowVars, vars, recordVars
<1>9. CASE StatusFails \/ ServerRestart
    BY <1>9 DEF StatusFails, ServerRestart, Returns, rowVars, vars, recordVars
<1>10. CASE StatusAnswers
    BY <1>10 DEF StatusAnswers, rowVars, vars, recordVars
<1>11. CASE Observe
    BY <1>11 DEF Observe, vars, recordVars
<1>12. CASE Decide
    BY <1>12 DEF Decide, DeleteRow, Returns, rowVars, vars, recordVars
<1>13. CASE Send
    BY <1>13 DEF Send, rowVars, vars, recordVars
<1>14. CASE Finish
    BY <1>14 DEF Finish, DeleteRow, Returns, rowVars, vars, recordVars
<1>15. ASSUME NEW s \in Offers, Deliver(s) PROVE WireInv'
    <2>1. IInv
        BY DEF CInv
    <2>2. \/ s.revision > highest /\ highest' = s.revision /\ candidate' = s
          \/ UNCHANGED recordVars
        BY <1>15, <2>1, ReceiveRaises DEF Deliver
    <2>3. s \in wire /\ wire' \subseteq wire
          /\ UNCHANGED <<lifecycle, desiredRevision, desired, step, rec, late>>
        BY <1>15 DEF Deliver, rowVars, coordVars
    <2>4. CASE s.revision > highest /\ highest' = s.revision /\ candidate' = s
        <3>1. Registered /\ ~late => Offered(s)
            BY <2>3
        <3>2. s.revision \in Nat /\ s # NoSnapshot
            BY OfferFacts
        <3>3. Registered /\ ~late =>
                  /\ highest' <= desiredRevision
                  /\ highest' = desiredRevision => candidate' = desired
            BY <2>4, <3>1, <3>2
        <3>4. QED
            BY <2>3, <3>3
    <2>5. QED
        BY <2>2, <2>3, <2>4 DEF recordVars
<1>16. CASE \E s \in Offers : Lose(s)
    BY <1>16 DEF Lose, rowVars, coordVars, vars, recordVars
<1>17. CASE NodeActs
    <2>1. highest' = highest /\ candidate' = candidate
        BY <1>17, LocalKeepsDecided DEF CInv, NodeActs
    <2>2. QED
        BY <1>17, <2>1 DEF NodeActs, rowVars, coordVars
<1>18. CASE UNCHANGED allVars
    BY <1>18 DEF allVars, controlVars, rowVars, coordVars, vars, recordVars
<1>19. QED
    BY <1>4, <1>5, <1>6, <1>7, <1>8, <1>9, <1>10, <1>11, <1>12, <1>13,
       <1>14, <1>15, <1>16, <1>17, <1>18
    DEF ControlNext, Requests, Coordinates, Decides

LEMMA SeenStep ==
    ASSUME CInv, [ControlNext]_allVars
    PROVE  SeenInv'
<1>1. highest \in Nat /\ wire \subseteq Offers /\ SeenInv
    BY DEF CInv, IInv, RecordInv, RecordTypeOK, ControlTypeOK
<1>2. ASSUME UNCHANGED seen, step' \in SeenSteps => step \in SeenSteps
      PROVE  SeenInv'
    <2> SUFFICES ASSUME step' \in SeenSteps PROVE SeenInv'
        BY DEF SeenInv
    <2>1. /\ seen.highest \in Nat /\ seen.highest <= highest
          /\ seen.highest = highest =>
                 /\ seen.document = candidate
                 /\ seen.phase = "applied" => phase = "applied"
                 /\ seen.disabledComplete => disabledComplete
        BY <1>1, <1>2 DEF SeenInv
    <2>2. CASE \E s \in wire : s.revision > highest /\ highest' = s.revision
        BY <1>1, <1>2, <2>1, <2>2, OfferFacts DEF SeenInv
    <2>3. CASE /\ UNCHANGED <<highest, candidate>>
               /\ phase = "applied" => phase' = "applied"
               /\ disabledComplete => disabledComplete'
        BY <1>2, <2>1, <2>3 DEF SeenInv
    <2>4. QED
        BY <2>2, <2>3, NodeFacts
<1>3. ASSUME step' \notin SeenSteps PROVE SeenInv'
    BY <1>3 DEF SeenInv
<1>4. CASE Requests
    BY <1>2, <1>4, RegistrationFacts
    DEF Requests, SaveDesired, RefreshInherited, StageToken, RequestRemoval,
        AssignClient, ReleaseClient, ForceForget, coordVars
<1>5. CASE CoordGet \/ StatusFails \/ ServerRestart \/ Send
    BY <1>3, <1>5
    DEF CoordGet, StatusFails, ServerRestart, Send, Returns, SeenSteps
<1>6. CASE StatusAnswers
    BY <1>1, <1>6 DEF StatusAnswers, Status, SeenInv, vars, recordVars
<1>7. CASE Observe
    BY <1>2, <1>7 DEF Observe, SeenSteps
<1>8. CASE Decide \/ Finish
    BY <1>3, <1>8 DEF Decide, Finish, Returns, SeenSteps
<1>9. CASE (\E s \in Offers : Deliver(s) \/ Lose(s)) \/ NodeActs
    BY <1>2, <1>9 DEF Deliver, Lose, NodeActs, coordVars
<1>10. CASE UNCHANGED allVars
    BY <1>2, <1>10 DEF allVars, controlVars, coordVars
<1>11. QED
    BY <1>4, <1>5, <1>6, <1>7, <1>8, <1>9, <1>10
    DEF ControlNext, Coordinates, Decides

\* The status a row is deleted on is still true of the Node.
LEMMA RemovableHolds ==
    ASSUME CInv, step \in {"decide", "finish"}, rec.desired # NoSnapshot,
           Removable, ~late
    PROVE  /\ disabledComplete
           /\ \A s \in wire : s.revision <= highest
<1>1. /\ highest \in Nat /\ wire \subseteq Offers /\ desiredRevision \in Nat
      /\ \A s \in Offers : s.revision \in Nat
    BY Bounds, OfferFacts DEF CInv, IInv, RecordInv, RecordTypeOK, ControlTypeOK
<1>2. /\ seen.highest = desiredRevision /\ seen.disabledComplete
      /\ lifecycle = "removing"
      /\ desired = rec.desired
    BY DEF Removable, Confirms
<1>3. highest <= desiredRevision /\ \A s \in wire : Offered(s)
    BY <1>2 DEF CInv, WireInv, Registered
<1>4. desired.revision = desiredRevision
    BY <1>2 DEF CInv, RoundInv
<1>5. /\ seen.highest \in Nat /\ seen.highest <= highest
      /\ seen.highest = highest /\ seen.disabledComplete => disabledComplete
    BY DEF CInv, SeenInv, SeenSteps
<1>6. highest = desiredRevision
    BY <1>1, <1>2, <1>3, <1>5
<1>7. QED
    BY <1>1, <1>2, <1>3, <1>4, <1>5, <1>6 DEF Offered

LEMMA RemovedStep ==
    ASSUME CInv, [ControlNext]_allVars
    PROVE  RemovedInv'
<1>1. /\ highest \in Nat /\ wire \subseteq Offers
      /\ \A s \in Offers : s.revision \in Nat
      /\ RoundInv /\ RemovedInv
    BY OfferFacts DEF CInv, IInv, RecordInv, RecordTypeOK, ControlTypeOK
<1>2. ASSUME lifecycle = "removed", ~late, wire' \subseteq wire PROVE RemovedInv'
    <2>1. disabledComplete /\ \A s \in wire : s.revision <= highest
        BY <1>1, <1>2 DEF RemovedInv
    <2>2. ~ \E s \in wire : s.revision > highest
        BY <1>1, <2>1
    <2>3. highest' = highest /\ disabledComplete'
        BY <2>1, <2>2, NodeFacts
    <2>4. QED
        BY <1>2, <2>1, <2>3 DEF RemovedInv
<1>3. ASSUME UNCHANGED <<lifecycle, late>>, wire' \subseteq wire PROVE RemovedInv'
    BY <1>2, <1>3 DEF RemovedInv
<1>4. ASSUME lifecycle' # "removed" PROVE RemovedInv'
    BY <1>4 DEF RemovedInv
<1>5. CASE Requests
    BY <1>3, <1>4, <1>5, RegistrationFacts
    DEF Requests, Register, SaveDesired, RefreshInherited, StageToken,
        RequestRemoval, AssignClient, ReleaseClient, ForceForget, DeleteRow, rowVars
<1>6. CASE CoordGet \/ StatusFails \/ StatusAnswers \/ Observe \/ ServerRestart
    BY <1>3, <1>6
    DEF CoordGet, StatusFails, StatusAnswers, Observe, ServerRestart, rowVars
<1>7. CASE Send
    BY <1>1, <1>4, <1>7 DEF Send, rowVars, RoundInv, Registered
<1>8. CASE Decide \/ Finish
    <2>1. UNCHANGED <<wire, late, highest, disabledComplete>>
        BY <1>8 DEF Decide, Finish, vars, recordVars
    <2>2. step \in {"decide", "finish"}
        BY <1>8 DEF Decide, Finish
    <2>3. UNCHANGED rowVars \/ (Removable /\ rec.desired # NoSnapshot)
        BY <1>1, <1>8 DEF Decide, Finish, RoundInv
    <2>4. CASE UNCHANGED rowVars
        BY <1>3, <2>1, <2>4 DEF rowVars
    <2>5. CASE Removable /\ rec.desired # NoSnapshot
        <3>1. ~late => disabledComplete /\ \A s \in wire : s.revision <= highest
            BY <2>2, <2>5, RemovableHolds
        <3>2. QED
            BY <2>1, <3>1 DEF RemovedInv
    <2>6. QED
        BY <2>3, <2>4, <2>5
<1>9. CASE (\E s \in Offers : Deliver(s) \/ Lose(s)) \/ NodeActs
    BY <1>3, <1>9 DEF Deliver, Lose, NodeActs, rowVars
<1>10. CASE UNCHANGED allVars
    BY <1>3, <1>10 DEF allVars, controlVars, rowVars
<1>11. QED
    BY <1>5, <1>6, <1>7, <1>8, <1>9, <1>10
    DEF ControlNext, Coordinates, Decides

-----------------------------------------------------------------------------
(* The results *)

LEMMA ControlInitInv == ControlInit => CInv
<1> SUFFICES ASSUME ControlInit PROVE CInv
    OBVIOUS
<1>1. IInv
    BY InitInv DEF ControlInit
<1>2. ControlTypeOK
    <2>1. 0 \in 0..MaxRevision /\ 0 \in 0..MaxToken /\ 0 \in 0..MaxRestarts
        BY Bounds
    <2>2. rec.desired = NoSnapshot /\ rec.revision = 0 /\ seen.document = NoSnapshot
        BY DEF ControlInit, NoRecord, NoStatus
    <2>3. QED
        BY <2>1, <2>2, Zenon DEF ControlInit, ControlTypeOK
<1>3. TokenInv /\ WireInv /\ RemovedInv /\ SeenInv
    BY DEF ControlInit, TokenInv, WireInv, RemovedInv, SeenInv, SeenSteps, Registered
<1>4. RoundInv
    BY DEF ControlInit, Init, RecordInit, RoundInv, Registered
<1>5. QED
    BY <1>1, <1>2, <1>3, <1>4 DEF CInv

LEMMA ControlStepInv == CInv /\ [ControlNext]_allVars => CInv'
<1> SUFFICES ASSUME CInv, [ControlNext]_allVars PROVE CInv'
    OBVIOUS
<1>1. IInv'
    BY ControlStepsNode, StepInv DEF CInv
<1>2. ControlTypeOK'
    BY RowTypesStep, RoundTypesStep DEF ControlTypeOK, RowTypes, RoundTypes
<1>3. QED
    BY <1>1, <1>2, TokenStep, RoundStep, WireStep, SeenStep, RemovedStep DEF CInv

LEMMA ControlInvariance == ControlSpec => []CInv
BY ControlInitInv, ControlStepInv, PTL DEF ControlSpec

\* The Controller's row, its round and the network keep their types.
THEOREM ControlTypes == ControlSpec => []ControlTypeOK
<1>1. CInv => ControlTypeOK
    BY DEF CInv
<1>2. QED
    BY <1>1, ControlInvariance, PTL

(***************************************************************************)
(* However saves, refreshes, rotations and promotions interleave, the      *)
(* desired snapshot carries the token that will be in force with it.       *)
(***************************************************************************)
THEOREM DesiresTokenInService == ControlSpec => []TokenInService
<1>1. CInv => TokenInService
    BY DEF CInv, TokenInv, TokenInService
<1>2. QED
    BY <1>1, ControlInvariance, PTL

(***************************************************************************)
(* A Node never holds another document under the revision its Controller   *)
(* wants.                                                                  *)
(***************************************************************************)
THEOREM NeverInConflict == ControlSpec => []NoRevisionConflict
<1>1. CInv => NoRevisionConflict
    BY DEF CInv, WireInv, NoRevisionConflict
<1>2. QED
    BY <1>1, ControlInvariance, PTL

(***************************************************************************)
(* A token is promoted on a status that is old, and yet only while the     *)
(* Node's last good configuration has it.                                  *)
(***************************************************************************)
THEOREM PromotesWhatIsServed == ControlSpec => PromotedTokenIsServed
<1>1. ASSUME CInv, Observe, activeToken' # activeToken, ~late
      PROVE  lastGood = desired
    <2>1. Promotable
        BY <1>1 DEF Observe
    <2>2. /\ seen.phase = "applied" /\ seen.highest = desiredRevision
          /\ seen.document = desired
        BY <2>1 DEF Promotable
    <2>3. step \in SeenSteps /\ step # "rest"
        BY <1>1 DEF Observe, SeenSteps
    <2>4. highest <= desiredRevision
        BY <1>1, <2>3 DEF CInv, RoundInv, WireInv
    <2>5. seen.highest <= highest
        BY <1>1, <2>3 DEF CInv, SeenInv
    <2>6. highest \in Nat /\ desiredRevision \in Nat
        BY <1>1, Bounds DEF CInv, IInv, RecordInv, RecordTypeOK, ControlTypeOK
    <2>7. seen.highest = highest
        BY <2>2, <2>4, <2>5, <2>6
    <2>8. candidate = desired /\ phase = "applied"
        BY <1>1, <2>2, <2>3, <2>7 DEF CInv, SeenInv
    <2>9. QED
        BY <1>1, <2>8 DEF CInv, IInv, RecordInv, PhaseMeaning
<1>2. CInv /\ [ControlNext]_allVars =>
          [Observe /\ activeToken' # activeToken /\ ~late => lastGood = desired]_allVars
    BY <1>1
<1>3. QED
    BY <1>2, ControlInvariance, PTL DEF ControlSpec, PromotedTokenIsServed

(***************************************************************************)
(* A Node removed in the normal way stays durably disabled and runs        *)
(* nothing, whatever is still on its way to it and however often it dies.  *)
(***************************************************************************)
THEOREM RemovedForGood == ControlSpec => []RemovedStaysDown
<1>1. CInv => RemovedStaysDown
    <2> SUFFICES ASSUME CInv, lifecycle = "removed", ~late
                 PROVE  disabledComplete /\ bootDisabled /\ child = NoPid /\ ~retry
        BY DEF RemovedStaysDown
    <2>1. disabledComplete
        BY DEF CInv, RemovedInv
    <2>2. bootDisabled /\ phase = "disabled"
        BY <2>1 DEF CInv, IInv, RecordInv, Reopenable, PhaseMeaning
    <2>3. ~(pc = "disableStop" \/ pc \in Window)
        BY <2>2 DEF CInv, IInv, ControlInv, ServesInv, Switching, Window,
                    StartSteps, DisableSteps
    <2>4. ~Supervised
        BY <2>2, <2>3 DEF CInv, IInv, ServesInv
    <2>5. QED
        BY <2>1, <2>2, <2>4 DEF Supervised
<1>2. QED
    BY <1>1, ControlInvariance, PTL

-----------------------------------------------------------------------------
(***************************************************************************)
(* Tokens on their way.  A rotation withdraws a token for good: no commit  *)
(* that is late, no crash and no rollback may bring it back into service.  *)
(*   - Every token anywhere was issued by this Controller, and none is     *)
(*     newer than the ones in its row (IssuedInv).                         *)
(*   - Among the snapshots that can still become the last good one, a      *)
(*     higher revision never has an older token, and none that the Node    *)
(*     would accept is older than what it serves (OrderInv).               *)
(***************************************************************************)

RunningOffers == {s \in Offers : s.state = "running"}

\* The Node accepted it, serves it, served it last or has it in a file.
Holds(s) ==
    \/ s \in {candidate, lastGood, config} \cup files
    \/ \E p \in Pids : proc[p] = s

InPlay(s) == s \in wire \cup {desired, rec.desired} \/ Holds(s)

(***************************************************************************)
(* As long as a Node is registered, whatever it serves or may still be     *)
(* told to serve has the token that Clients are given, the one they will   *)
(* be given next, or one that was withdrawn before: never a token that the *)
(* Controller has lost track of.                                           *)
(***************************************************************************)
KnownTokens ==
    Registered =>
        \A s \in RunningOffers : InPlay(s) =>
            s.token <= activeToken \/ s.token = stagedToken

IssuedInv ==
    /\ activeToken <= tokens /\ stagedToken <= tokens
    /\ stagedToken # 0 => activeToken < stagedToken
    /\ \A s \in RunningOffers : InPlay(s) => s.token <= tokens
    /\ KnownTokens

\* The record a round works with: there is none between rounds.
RecInv ==
    /\ step = "rest" => rec.desired = NoSnapshot
    /\ rec.desired # NoSnapshot => rec.desired.revision = rec.revision

\* applyAccepted may still make the candidate the last good snapshot.
Applying ==
    \/ pc \in {"apply", "switch", "stopOld", "clearOld", "commit"}
    \/ pc \in StartSteps /\ task = "apply"

Coming(s) == s \in wire \cup {desired, rec.desired} \/ (Applying /\ s = candidate)

OrderInv ==
    ~late =>
        \A s \in RunningOffers : Coming(s) =>
            /\ \A t \in RunningOffers :
                   Coming(t) /\ s.revision <= t.revision => s.token <= t.token
            /\ lastGood # NoSnapshot /\ s.revision >= highest =>
                   s.token >= lastGood.token

(***************************************************************************)
(* A Node never goes back to an older token, whatever is late, repeated or *)
(* rolled back (commits of an earlier registration excepted).              *)
(***************************************************************************)
TokensOnlyAdvance ==
    [][~late /\ ~late' /\ lastGood # NoSnapshot /\ lastGood' # NoSnapshot
           => lastGood'.token >= lastGood.token]_allVars

-----------------------------------------------------------------------------

\* Of its own, the Node holds nothing that it did not hold before.
LEMMA LocalHolds ==
    ASSUME TypeOK, LocalNext, NEW s \in Offers, Holds(s)'
    PROVE  Holds(s)
<1> USE NoSnapshotAssumption
    DEF TypeOK, Holds, Goto, recordVars, supVars, trackVars, nodeVars
<1>1. CASE Boot
    BY <1>1 DEF Boot
<1>2. CASE RecoverNothing \/ RecoverClear \/ RecoverDisabledRecord \/ RecoverDisabled
    BY <1>2 DEF RecoverNothing, RecoverClear, RecoverDisabledRecord, RecoverDisabled,
                SetPhase, WriteFails, MarkDisabled
<1>3. CASE RecoverOwner
    BY <1>3 DEF RecoverOwner, TerminateOwner
<1>4. CASE RecoverFiles \/ RecoverRunningRecord \/ RecoverPrepare
    BY <1>4 DEF RecoverFiles, RecoverRunningRecord, RecoverPrepare, SetPhase, WriteFails
<1>5. CASE Start
    BY <1>5 DEF Start, Spawn, StartPath
<1>6. CASE Confirm
    BY <1>6 DEF Confirm
<1>7. CASE Remember
    BY <1>7 DEF Remember, StopChild
<1>8. CASE ApplyNothing \/ ApplyPrepare \/ Switch
    BY <1>8 DEF ApplyNothing, ApplyPrepare, Switch, SetPhase, WriteFails
<1>9. CASE StopOld
    BY <1>9 DEF StopOld, StopChild
<1>10. CASE ClearOld
    BY <1>10 DEF ClearOld
<1>11. CASE Commit
    BY <1>11 DEF Commit, MarkRunningApplied, WriteFails
<1>12. CASE Disable
    BY <1>12 DEF Disable, MarkDisabling, WriteFails
<1>13. CASE DisableStop
    BY <1>13 DEF DisableStop, StopChild
<1>14. CASE DisableClear \/ DisableFiles \/ DisableCommit
    BY <1>14 DEF DisableClear, DisableFiles, DisableCommit, MarkDisabled, WriteFails
<1>15. CASE Rollback
    BY <1>15 DEF Rollback, StopChild
<1>16. CASE RollbackClear \/ Fail
    BY <1>16 DEF RollbackClear, Fail, SetPhase, WriteFails
<1>17. CASE \E p \in Pids : FrpsExits(p)
    BY <1>17 DEF FrpsExits
<1>18. CASE WatchExit
    BY <1>18 DEF WatchExit
<1>19. CASE Respawn
    BY <1>19 DEF Respawn, Spawn
<1>20. CASE Track
    BY <1>20 DEF Track, TrackBegin, TrackEnd
<1>21. CASE Crash
    BY <1>21 DEF Crash
<1>22. QED
    BY <1>1, <1>2, <1>3, <1>4, <1>5, <1>6, <1>7, <1>8, <1>9, <1>10, <1>11,
       <1>12, <1>13, <1>14, <1>15, <1>16, <1>17, <1>18, <1>19, <1>20, <1>21
    DEF LocalNext, NodeSteps, Recover, StartFrps, ApplyAccepted, ApplyDisabled,
        Undo, Supervise

\* Only applyAccepted makes a snapshot the last good one, and it is the candidate.
LEMMA LocalApplies ==
    ASSUME LocalNext
    PROVE  /\ Applying' => Applying
           /\ \/ lastGood' \in {lastGood, NoSnapshot}
              \/ Applying /\ lastGood' = candidate
<1> USE DEF Applying, Goto, Step, StartSteps, RecoverReturns, recordVars, SetPhase,
            WriteFails
<1>1. CASE Boot
    BY <1>1 DEF Boot
<1>2. CASE Recover
    BY <1>2 DEF Recover, RecoverNothing, RecoverOwner, RecoverClear,
                RecoverDisabledRecord, RecoverFiles, RecoverDisabled,
                RecoverRunningRecord, RecoverPrepare, MarkDisabled
<1>3. CASE StartFrps
    BY <1>3 DEF StartFrps, Start, Confirm, Remember, StartFails
<1>4. CASE ApplyAccepted
    BY <1>4 DEF ApplyAccepted, ApplyNothing, ApplyPrepare, Switch, StopOld,
                ClearOld, Commit, MarkRunningApplied
<1>5. CASE ApplyDisabled
    BY <1>5 DEF ApplyDisabled, Disable, DisableStop, DisableClear, DisableFiles,
                DisableCommit, MarkDisabling, MarkDisabled
<1>6. CASE Undo
    BY <1>6 DEF Undo, Rollback, RollbackClear, Fail
<1>7. CASE (\E p \in Pids : FrpsExits(p)) \/ Supervise \/ Track
    BY <1>7 DEF FrpsExits, Supervise, WatchExit, Respawn, Track, TrackBegin, TrackEnd
<1>8. CASE Crash
    BY <1>8 DEF Crash
<1>9. QED
    BY <1>1, <1>2, <1>3, <1>4, <1>5, <1>6, <1>7, <1>8 DEF LocalNext, NodeSteps

\* What a step does to the Node's part of what is in play.
LEMMA NodeMoves ==
    ASSUME CInv, [ControlNext]_allVars
    PROVE  /\ \A s \in Offers : Holds(s)' => Holds(s) \/ s \in wire
           /\ Applying' => Applying \/ candidate' \in wire
           /\ highest' \in Nat /\ highest' >= highest
           /\ \/ lastGood' \in {lastGood, NoSnapshot}
              \/ Applying /\ lastGood' = candidate /\ UNCHANGED <<candidate, highest>>
           /\ Applying /\ Applying' => UNCHANGED candidate
<1>1. IInv /\ TypeOK /\ highest \in Nat
    BY DEF CInv, IInv, RecordInv, RecordTypeOK
<1>2. CASE NodeActs
    <2>1. LocalNext
        BY <1>2 DEF NodeActs
    <2>2. UNCHANGED <<highest, candidate>>
        BY <1>1, <2>1, LocalKeepsDecided
    <2>3. QED
        BY <1>1, <2>1, <2>2, LocalHolds, LocalApplies
<1>3. ASSUME NEW s \in Offers, Deliver(s) PROVE
          /\ \A t \in Offers : Holds(t)' => Holds(t) \/ t \in wire
          /\ candidate' \in wire /\ ~Applying
          /\ highest' \in Nat /\ highest' >= highest
          /\ lastGood' = lastGood
    <2>1. s \in wire /\ Receive(s)
        BY <1>3 DEF Deliver
    <2>2. /\ pc = "idle" /\ UNCHANGED <<lastGood, config, files, proc>>
          /\ candidate' = s
          /\ UNCHANGED highest \/ (highest' = s.revision /\ s.revision > highest)
        BY <2>1 DEF Receive, Accept, supVars, recordVars
    <2>3. s.revision \in Nat
        BY OfferFacts
    <2>4. QED
        BY <1>1, <2>1, <2>2, <2>3 DEF Holds, Applying, StartSteps
<1>4. CASE Claim
    BY <1>1, <1>4 DEF Claim, recordVars, supVars, Holds, Applying
<1>5. CASE UNCHANGED vars
    BY <1>1, <1>5 DEF vars, recordVars, supVars, Holds, Applying
<1>6. CASE Requests
    BY <1>4, <1>5, <1>6, RegistrationFacts
    DEF Requests, SaveDesired, RefreshInherited, StageToken,
        RequestRemoval, AssignClient, ReleaseClient, ForceForget
<1>7. CASE Coordinates
    BY <1>5, <1>7
    DEF Coordinates, CoordGet, StatusFails, StatusAnswers, Decides, Observe,
        Decide, Send, Finish, ServerRestart
<1>8. CASE \E s \in Offers : Lose(s)
    BY <1>5, <1>8 DEF Lose
<1>9. CASE UNCHANGED allVars
    BY <1>5, <1>9 DEF allVars
<1>10. QED
    BY <1>2, <1>3, <1>4, <1>6, <1>7, <1>8, <1>9 DEF ControlNext

\* Nothing new is in play, unless it is the snapshot that a request has saved.
Saves == SaveDesired \/ RefreshInherited \/ StageToken \/ RequestRemoval

LEMMA NothingNew ==
    ASSUME CInv, [ControlNext]_allVars
    PROVE  /\ wire' \subseteq wire \cup {rec.desired}
           /\ rec'.desired \in {rec.desired, desired, NoSnapshot}
           /\ desired' \in {desired, NoSnapshot} \/ (Saves /\ UNCHANGED <<wire, rec, vars>>)
<1>1. CASE Registration
    BY <1>1, RegistrationFacts DEF Register, rowVars
<1>2. CASE Saves
    BY <1>2 DEF Saves, SaveDesired, RefreshInherited, StageToken, RequestRemoval,
                coordVars
<1>3. CASE AssignClient \/ ReleaseClient \/ ForceForget
    BY <1>3 DEF AssignClient, ReleaseClient, ForceForget, DeleteRow, coordVars
<1>4. CASE CoordGet \/ StatusFails \/ StatusAnswers \/ Send \/ ServerRestart
    <2>1. CASE CoordGet
        BY <2>1 DEF CoordGet, rowVars
    <2>2. CASE StatusFails \/ ServerRestart
        <3>1. UNCHANGED <<wire, desired>>
            BY <2>2 DEF StatusFails, ServerRestart, rowVars
        <3>2. rec' = NoRecord
            BY <2>2, Zenon DEF StatusFails, ServerRestart, Returns
        <3>3. QED
            BY <3>1, <3>2 DEF NoRecord
    <2>3. CASE StatusAnswers
        BY <2>3 DEF StatusAnswers, rowVars
    <2>4. CASE Send
        BY <2>4 DEF Send, rowVars
    <2>5. QED
        BY <1>4, <2>1, <2>2, <2>3, <2>4
<1>5. CASE Observe
    BY <1>5 DEF Observe
<1>6. CASE Decide \/ Finish
    BY <1>6 DEF Decide, Finish, DeleteRow, Returns, NoRecord, rowVars
<1>7. CASE (\E s \in Offers : Deliver(s) \/ Lose(s)) \/ NodeActs
    BY <1>7 DEF Deliver, Lose, NodeActs, rowVars, coordVars
<1>8. CASE UNCHANGED allVars
    BY <1>8 DEF allVars, controlVars, rowVars, coordVars
<1>9. QED
    BY <1>1, <1>2, <1>3, <1>4, <1>5, <1>6, <1>7, <1>8
    DEF ControlNext, Requests, Coordinates, Decides, Saves

\* A saved running snapshot carries the newest token that the row then has.
LEMMA SavesNewest ==
    ASSUME CInv, Saves, desired' \in RunningOffers
    PROVE  /\ \/ desired'.token = SavedToken /\ UNCHANGED <<tokens, stagedToken>>
              \/ desired'.token = tokens + 1 /\ tokens' = tokens + 1
                 /\ stagedToken' = tokens + 1 /\ stagedToken = 0
           /\ UNCHANGED <<activeToken, lifecycle, late>> /\ lifecycle = "active"
<1>1. CASE SaveDesired
    BY <1>1, SaveFacts DEF SaveDesired, coordVars
<1>2. CASE RefreshInherited
    <2>1. desired'.token = desired.token
        BY <1>2, SaveFacts
    <2>2. desired.token = SavedToken
        BY <1>2 DEF CInv, TokenInv, SavedToken, RefreshInherited, DesiredRunning
    <2>3. QED
        BY <1>2, <2>1, <2>2 DEF RefreshInherited
<1>3. CASE StageToken
    BY <1>3, SaveFacts DEF StageToken
<1>4. CASE RequestRemoval
    <2>1. desired'.state = "disabled"
        BY <1>4 DEF RequestRemoval, Desire, NextSnapshot
    <2>2. QED
        BY <2>1 DEF RunningOffers
<1>5. QED
    BY <1>1, <1>2, <1>3, <1>4 DEF Saves

LEMMA IssuedStep ==
    ASSUME CInv, IssuedInv, [ControlNext]_allVars
    PROVE  IssuedInv'
<1>1. /\ tokens \in Nat /\ activeToken \in Nat /\ stagedToken \in Nat
      /\ \A s \in RunningOffers : s.token \in Nat \ {0} /\ s # NoSnapshot /\ s \in Offers
    BY Bounds, OfferFacts DEF CInv, ControlTypeOK, RunningOffers
<1>2. \A s \in RunningOffers : InPlay(s)' => InPlay(s) \/ s = desired'
    BY <1>1, NodeMoves, NothingNew DEF InPlay
<1>3. ASSUME desired' \in {desired, NoSnapshot}
      PROVE  \A s \in RunningOffers : InPlay(s)' => InPlay(s)
    BY <1>1, <1>2, <1>3 DEF InPlay
<1> USE <1>1 DEF IssuedInv, KnownTokens, Registered
<1>4. CASE Saves
    <2>1. ASSUME desired' \in RunningOffers PROVE IssuedInv'
        BY <1>2, <1>4, <2>1, SavesNewest DEF SavedToken
    <2>2. ASSUME desired' \notin RunningOffers PROVE IssuedInv'
        <3>1. \/ UNCHANGED <<tokens, activeToken, stagedToken>>
              \/ tokens' = tokens + 1 /\ stagedToken' = tokens + 1 /\ UNCHANGED activeToken
                 /\ stagedToken = 0
            BY <1>4 DEF Saves, SaveDesired, RefreshInherited, StageToken, RequestRemoval
        <3>2. lifecycle = "active"
            BY <1>4 DEF Saves, SaveDesired, RefreshInherited, StageToken, RequestRemoval
        <3>3. QED
            BY <1>2, <2>2, <3>1, <3>2
    <2>3. QED
        BY <2>1, <2>2
<1>5. CASE Registration
    <2>1. CASE UNCHANGED rowVars
        BY <1>3, <2>1 DEF rowVars
    <2>2. ASSUME NEW a \in Admins, Register(a) PROVE IssuedInv'
        <3>1. /\ tokens' = tokens + 1 /\ activeToken' = tokens + 1 /\ stagedToken' = 0
              /\ desired' = NoSnapshot
            BY <2>2 DEF Register
        <3>2. QED
            BY <1>3, <3>1
    <2>3. QED
        BY <1>5, <2>1, <2>2, RegistrationFacts
<1>6. CASE AssignClient \/ ReleaseClient \/ ForceForget
    BY <1>3, <1>6 DEF AssignClient, ReleaseClient, ForceForget, DeleteRow
<1>7. CASE CoordGet \/ StatusFails \/ StatusAnswers \/ Send \/ ServerRestart
    BY <1>3, <1>7 DEF CoordGet, StatusFails, StatusAnswers, Send, ServerRestart, rowVars
<1>8. CASE Observe
    BY <1>3, <1>8 DEF Observe, Promotable
<1>9. CASE Decide \/ Finish
    BY <1>3, <1>9 DEF Decide, Finish, DeleteRow, rowVars
<1>10. CASE (\E s \in Offers : Deliver(s) \/ Lose(s)) \/ NodeActs
    BY <1>3, <1>10 DEF Deliver, Lose, NodeActs, rowVars
<1>11. CASE UNCHANGED allVars
    BY <1>3, <1>11 DEF allVars, controlVars, rowVars
<1>12. QED
    BY <1>4, <1>5, <1>6, <1>7, <1>8, <1>9, <1>10, <1>11
    DEF ControlNext, Requests, Coordinates, Decides, Saves

LEMMA RecStep ==
    ASSUME CInv, RecInv, [ControlNext]_allVars
    PROVE  RecInv'
<1> USE DEF RecInv
<1>1. CASE CoordGet
    BY <1>1 DEF CInv, RoundInv, CoordGet
<1>2. CASE StatusFails \/ ServerRestart
    <2>1. rec' = NoRecord
        BY <1>2, Zenon DEF StatusFails, ServerRestart, Returns
    <2>2. QED
        BY <2>1 DEF NoRecord
<1>3. CASE StatusAnswers \/ Send
    BY <1>3 DEF StatusAnswers, Send
<1>4. CASE Observe
    BY <1>4 DEF Observe
<1>5. CASE Decide \/ Finish
    BY <1>5 DEF Decide, Finish, Returns, NoRecord
<1>6. CASE Requests
    BY <1>6, RegistrationFacts
    DEF Requests, SaveDesired, RefreshInherited, StageToken,
        RequestRemoval, AssignClient, ReleaseClient, ForceForget, coordVars
<1>7. CASE (\E s \in Offers : Deliver(s) \/ Lose(s)) \/ NodeActs
    BY <1>7 DEF Deliver, Lose, NodeActs, coordVars
<1>8. CASE UNCHANGED allVars
    BY <1>8 DEF allVars, controlVars, coordVars
<1>9. QED
    BY <1>1, <1>2, <1>3, <1>4, <1>5, <1>6, <1>7, <1>8
    DEF ControlNext, Coordinates, Decides

\* A new row that is not late itself starts with nothing under way.
LEMMA LateOnlyByRegistering ==
    ASSUME CInv, RecInv, [ControlNext]_allVars, late, ~late'
    PROVE  \A s \in RunningOffers : ~Coming(s)'
<1>1. Registration
    BY DEF ControlNext, Requests, SaveDesired, RefreshInherited, StageToken,
           RequestRemoval, AssignClient, ReleaseClient, ForceForget,
           Coordinates, CoordGet, StatusFails, StatusAnswers, Decides, Observe,
           Decide, Send, Finish, ServerRestart, Deliver, Lose, NodeActs,
           allVars, controlVars
<1>2. /\ wire' = {} /\ desired' = NoSnapshot /\ rec' = rec
      /\ ~Registered /\ pc = "idle" /\ UNCHANGED vars
    BY <1>1, RegistrationFacts DEF Register, MadeLate
<1>3. rec.desired = NoSnapshot
    BY <1>2 DEF CInv, RoundInv, RecInv
<1>4. ~Applying'
    BY <1>2 DEF Applying, StartSteps, vars
<1>5. QED
    BY <1>2, <1>3, <1>4, NoSnapshotAssumption DEF Coming, RunningOffers

LEMMA OrderStep ==
    ASSUME CInv, IssuedInv, RecInv, OrderInv, [ControlNext]_allVars
    PROVE  OrderInv'
<1>1. /\ IInv /\ IInv' /\ highest \in Nat /\ highest' \in Nat /\ desiredRevision \in Nat
      /\ tokens \in Nat /\ activeToken \in Nat /\ stagedToken \in Nat
      /\ \A s \in RunningOffers :
             s \in Offers /\ s # NoSnapshot /\ s.revision \in Nat /\ s.token \in Nat \ {0}
    BY Bounds, OfferFacts, NodeMoves, ControlStepInv
    DEF CInv, IInv, RecordInv, RecordTypeOK, ControlTypeOK, RunningOffers
<1>2. /\ lastGood # NoSnapshot => lastGood \in RunningOffers
      /\ lastGood' # NoSnapshot => lastGood' \in RunningOffers
    BY <1>1 DEF IInv, RecordInv, RecordTypeOK, Reopenable, RunningOffers
<1>3. \A s \in RunningOffers : Coming(s)' => Coming(s) \/ s = desired'
    BY <1>1, NodeMoves, NothingNew DEF Coming
<1>4. CASE late'
    BY <1>4 DEF OrderInv
<1>5. CASE late /\ ~late'
    BY <1>5, LateOnlyByRegistering DEF OrderInv
<1>6. ASSUME ~late, \A s \in RunningOffers : Coming(s)' => Coming(s) PROVE OrderInv'
    <2> SUFFICES ASSUME NEW s \in RunningOffers, Coming(s)'
                 PROVE  /\ \A t \in RunningOffers :
                               Coming(t)' /\ s.revision <= t.revision => s.token <= t.token
                        /\ lastGood' # NoSnapshot /\ s.revision >= highest' =>
                               s.token >= lastGood'.token
        BY DEF OrderInv
    <2>1. Coming(s)
        BY <1>6
    <2>2. \A t \in RunningOffers :
              Coming(t)' /\ s.revision <= t.revision => s.token <= t.token
        BY <1>6, <2>1 DEF OrderInv
    <2>3. ASSUME lastGood' # NoSnapshot, s.revision >= highest'
          PROVE  s.token >= lastGood'.token
        <3>1. s.revision >= highest
            BY <1>1, <2>3, NodeMoves
        <3>2. CASE lastGood' = lastGood
            BY <1>6, <2>1, <2>3, <3>1, <3>2 DEF OrderInv
        <3>3. CASE Applying /\ lastGood' = candidate
            <4>1. candidate \in RunningOffers /\ Coming(candidate)
                BY <1>2, <2>3, <3>3 DEF Coming
            <4>2. candidate.revision = highest
                BY <1>1, <4>1, CandidateFacts DEF IInv
            <4>3. candidate.token <= s.token
                BY <1>1, <1>6, <2>1, <3>1, <4>1, <4>2 DEF OrderInv
            <4>4. QED
                BY <1>1, <3>3, <4>1, <4>3
        <3>4. QED
            BY <2>3, <3>2, <3>3, NodeMoves
    <2>4. QED
        BY <2>2, <2>3
<1>7. CASE ~late /\ (desired' \in {desired, NoSnapshot} \/ desired' \notin RunningOffers)
    BY <1>1, <1>3, <1>6, <1>7 DEF Coming
<1>8. CASE ~late /\ desired' \notin {desired, NoSnapshot} /\ desired' \in RunningOffers
    <2>1. Saves /\ UNCHANGED <<wire, rec, vars>>
        BY <1>8, NothingNew
    <2>2. /\ desired'.revision = desiredRevision + 1
          /\ lifecycle = "active" /\ Registered
        BY <1>8, <2>1, SaveFacts, SavesNewest DEF Saves, Registered
    <2>3. UNCHANGED <<highest, lastGood, candidate, pc, task>>
        BY <2>1 DEF vars, recordVars
    <2>4. \A s \in RunningOffers : Coming(s) => s.revision <= desiredRevision
        <3> SUFFICES ASSUME NEW s \in RunningOffers, Coming(s)
                     PROVE  s.revision <= desiredRevision
            OBVIOUS
        <3>1. CASE s \in wire \cup {desired, rec.desired}
            BY <1>1, <1>8, <2>2, <3>1 DEF CInv, WireInv, RoundInv, RecInv, Offered
        <3>2. CASE s = candidate
            BY <1>1, <1>8, <2>2, <3>2, CandidateFacts DEF CInv, IInv, WireInv
        <3>3. QED
            BY <3>1, <3>2 DEF Coming
    <2>5. \A s \in RunningOffers : InPlay(s) => s.token <= desired'.token
        BY <1>1, <1>8, <2>1, <2>2, SavesNewest DEF IssuedInv, KnownTokens, SavedToken
    <2>6. \A s \in RunningOffers : Coming(s) => InPlay(s)
        BY DEF Coming, InPlay, Holds
    <2>7. lastGood # NoSnapshot => InPlay(lastGood)
        BY DEF InPlay, Holds
    <2> SUFFICES ASSUME NEW s \in RunningOffers, Coming(s)'
                 PROVE  /\ \A t \in RunningOffers :
                               Coming(t)' /\ s.revision <= t.revision => s.token <= t.token
                        /\ lastGood' # NoSnapshot /\ s.revision >= highest' =>
                               s.token >= lastGood'.token
        BY DEF OrderInv
    <2>8. CASE s = desired'
        <3>1. \A t \in RunningOffers :
                  Coming(t)' /\ s.revision <= t.revision => s.token <= t.token
            BY <1>1, <1>3, <2>2, <2>4, <2>8
        <3>2. lastGood # NoSnapshot => s.token >= lastGood.token
            BY <1>1, <1>2, <2>5, <2>7, <2>8
        <3>3. QED
            BY <2>3, <3>1, <3>2
    <2>9. CASE Coming(s)
        <3>1. \A t \in RunningOffers :
                  Coming(t)' /\ s.revision <= t.revision => s.token <= t.token
            BY <1>3, <1>8, <2>5, <2>6, <2>9 DEF OrderInv
        <3>2. QED
            BY <1>8, <2>3, <2>9, <3>1 DEF OrderInv
    <2>10. QED
        BY <1>3, <2>8, <2>9
<1>9. QED
    BY <1>4, <1>5, <1>7, <1>8

-----------------------------------------------------------------------------

LEMMA TokensInvariance == ControlSpec => [](CInv /\ IssuedInv /\ RecInv /\ OrderInv)
<1>1. ControlInit => IssuedInv /\ RecInv /\ OrderInv
    <2> SUFFICES ASSUME ControlInit PROVE IssuedInv /\ RecInv /\ OrderInv
        OBVIOUS
    <2>1. \A s \in RunningOffers : s # NoSnapshot /\ s \in Offers
        BY NoSnapshotAssumption DEF RunningOffers
    <2>2. rec.desired = NoSnapshot
        BY DEF ControlInit, NoRecord
    <2>3. \A s \in RunningOffers : ~InPlay(s)
        BY <2>1, <2>2 DEF ControlInit, Init, RecordInit, InPlay, Holds
    <2>4. \A s \in RunningOffers : ~Coming(s)
        BY <2>3 DEF Coming, InPlay, Holds
    <2>5. QED
        BY <2>2, <2>3, <2>4 DEF ControlInit, IssuedInv, KnownTokens, RecInv, OrderInv
<1>2. CInv /\ IssuedInv /\ RecInv /\ OrderInv /\ [ControlNext]_allVars =>
          IssuedInv' /\ RecInv' /\ OrderInv'
    BY IssuedStep, RecStep, OrderStep
<1>3. QED
    BY <1>1, <1>2, ControlInitInv, ControlStepInv, PTL DEF ControlSpec

(***************************************************************************)
(* No rotation, promotion, removal or re-registration leaves a snapshot in *)
(* play whose token the row does not account for.                          *)
(***************************************************************************)
THEOREM NoTokenIsForgotten == ControlSpec => []KnownTokens
<1>1. IssuedInv => KnownTokens
    BY DEF IssuedInv
<1>2. QED
    BY <1>1, TokensInvariance, PTL

(***************************************************************************)
(* A withdrawn token is withdrawn: no late or repeated commit, no restart  *)
(* and no rollback makes it the last good one again.                       *)
(***************************************************************************)
THEOREM NoWayBack == ControlSpec => TokensOnlyAdvance
<1>1. ASSUME CInv, IssuedInv, RecInv, OrderInv, [ControlNext]_allVars,
             ~late, lastGood # NoSnapshot, lastGood' # NoSnapshot
      PROVE  lastGood'.token >= lastGood.token
    <2>1. /\ lastGood \in RunningOffers /\ lastGood' \in RunningOffers
          /\ highest \in Nat /\ IInv
          /\ \A s \in RunningOffers : s.token \in Nat
        <3>1. IInv /\ IInv'
            BY <1>1, ControlStepInv DEF CInv
        <3>2. QED
            BY <1>1, <3>1, Bounds, OfferFacts
            DEF IInv, RecordInv, RecordTypeOK, Reopenable, RunningOffers
    <2>2. CASE lastGood' = lastGood
        BY <2>1, <2>2
    <2>3. CASE Applying /\ lastGood' = candidate
        <3>1. candidate \in RunningOffers /\ Coming(candidate) /\ candidate # NoSnapshot
            BY <1>1, <2>1, <2>3 DEF Coming
        <3>2. candidate.revision = highest
            BY <2>1, <3>1, CandidateFacts DEF IInv
        <3>3. QED
            BY <1>1, <2>1, <2>3, <3>1, <3>2 DEF OrderInv
    <2>4. QED
        BY <1>1, <2>2, <2>3, NodeMoves
<1>2. CInv /\ IssuedInv /\ RecInv /\ OrderInv /\ [ControlNext]_allVars =>
          [~late /\ ~late' /\ lastGood # NoSnapshot /\ lastGood' # NoSnapshot
               => lastGood'.token >= lastGood.token]_allVars
    BY <1>1
<1>3. QED
    BY <1>2, TokensInvariance, PTL DEF ControlSpec, TokensOnlyAdvance

-----------------------------------------------------------------------------
(* What a round achieves, and what a removal has achieved *)

(***************************************************************************)
(* The coordinator passes over a Node only when the Node has the snapshot  *)
(* that is wanted and has begun or ended to decide it, although the status *)
(* it goes by is old.  (The safety core of DesiredIsDecided: no round that *)
(* is needed is left out.  Not said of a row made by a mark that was passed *)
(* since, or with commits of an earlier registration under way.)           *)
(***************************************************************************)
PassedOverHasIt ==
    [][/\ Decide /\ step' = "rest" /\ Registered'
       /\ rec.desired # NoSnapshot /\ rec.revision = desiredRevision /\ ~late
       => candidate = desired /\ seen.phase \notin {"accepted", "switching"}]_allVars

\* A round that sends nothing had nothing to send, old as its status may be.
THEOREM RoundsAreNotSkipped == ControlSpec => PassedOverHasIt
<1>1. ASSUME CInv, RecInv, Decide, step' = "rest", Registered',
             rec.desired # NoSnapshot, rec.revision = desiredRevision, ~late
      PROVE  candidate = desired /\ seen.phase \notin {"accepted", "switching"}
    <2>1. step = "decide" /\ Registered
        BY <1>1 DEF Decide, CInv, RoundInv
    <2>2. ~NeedsSnapshot
        BY <1>1 DEF Decide, DeleteRow, Registered
    <2>3. desired = rec.desired
        <3>1. rec.desired.revision = desiredRevision /\ desiredRevision \in Nat
            BY <1>1, Bounds DEF RecInv, CInv, ControlTypeOK
        <3>2. QED
            BY <1>1, <2>1, <3>1 DEF CInv, WireInv, Offered
    <2>4. /\ seen.highest \in Nat /\ seen.highest <= highest
          /\ seen.highest = highest => seen.document = candidate
        BY <1>1, <2>1 DEF CInv, SeenInv, SeenSteps
    <2>5. highest \in Nat /\ desiredRevision \in Nat /\ highest <= desiredRevision
        BY <1>1, <2>1, Bounds DEF CInv, WireInv, IInv, RecordInv, RecordTypeOK,
                                  ControlTypeOK
    <2>6. seen.highest = highest /\ highest = desiredRevision
        BY <1>1, <2>2, <2>4, <2>5 DEF NeedsSnapshot
    <2>7. candidate = desired
        BY <1>1, <2>1, <2>3, <2>6 DEF CInv, WireInv
    <2>8. QED
        BY <1>1, <2>2, <2>3, <2>4, <2>6, <2>7 DEF NeedsSnapshot
<1>2. CInv /\ RecInv /\ [ControlNext]_allVars =>
          [/\ Decide /\ step' = "rest" /\ Registered'
           /\ rec.desired # NoSnapshot /\ rec.revision = desiredRevision /\ ~late
           => candidate = desired /\ seen.phase \notin {"accepted", "switching"}]_allVars
    BY <1>1
<1>3. QED
    BY <1>2, TokensInvariance, PTL DEF ControlSpec, PassedOverHasIt

(***************************************************************************)
(* End to end: where stops succeed and files can be handled, a Node that   *)
(* its Controller has removed runs no FRPS, not even one that an earlier   *)
(* run of the Node left and recorded, and keeps no file with a token.  (A  *)
(* row that was made late is excepted, as in RemovedStaysDown.)            *)
(***************************************************************************)
RemovedIsClean == lifecycle = "removed" /\ ~late => ~Alive(owner) /\ files = {}

\* What the Node promises of a completed disable is what a removal has achieved.
THEOREM RemovalLeavesNothing ==
    ASSUME "stop" \notin Faults, "files" \notin Faults
    PROVE  ControlSpec => []RemovedIsClean
<1>1. DisabledIsClean /\ RemovedStaysDown => RemovedIsClean
    BY DEF DisabledIsClean, RemovedStaysDown, RemovedIsClean
<1>2. ControlSpec => []DisabledIsClean
    BY ControlRunsNode, CompletedDisableIsClean
<1>3. QED
    BY <1>1, <1>2, RemovedForGood, PTL
=============================================================================
