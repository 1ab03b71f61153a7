---------------------------- MODULE NodeControl ----------------------------
(***************************************************************************)
(* A Controller (the tunnel Server, pkg/cmd/tunnel/server) managing one    *)
(* remote Node: its durable record of the Node, the requests that change   *)
(* it, the coordinator that carries the desired snapshot to the Node, and  *)
(* the network in between.  The Node is NodeRuntime, unabridged.           *)
(*                                                                         *)
(* A request is one SQLite transaction and therefore one step; requests    *)
(* fall between any two steps of the coordinator, except Force Forget,     *)
(* which takes the coordinator's lifecycleMu.  A commit that the           *)
(* coordinator has given up (the HTTP client waits 10 s) may still reach   *)
(* the Node, late; the Node's death loses what was on its way to it.       *)
(***************************************************************************)
EXTENDS NodeRuntime, Integers, FiniteSets

CONSTANTS
    Admins,        \* bound: the registration requests under way at once
    MaxRevision,   \* bound: the highest revision the Controller saves
    MaxToken,      \* bound: how many FRP tokens it generates
    MaxCommits,    \* bound: how many commits are under way at once
    MaxRestarts    \* bound: how often the Server restarts during a round

ASSUME MaxRevisionAssumption == MaxRevision \in Nat \ {0}
ASSUME MaxTokenAssumption == MaxToken \in Nat \ {0}
ASSUME MaxCommitsAssumption == MaxCommits \in Nat \ {0}
ASSUME MaxRestartsAssumption == MaxRestarts \in Nat

(***************************************************************************)
(* A token is the number of its generation, so that two are never equal;   *)
(* 0 is the absent one.  Of the settings only the token is kept.           *)
(***************************************************************************)
Snapshots ==
    [revision : 1..MaxRevision, state : {"running"}, token : 1..MaxToken]
      \cup [revision : 1..MaxRevision, state : {"disabled"}, token : {0}]

ASSUME OffersAreSnapshots == Offers = Snapshots

VARIABLES
    lifecycle,       \* nodes.lifecycle, or why there is no such row
    desiredRevision, \* remote_nodes.desired_revision
    desired,         \* desired_snapshot (and desired_hash)
    activeToken,     \* active_token, the one Clients are given
    stagedToken,     \* staged_token
    stagedRevision,  \* staged_token_revision
    tokens,          \* how many tokens have been generated
    assigned,        \* a Client is assigned to the Node or pending on it
    fault,           \* the last observation is a fresh failure
    step,            \* the next step of the coordinator on this Node
    rec,             \* the record it read
    seen,            \* the status it read
    restarts,        \* how often the Server has restarted
    mark,            \* per registration request: the high-water mark it goes by
    wire,            \* snapshots on their way to the Node
    late             \* history: an earlier registration can still disturb the row

rowVars == <<lifecycle, desiredRevision, desired, activeToken, stagedToken,
             stagedRevision, tokens, assigned>>
coordVars == <<fault, step, rec, seen, restarts>>
controlVars == <<rowVars, coordVars, mark, wire, late>>
allVars == <<vars, controlVars>>

Registered == lifecycle \in {"active", "removing"}

NoRecord == [removing |-> FALSE, revision |-> 0, desired |-> NoSnapshot]
NoStatus == [document |-> NoSnapshot]
NoMark == -1

ControlTypeOK ==
    /\ lifecycle \in {"none", "active", "removing", "removed", "forgotten"}
    /\ desiredRevision \in 0..MaxRevision
    /\ desired \in Offers \cup {NoSnapshot}
    /\ activeToken \in 0..MaxToken
    /\ stagedToken \in 0..MaxToken
    /\ stagedRevision \in 0..MaxRevision
    /\ tokens \in 0..MaxToken
    /\ assigned \in BOOLEAN
    /\ fault \in BOOLEAN
    /\ step \in {"rest", "status", "observe", "decide", "send", "statusAgain",
                 "observeAgain", "finish"}
    /\ rec.desired \in Offers \cup {NoSnapshot}
    /\ rec.revision \in 0..MaxRevision
    /\ seen.document \in Offers \cup {NoSnapshot}
    /\ restarts \in 0..MaxRestarts
    /\ mark \in [Admins -> {NoMark} \cup 0..MaxRevision]
    /\ wire \subseteq Offers
    /\ late \in BOOLEAN

ControlInit ==
    /\ Init
    /\ lifecycle = "none"
    /\ desiredRevision = 0
    /\ desired = NoSnapshot
    /\ activeToken = 0
    /\ stagedToken = 0
    /\ stagedRevision = 0
    /\ tokens = 0
    /\ assigned = FALSE
    /\ fault = FALSE
    /\ step = "rest"
    /\ rec = NoRecord
    /\ seen = NoStatus
    /\ restarts = 0
    /\ mark = [a \in Admins |-> NoMark]
    /\ wire = {}
    /\ late = FALSE

-----------------------------------------------------------------------------
(* Registration: the Node is asked first, the row is made later *)

\* The Node is claimed: it holds no snapshot yet, the mark is 0.
ClaimNode(a) ==
    /\ mark[a] = NoMark
    /\ Claim
    /\ mark' = [mark EXCEPT ![a] = 0]
    /\ UNCHANGED <<rowVars, coordVars, wire, late>>

\* The management handler and processState each take their mutex.
Answers == pc = "idle" /\ bound /\ tracking = NoPid

\* A Node that this Controller claimed before, registered still or no longer.
ReadHighest(a) ==
    /\ mark[a] = NoMark
    /\ Answers
    /\ mark' = [mark EXCEPT ![a] = highest]
    /\ UNCHANGED <<rowVars, coordVars, wire, late, vars>>

\* What an earlier registration sent is on its way, or has arrived since the
\* mark was read, or (as that one was late already) is being applied.
MadeLate(a) == wire # {} \/ highest # mark[a] \/ (late /\ pc # "idle")

RegisterFromZeroBug(a) ==
    /\ mark[a] # NoMark /\ ~Registered /\ tokens < MaxToken
    /\ lifecycle' = "active"
    /\ desiredRevision' = 0
    /\ desired' = NoSnapshot
    /\ tokens' = tokens + 1 /\ activeToken' = tokens + 1
    /\ stagedToken' = 0 /\ stagedRevision' = 0
    /\ assigned' = FALSE /\ fault' = FALSE
    /\ mark' = [mark EXCEPT ![a] = NoMark]
    /\ late' = MadeLate(a)
    /\ UNCHANGED <<step, restarts, rec, seen, wire, vars>>

(***************************************************************************)
(* registry.register: a new row, with a token of its own, from the mark    *)
(* the request goes by.  By now the Node may hold a higher revision, or a  *)
(* commit of an earlier registration may still be on its way there: the    *)
(* code does not notice, and late (a history variable) remembers it.       *)
(***************************************************************************)
Register(a) ==
    /\ mark[a] # NoMark
    /\ ~Registered
    /\ tokens < MaxToken
    /\ lifecycle' = "active"
    /\ desiredRevision' = mark[a]
    /\ desired' = NoSnapshot
    /\ tokens' = tokens + 1
    /\ activeToken' = tokens + 1
    /\ stagedToken' = 0
    /\ stagedRevision' = 0
    /\ assigned' = FALSE
    /\ fault' = FALSE
    /\ mark' = [mark EXCEPT ![a] = NoMark]
    /\ late' = MadeLate(a)
    /\ UNCHANGED <<step, restarts, rec, seen, wire, vars>>

\* NODE_ALREADY_REGISTERED, or no answer of the Node or the store.
RegistrationFails(a) ==
    /\ mark[a] # NoMark
    /\ mark' = [mark EXCEPT ![a] = NoMark]
    /\ UNCHANGED <<rowVars, coordVars, wire, late, vars>>

-----------------------------------------------------------------------------
(* Requests, each one transaction *)

Desire(snapshot) ==
    /\ desiredRevision < MaxRevision
    /\ desiredRevision' = desiredRevision + 1
    /\ desired' = snapshot

NextSnapshot(state, token) ==
    [revision |-> desiredRevision + 1, state |-> state, token |-> token]

SaveActiveTokenBug ==
    /\ lifecycle = "active"
    /\ Desire(NextSnapshot("running", activeToken))
    /\ stagedRevision' = IF stagedToken # 0 THEN desiredRevision + 1 ELSE stagedRevision
    /\ UNCHANGED <<lifecycle, activeToken, stagedToken, tokens, assigned,
                   coordVars, mark, wire, late, vars>>

\* saveDesired, whose expectedRevision makes what the request read and what the
\* transaction reads one; reapply saves the settings that are there already.
SaveDesired ==
    /\ lifecycle = "active"
    /\ Desire(NextSnapshot("running", IF stagedToken # 0 THEN stagedToken ELSE activeToken))
    /\ stagedRevision' = IF stagedToken # 0 THEN desiredRevision + 1 ELSE stagedRevision
    /\ UNCHANGED <<lifecycle, activeToken, stagedToken, tokens, assigned,
                   coordVars, mark, wire, late, vars>>

DesiredRunning ==
    /\ desired # NoSnapshot
    /\ desired.state = "running"
    /\ desired.revision = desiredRevision

\* refreshInherited, before each round: the global 404 page has changed.
RefreshInherited ==
    /\ lifecycle = "active" /\ DesiredRunning /\ step = "rest"
    /\ Desire(NextSnapshot("running", desired.token))
    /\ stagedRevision' = IF stagedRevision # 0 THEN desiredRevision + 1 ELSE 0
    /\ UNCHANGED <<lifecycle, activeToken, stagedToken, tokens, assigned,
                   coordVars, mark, wire, late, vars>>

\* stageTokenRotation
StageToken ==
    /\ lifecycle = "active" /\ stagedToken = 0 /\ DesiredRunning
    /\ tokens < MaxToken
    /\ tokens' = tokens + 1
    /\ stagedToken' = tokens + 1
    /\ stagedRevision' = desiredRevision + 1
    /\ Desire(NextSnapshot("running", tokens + 1))
    /\ UNCHANGED <<lifecycle, activeToken, assigned, coordVars, mark, wire, late, vars>>

\* requestNodeRemoval
RequestRemoval ==
    /\ lifecycle = "active" /\ ~assigned
    /\ lifecycle' = "removing"
    /\ Desire(NextSnapshot("disabled", 0))
    /\ UNCHANGED <<activeToken, stagedToken, stagedRevision, tokens, assigned,
                   coordVars, mark, wire, late, vars>>

\* AssignClientNode to this Node, now or pending; and away from it.
AssignClient ==
    /\ lifecycle = "active" /\ ~assigned
    /\ assigned' = TRUE
    /\ UNCHANGED <<lifecycle, desiredRevision, desired, activeToken, stagedToken,
                   stagedRevision, tokens, coordVars, mark, wire, late, vars>>

ReleaseClient ==
    /\ assigned
    /\ assigned' = FALSE
    /\ UNCHANGED <<lifecycle, desiredRevision, desired, activeToken, stagedToken,
                   stagedRevision, tokens, coordVars, mark, wire, late, vars>>

\* The row goes, and all that hangs on it.
DeleteRow(why) ==
    /\ lifecycle' = why
    /\ desiredRevision' = 0
    /\ desired' = NoSnapshot
    /\ activeToken' = 0
    /\ stagedToken' = 0
    /\ stagedRevision' = 0
    /\ UNCHANGED <<tokens, assigned>>

\* forceForget, under lifecycleMu
ForceForget ==
    /\ step = "rest"
    /\ Registered /\ ~assigned
    /\ lifecycle = "removing" \/ fault
    /\ DeleteRow("forgotten")
    /\ fault' = FALSE
    /\ UNCHANGED <<step, restarts, rec, seen, mark, wire, late, vars>>

-----------------------------------------------------------------------------
(* The coordinator: reconcileNode, under lifecycleMu from its first step to  *)
(* its last.  Its record and its status grow old while it waits.             *)

CoordGet ==
    /\ step = "rest" /\ Registered
    /\ rec' = [removing |-> lifecycle = "removing", revision |-> desiredRevision,
               desired |-> desired]
    /\ step' = "status"
    /\ UNCHANGED <<fault, restarts, seen, rowVars, mark, wire, late, vars>>

\* reconcileNode returns, and with it go its record and its status.
Returns ==
    /\ step' = "rest"
    /\ rec' = NoRecord
    /\ seen' = NoStatus

\* No answer in time, or not the answer of this Node.
StatusFails ==
    /\ step \in {"status", "statusAgain"}
    /\ Returns
    /\ fault' = IF step = "status" THEN TRUE ELSE fault
    /\ UNCHANGED <<restarts, rowVars, mark, wire, late, vars>>

StatusAnswers ==
    /\ step \in {"status", "statusAgain"}
    /\ Answers
    /\ seen' = Status
    /\ step' = IF step = "status" THEN "observe" ELSE "observeAgain"
    /\ UNCHANGED <<fault, restarts, rec, rowVars, mark, wire, late, vars>>

PromotableStaleStatusBug ==
    /\ stagedToken # 0
    /\ seen.phase = "applied"
    /\ seen.applied = seen.highest
    /\ DesiredRunning /\ desired.token = stagedToken

\* promoteTokenRotation: exactly the staged snapshot is what the Node applied.
Promotable ==
    /\ stagedToken # 0
    /\ seen.phase = "applied"
    /\ seen.highest = desiredRevision /\ seen.applied = desiredRevision
    /\ seen.document = desired
    /\ stagedRevision = desiredRevision
    /\ DesiredRunning /\ desired.token = stagedToken

\* observeNodeStatus; a row that is gone cannot be promoted.
Observe ==
    /\ step \in {"observe", "observeAgain"}
    /\ fault' = FALSE
    /\ IF Promotable
         THEN /\ activeToken' = stagedToken
              /\ stagedToken' = 0
              /\ stagedRevision' = 0
         ELSE UNCHANGED <<activeToken, stagedToken, stagedRevision>>
    /\ step' = IF step = "observe" THEN "decide" ELSE "finish"
    /\ UNCHANGED <<restarts, lifecycle, desiredRevision, desired, tokens, assigned, rec,
                   seen, mark, wire, late, vars>>

ConfirmsWithoutCompleteBug ==
    /\ seen.highest = rec.revision /\ seen.document = rec.desired
    /\ seen.process = "stopped" /\ seen.failure = "none"
    /\ ~seen.recoveryError

\* What finishNodeRemoval asks of the status.
Confirms ==
    /\ seen.highest = rec.revision /\ seen.applied = rec.revision
    /\ seen.document = rec.desired
    /\ seen.phase = "disabled"
    /\ seen.bootDisabled /\ seen.disabledComplete
    /\ seen.process = "stopped" /\ seen.failure = "none"
    /\ ~seen.recoveryError

RemovableOnlyAfterSendBug ==
    /\ step = "finish"
    /\ rec.removing /\ Confirms
    /\ lifecycle = "removing"
    /\ desiredRevision = rec.revision /\ desired = rec.desired
    /\ ~assigned

\* ... and, again, of the row, in the transaction that deletes it.
Removable ==
    /\ rec.removing /\ Confirms
    /\ lifecycle = "removing"
    /\ desiredRevision = rec.revision /\ desired = rec.desired
    /\ ~assigned

NeedsSnapshotOffByOneBug ==
    \/ seen.highest + 1 < rec.revision
    \/ /\ seen.highest = rec.revision /\ seen.document = rec.desired
       /\ seen.phase \in {"accepted", "switching"}

\* Whether the Node lacks the snapshot, or has accepted it and not decided.
NeedsSnapshot ==
    \/ seen.highest < rec.revision
    \/ /\ seen.highest = rec.revision /\ seen.document = rec.desired
       /\ seen.phase \in {"accepted", "switching"}

Decide ==
    /\ step = "decide"
    /\ \/ /\ rec.desired # NoSnapshot /\ Removable
          /\ DeleteRow("removed")
          /\ Returns
       \/ /\ rec.desired # NoSnapshot /\ ~Removable /\ NeedsSnapshot
          /\ step' = "send"
          /\ seen' = NoStatus
          /\ UNCHANGED <<rec, rowVars>>
       \/ /\ rec.desired = NoSnapshot \/ (~Removable /\ ~NeedsSnapshot)
          /\ Returns
          /\ UNCHANGED rowVars
    /\ UNCHANGED <<fault, restarts, mark, wire, late, vars>>

\* applySnapshot, up to its commit; what it returns is not looked at.
Send ==
    /\ step = "send"
    /\ Cardinality(wire \cup {rec.desired}) <= MaxCommits
    /\ wire' = IF pc = "down" THEN wire ELSE wire \cup {rec.desired}
    /\ step' = "statusAgain"
    /\ UNCHANGED <<fault, restarts, rec, seen, rowVars, mark, late, vars>>

Finish ==
    /\ step = "finish"
    /\ IF Removable THEN DeleteRow("removed") ELSE UNCHANGED rowVars
    /\ Returns
    /\ UNCHANGED <<fault, restarts, mark, wire, late, vars>>

\* The Server dies and starts again: observations are no longer fresh.
ServerRestart ==
    /\ step # "rest"
    /\ restarts < MaxRestarts
    /\ restarts' = restarts + 1
    /\ Returns
    /\ fault' = FALSE
    /\ mark' = [a \in Admins |-> NoMark]
    /\ UNCHANGED <<rowVars, wire, late, vars>>

-----------------------------------------------------------------------------
(* The network and the Node *)

Deliver(s) ==
    /\ s \in wire
    /\ Receive(s)
    /\ wire' = wire \ {s}
    /\ UNCHANGED <<rowVars, coordVars, mark, late>>

\* The commit does not arrive, or the Node refuses it as stale or conflicting.
Lose(s) ==
    /\ s \in wire
    /\ wire' = wire \ {s}
    /\ UNCHANGED <<rowVars, coordVars, mark, late, vars>>

NodeActs ==
    /\ LocalNext
    /\ wire' = IF pc' = "down" THEN {} ELSE wire
    /\ UNCHANGED <<rowVars, coordVars, mark, late>>

Registration ==
    \E a \in Admins :
        ClaimNode(a) \/ ReadHighest(a) \/ Register(a) \/ RegistrationFails(a)

Requests ==
    \/ Registration
    \/ SaveDesired
    \/ RefreshInherited
    \/ StageToken
    \/ RequestRemoval
    \/ AssignClient
    \/ ReleaseClient
    \/ ForceForget

Decides == Observe \/ Decide \/ Send \/ Finish

Coordinates == CoordGet \/ StatusFails \/ StatusAnswers \/ Decides \/ ServerRestart

ControlNext ==
    \/ Requests
    \/ Coordinates
    \/ \E s \in Offers : Deliver(s) \/ Lose(s)
    \/ NodeActs

ControlSpec == ControlInit /\ [][ControlNext]_allVars

(***************************************************************************)
(* The ticker wakes the coordinator; asked again and again, the Node       *)
(* answers and a commit arrives.  Nothing is assumed of the requests.      *)
(***************************************************************************)
ControlFairness ==
    /\ Fairness
    /\ WF_allVars(CoordGet)
    /\ SF_allVars(StatusAnswers)
    /\ WF_allVars(Decides)
    /\ SF_allVars(\E s \in Offers : Deliver(s))

FairControlSpec == ControlSpec /\ ControlFairness

-----------------------------------------------------------------------------
(* Properties *)

(***************************************************************************)
(* The snapshot that is sent carries the token that will be in force once  *)
(* it is applied: the staged one while a rotation is pending, in whatever  *)
(* order saves, refreshes, rotations and promotions come.  Otherwise the   *)
(* Node would serve a token no Client is ever given.                       *)
(***************************************************************************)
TokenInService ==
    lifecycle = "active" /\ desired # NoSnapshot =>
        IF stagedToken = 0
          THEN desired.token = activeToken
          ELSE desired.token = stagedToken /\ stagedRevision = desiredRevision

(***************************************************************************)
(* Clients are given a new token only when the Node has it as its last     *)
(* good configuration, though the status that says so is old by then, and  *)
(* requests and other commits may have come since.  (The late commit of an *)
(* earlier registration can come between: it is nobody's desired document, *)
(* but its revision may be the highest.)                                   *)
(***************************************************************************)
PromotedTokenIsServed ==
    [][Observe /\ activeToken' # activeToken /\ ~late => lastGood = desired]_allVars

(***************************************************************************)
(* A Node whose row was removed in the normal way is durably disabled and  *)
(* stays so: no commit still under way, and no crash of the Node, brings   *)
(* its FRPS back as long as nobody registers it again.  (A commit of an    *)
(* earlier, forgotten registration may: its revision can be higher.)       *)
(***************************************************************************)
RemovedStaysDown ==
    lifecycle = "removed" /\ ~late =>
        disabledComplete /\ bootDisabled /\ child = NoPid /\ ~retry

(***************************************************************************)
(* The Node never holds another document under the revision the Controller *)
(* wants: the coordinator would skip the Node for ever.  A re-added Node    *)
(* therefore starts at its high-water mark.  What an earlier registration  *)
(* left under way defeats that when it is still under way as the row is    *)
(* made, or arrived since the mark was read: late.                         *)
(***************************************************************************)
NoRevisionConflict ==
    Registered /\ ~late /\ desired # NoSnapshot /\ highest = desiredRevision =>
        candidate = desired

(***************************************************************************)
(* What the Controller saves reaches the Node and is decided there, unless *)
(* it is superseded.  Lost commits, late ones of snapshots superseded in   *)
(* this registration, unanswered status requests, and crashes of either    *)
(* side only delay it.  (A row made by an old mark, or with commits of an  *)
(* earlier registration under way, may be in conflict with the Node.)      *)
(***************************************************************************)
DesiredIsDecided ==
    <>[][desired' = desired]_allVars =>
        []<>(\/ ~Registered \/ desired = NoSnapshot \/ ownerUnknown \/ late
             \/ candidate = desired /\ phase \notin {"accepted", "switching", "disabling"})

(***************************************************************************)
(* server_node_removal.go:19-21: requestNodeRemoval "records the durable   *)
(* removal intent and its disabled snapshot in one transaction.  The       *)
(* coordinator will apply that snapshot in a later slice after the         *)
(* lifecycle/API contract is wired."                                       *)
(***************************************************************************)
RemovalCompletes ==
    lifecycle = "removing" ~> (lifecycle # "removing" \/ ownerUnknown)

(***************************************************************************)
(* A requested removal goes through, whatever is lost, unanswered or late, *)
(* and whatever was saved, rotated or registered again before; only a Node *)
(* that died between accepting the disabled snapshot and recording that    *)
(* stops it, and the snapshot is then what it waits with.  (Rows made late *)
(* are excepted, as above.)                                                *)
(***************************************************************************)
RemovalAdvances ==
    lifecycle = "removing" ~>
        \/ lifecycle # "removing" \/ ownerUnknown \/ late
        \/ phase = "interrupted" /\ candidate = desired
=============================================================================
