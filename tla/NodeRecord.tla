----------------------------- MODULE NodeRecord -----------------------------
(***************************************************************************)
(* The durable runtime record of a tunnel Node (pkg/cmd/tunnel/node): the  *)
(* one row of runtime_state in node.sqlite and the writes that             *)
(* runtime_state_v1.go makes to it, one transaction each.  The owner       *)
(* columns, which name an FRPS process, are in NodeRuntime.                *)
(*                                                                         *)
(* RecordSpec is the protocol a Node promises its Controller through that  *)
(* row: which write may follow which.  NodeRuntime, which has the          *)
(* processes, the steps between two writes and the crashes, implements it. *)
(***************************************************************************)
EXTENDS Naturals

CONSTANTS
    Offers,       \* the snapshots a Controller may ever send to this Node
    NoSnapshot    \* the NULL of the candidate and last_good columns

(***************************************************************************)
(* A snapshot is its decoded contents.  SHA-256 is taken to be injective,  *)
(* so a snapshot also stands for its digest and for the path               *)
(* frps-<digest>.toml of the configuration rendered from it: body is what  *)
(* distinguishes two documents of one revision.  A disabled snapshot has   *)
(* no configuration.                                                       *)
(***************************************************************************)
IsSnapshot(s) ==
    /\ s.revision \in Nat \ {0}
    /\ s.state \in {"running", "disabled"}

ASSUME OffersAssumption == \A s \in Offers : IsSnapshot(s)
ASSUME NoSnapshotAssumption == NoSnapshot \notin Offers

Phases == {"idle", "accepted", "switching", "applied", "disabling",
           "disabled", "failed", "interrupted"}
Failures == {"NODE_CONFIG_REJECTED", "NODE_APPLY_FAILED",
             "NODE_ROLLBACK_FAILED"}

VARIABLES
    highest,           \* highest_revision
    candidate,         \* candidate (and, through it, highest_digest)
    phase,             \* phase
    failure,           \* failure_code, "none" when it is empty
    applied,           \* applied_revision
    lastGood,          \* last_good
    bootDisabled,      \* boot_disabled
    disabledComplete   \* disabled_complete

recordVars == <<highest, candidate, phase, failure, applied, lastGood,
                bootDisabled, disabledComplete>>

RecordTypeOK ==
    /\ highest \in Nat
    /\ candidate \in Offers \cup {NoSnapshot}
    /\ phase \in Phases
    /\ failure \in Failures \cup {"none"}
    /\ applied \in Nat
    /\ lastGood \in Offers \cup {NoSnapshot}
    /\ bootDisabled \in BOOLEAN
    /\ disabledComplete \in BOOLEAN

\* initializeNodeV1Identity: the row a new state directory starts with.
RecordInit ==
    /\ highest = 0
    /\ candidate = NoSnapshot
    /\ phase = "idle"
    /\ failure = "none"
    /\ applied = 0
    /\ lastGood = NoSnapshot
    /\ bootDisabled = FALSE
    /\ disabledComplete = FALSE

-----------------------------------------------------------------------------
(* The writes of runtime_state_v1.go.  A definition named ...Bug is not part *)
(* of the model: it is the mutation that a property below must catch.       *)

\* errSnapshotStale and errSnapshotConflict
Stale(s)    == s.revision < highest
Conflict(s) == s.revision = highest /\ s # candidate

AcceptKeepsCompleteBug(s) ==
    /\ s.revision > highest
    /\ highest' = s.revision
    /\ candidate' = s
    /\ phase' = "accepted"
    /\ failure' = "none"
    /\ UNCHANGED <<applied, lastGood, bootDisabled, disabledComplete>>

\* acceptNodeV1Candidate: an older or a conflicting snapshot is refused, the
\* current one is confirmed, and neither changes the row.
Accept(s) ==
    /\ s.revision > highest
    /\ highest' = s.revision
    /\ candidate' = s
    /\ phase' = "accepted"
    /\ failure' = "none"
    /\ disabledComplete' = FALSE
    /\ UNCHANGED <<applied, lastGood, bootDisabled>>

\* setNodeV1Phase
SetPhase(p, f) ==
    /\ phase' = p
    /\ failure' = f
    /\ UNCHANGED <<highest, candidate, applied, lastGood, bootDisabled,
                   disabledComplete>>

\* markNodeV1RunningApplied; an empty candidate is an error that writes nothing.
MarkRunningApplied ==
    /\ candidate # NoSnapshot
    /\ lastGood' = candidate
    /\ applied' = highest
    /\ phase' = "applied"
    /\ failure' = "none"
    /\ bootDisabled' = FALSE
    /\ disabledComplete' = FALSE
    /\ UNCHANGED <<highest, candidate>>

\* markNodeV1Disabling
MarkDisabling ==
    /\ bootDisabled' = TRUE
    /\ disabledComplete' = FALSE
    /\ phase' = "disabling"
    /\ failure' = "none"
    /\ UNCHANGED <<highest, candidate, applied, lastGood>>

MarkDisabledKeepsLastGoodBug ==
    /\ applied' = highest
    /\ phase' = "disabled"
    /\ disabledComplete' = TRUE
    /\ failure' = "none"
    /\ UNCHANGED <<highest, candidate, lastGood, bootDisabled>>

\* markNodeV1Disabled
MarkDisabled ==
    /\ lastGood' = NoSnapshot
    /\ applied' = highest
    /\ phase' = "disabled"
    /\ disabledComplete' = TRUE
    /\ failure' = "none"
    /\ UNCHANGED <<highest, candidate, bootDisabled>>

-----------------------------------------------------------------------------
(* The protocol: when a Node makes each of those writes. *)

Undecided == phase \in {"accepted", "interrupted"}

\* A disabled snapshot has been accepted and its completion is not recorded.
DisablePending ==
    bootDisabled /\ ~disabledComplete /\ candidate.state = "disabled"

BeginSwitch == Undecided /\ candidate.state = "running" /\ SetPhase("switching", "none")

FinishSwitch == phase = "switching" /\ candidate.state = "running" /\ MarkRunningApplied

BeginDisable == Undecided /\ candidate.state = "disabled" /\ MarkDisabling

FinishDisable == DisablePending /\ MarkDisabled

\* A candidate is given up only with a reason, and never once it is applied.
GiveUp ==
    /\ phase \in {"accepted", "interrupted", "switching", "disabling"}
    /\ \E f \in Failures : SetPhase("failed", f)

\* Only a restarting Node interrupts: what it finds half done, or a running
\* candidate that must not start because the Node was disabled before it.
Interrupt ==
    /\ \/ phase \in {"accepted", "switching"} /\ ~bootDisabled
       \/ bootDisabled /\ ~disabledComplete /\ candidate.state = "running"
    /\ SetPhase("interrupted", "none")

RecordNext ==
    \/ \E s \in Offers : Accept(s)
    \/ BeginSwitch
    \/ FinishSwitch
    \/ BeginDisable
    \/ FinishDisable
    \/ GiveUp
    \/ Interrupt

RecordSpec == RecordInit /\ [][RecordNext]_recordVars

-----------------------------------------------------------------------------
(* Properties *)

(***************************************************************************)
(* What loadNodeV1Identity demands of the row before a Node may start.  A  *)
(* crash can stop the Node after any write, so every reachable row must    *)
(* pass: a row that does not is a Node that never starts again.            *)
(***************************************************************************)
Reopenable ==
    /\ applied <= highest
    /\ disabledComplete => bootDisabled /\ lastGood = NoSnapshot
    /\ IF highest = 0
         THEN candidate = NoSnapshot /\ applied = 0 /\ lastGood = NoSnapshot
         ELSE candidate # NoSnapshot /\ candidate.revision = highest
    /\ lastGood # NoSnapshot => /\ lastGood.state = "running"
                                /\ lastGood.revision = applied

(***************************************************************************)
(* The phase a Controller reads means what it says: applied and disabled   *)
(* are only ever reported of the highest accepted revision, with the       *)
(* columns that drive the next boot agreeing.  finishNodeRemoval and       *)
(* promoteTokenRotation on the Controller act on exactly this.             *)
(***************************************************************************)
PhaseMeaning ==
    /\ phase = "applied" => /\ applied = highest
                            /\ lastGood = candidate
                            /\ ~bootDisabled
    /\ phase = "disabled" => disabledComplete
    /\ disabledComplete => /\ phase = "disabled"
                           /\ applied = highest
                           /\ candidate.state = "disabled"
    /\ phase = "failed" <=> failure # "none"
    /\ phase = "disabling" => bootDisabled /\ candidate.state = "disabled"
    /\ phase = "switching" => candidate.state = "running"

(***************************************************************************)
(* No write, and no crash between two writes, takes a revision back, and   *)
(* the document accepted under a revision never changes: the Controller    *)
(* compares revisions and digests across restarts of either side.          *)
(***************************************************************************)
RevisionsAdvance ==
    [][/\ highest' >= highest
       /\ applied' >= applied
       /\ highest' = highest => candidate' = candidate]_recordVars
=============================================================================
