---------------------------- MODULE AgentSession ----------------------------
(***************************************************************************)
(* The control session between a Server and one of its Clients: the        *)
(* gateway of the Server (pkg/cmd/tunnel/server/server_agent*.go), which   *)
(* presents the desired runtime and records what the Client acknowledges,  *)
(* the run loop of the Client (pkg/cmd/tunnel/connect/client_run.go,       *)
(* client_agent.go), whose worker hands the latest desired runtime to the  *)
(* reconciler, and the socket between them.                                *)
(*                                                                         *)
(* The Server commits a new desired runtime at any time.  The socket can   *)
(* break without either end being told; each notices by its own timeout.   *)
(* Token rotation and deletion of the Client are left out.                 *)
(***************************************************************************)
EXTENDS ClientReconciler, Sequences

CONSTANTS
    Initial,       \* the desired runtime of a new Client
    MaxFrames,     \* bound: frames in flight in one direction
    MaxBreaks,     \* bound: how often the socket breaks
    MaxRestores,   \* bound: how often an older database is put back
    MaxTroubles    \* bound: how many of these and of the crashes in all

ASSUME SessionBounds ==
    /\ MaxFrames \in Nat \ {0}
    /\ MaxBreaks \in Nat
    /\ MaxRestores \in Nat
    /\ MaxTroubles \in Nat
ASSUME InitialAssumption == Initial \in Runtimes

VARIABLES
    desired,    \* what BuildClientRuntime reads from the database
    recorded,   \* last_applied_revision and _node_id, as the runtime meant
    observed,   \* the gateway's last apply result: a runtime and success
    notify,     \* a committed change has not been presented yet
    slot,       \* the Client's slot: free, open (no welcome yet), up
    queue,      \* the snapshot in serverAgentOutbound.queue
    recording,  \* a result found current and not yet in the database
    conn,       \* the Client's end: closed, open, closing
    broken,     \* the socket carries nothing any more
    down,       \* frames to the Client
    up,         \* frames to the Server
    work,       \* worker.desired
    woken,      \* worker.wake
    reporting,  \* reporter has a runtime and is not applying
    drafted,    \* a status that has been made up and not yet written
    known,      \* agent.lastApplied, which the next hello carries
    ended,      \* why the Client gave up for good
    breaks,
    restores

serverVars == <<desired, recorded, observed, notify, slot, queue, recording>>
workerVars == <<work, woken, reporting, drafted, known>>
socketVars == <<broken, down, up>>
boundVars == <<breaks, restores>>
sessionVars == <<serverVars, workerVars, socketVars, conn, ended, boundVars>>
vars == <<clientVars, sessionVars>>

Frame(kind, r) == [kind |-> kind, runtime |-> r]
Desired(r) == Frame("desired", r)
Invalid == Frame("invalid", NoRuntime)             \* close 4400
Incompatible == Frame("incompatible", NoRuntime)   \* close 4406

\* apply_result; process_state and frpc_status look alike to the Server.
Report(kind, r, ok) == [kind |-> kind, runtime |-> r, ok |-> ok]

SessionTypeOK ==
    /\ ClientTypeOK
    /\ desired \in Runtimes
    /\ recorded \in RuntimeOrNone
    /\ observed \in [runtime : RuntimeOrNone, ok : BOOLEAN]
    /\ notify \in BOOLEAN
    /\ slot \in {"free", "open", "up"}
    /\ queue \in RuntimeOrNone
    /\ recording \in RuntimeOrNone
    /\ conn \in {"closed", "open", "closing"}
    /\ broken \in BOOLEAN
    /\ down \in Seq({Desired(r) : r \in Runtimes} \cup {Invalid, Incompatible})
    /\ up \in Seq([kind : {"result", "status"}, runtime : Runtimes, ok : BOOLEAN])
    /\ Len(down) <= MaxFrames + 1
    /\ Len(up) <= MaxFrames
    /\ work \in RuntimeOrNone
    /\ woken \in BOOLEAN
    /\ reporting \in BOOLEAN
    /\ drafted \in RuntimeOrNone
    /\ known \in RuntimeOrNone
    /\ ended \in {"no", "protocol", "incompatible"}
    /\ breaks \in 0..MaxBreaks
    /\ restores \in 0..MaxRestores

NothingObserved == [runtime |-> NoRuntime, ok |-> FALSE]

SessionInit ==
    /\ ClientInit
    /\ desired = Initial
    /\ recorded = NoRuntime
    /\ observed = NothingObserved
    /\ notify = FALSE
    /\ slot = "free"
    /\ queue = NoRuntime
    /\ recording = NoRuntime
    /\ conn = "closed"
    /\ broken = FALSE
    /\ down = <<>>
    /\ up = <<>>
    /\ work = NoRuntime
    /\ woken = FALSE
    /\ reporting = FALSE
    /\ drafted = NoRuntime
    /\ known = NoRuntime
    /\ ended = "no"
    /\ breaks = 0
    /\ restores = 0

-----------------------------------------------------------------------------
(* Helpers *)

TroubleLeft == crashes + breaks + restores < MaxTroubles

\* What is written to a broken socket, or one the Client has left, is gone.
Reaches == conn = "open" /\ ~broken

Send(f) == down' = IF Reaches THEN Append(down, f) ELSE down

\* serverAgentOutbound.Write of a desired state: it never waits, and of two
\* snapshots the newer one stays in the queue.
ReplaceKeepsFirstBug(was, r) == IF was # NoRuntime THEN was ELSE r

Replace(was, r) == IF Older(r, was) \/ was = r THEN was ELSE r

\* The Server ends the session: its socket, its slot and its outbound queue.
EndSession ==
    /\ slot' = "free"
    /\ queue' = NoRuntime
    /\ recording' = NoRuntime
    /\ up' = <<>>

\* recordApplyResult of the gateway.  A late result leaves the revision.
Observe(r, ok) ==
    observed' = IF Older(r, observed.runtime)
                  THEN [observed EXCEPT !.ok = @ \/ ok]
                  ELSE [runtime |-> r, ok |-> ok]

-----------------------------------------------------------------------------
(* The Server *)

\* A transaction that adds one to the desired revision, for whatever reason.
CommitDesired(d) ==
    /\ d.revision = desired.revision + 1
    /\ desired' = d
    /\ notify' = TRUE
    /\ UNCHANGED <<clientVars, recorded, observed, slot, queue, recording,
                   workerVars, socketVars, conn, ended, boundVars>>

\* The event after a commit.  PresentDesiredState reads the database again
\* and passes over a connection that has had no welcome.
PresentDesired ==
    /\ notify
    /\ notify' = FALSE
    /\ queue' = IF slot = "up" THEN Replace(queue, desired) ELSE queue
    /\ UNCHANGED <<clientVars, desired, recorded, observed, slot, recording,
                   workerVars, socketVars, conn, ended, boundVars>>

\* serverAgentOutbound.run: the only writer of the socket.
WriteFrame ==
    /\ queue # NoRuntime
    /\ Reaches => Len(down) < MaxFrames
    /\ Send(Desired(queue))
    /\ queue' = NoRuntime
    /\ UNCHANGED <<clientVars, desired, recorded, observed, notify, slot,
                   recording, workerVars, broken, up, conn, ended, boundVars>>

\* AcceptHello and PresentWelcome.
Welcome ==
    /\ slot = "open"
    /\ Reaches
    /\ IF known # NoRuntime /\ known.revision > desired.revision
         THEN EndSession /\ Send(Incompatible)
         ELSE /\ slot' = "up"
              /\ Send(Desired(desired))
              /\ UNCHANGED <<queue, recording, up>>
    /\ UNCHANGED <<clientVars, desired, recorded, observed, notify,
                   workerVars, broken, conn, ended, boundVars>>

\* A frame from the Client must be about the runtime the database holds now.
Current(m) == m.runtime = desired

Reject ==
    /\ slot = "up"
    /\ recording = NoRuntime
    /\ up # <<>>
    /\ ~Current(Head(up))
    /\ EndSession
    /\ Send(Invalid)
    /\ UNCHANGED <<clientVars, desired, recorded, observed, notify,
                   workerVars, broken, conn, ended, boundVars>>

Receive ==
    /\ slot = "up"
    /\ recording = NoRuntime
    /\ up # <<>>
    /\ LET m == Head(up) IN
         /\ Current(m)
         /\ IF m.kind = "result" /\ m.ok
              THEN recording' = m.runtime /\ UNCHANGED observed
              ELSE /\ UNCHANGED recording
                   /\ IF m.kind = "result" THEN Observe(m.runtime, FALSE)
                      ELSE UNCHANGED observed
    /\ up' = Tail(up)
    /\ UNCHANGED <<clientVars, desired, recorded, notify, slot, queue,
                   workerVars, broken, down, conn, ended, boundVars>>

\* RecordAppliedRevision, in a transaction of its own: the desired runtime
\* may be the next one by now, which matters only if its Node is another.
Recordable(r) == r.revision <= desired.revision /\ r.node = desired.node

Record ==
    /\ recording # NoRuntime
    /\ Recordable(recording)
    /\ recorded' = IF Older(recording, recorded) THEN recorded ELSE recording
    /\ Observe(recording, TRUE)
    /\ recording' = NoRuntime
    /\ UNCHANGED <<clientVars, desired, notify, slot, queue, workerVars,
                   socketVars, conn, ended, boundVars>>

RecordFails ==
    /\ recording # NoRuntime
    /\ ~Recordable(recording)
    /\ EndSession
    /\ Send(Invalid)
    /\ UNCHANGED <<clientVars, desired, recorded, observed, notify,
                   workerVars, broken, conn, ended, boundVars>>

\* A read error, a missing pong or a failed write, once nothing is left that
\* the Client sent before it went away.
ServerLosesOnlyBrokenBug ==
    /\ slot # "free"
    /\ recording = NoRuntime
    /\ broken
    /\ EndSession
    /\ UNCHANGED <<clientVars, desired, recorded, observed, notify, down,
                   workerVars, broken, conn, ended, boundVars>>

ServerLoses ==
    /\ slot # "free"
    /\ recording = NoRuntime
    /\ broken \/ (conn = "closed" /\ up = <<>>)
    /\ EndSession
    /\ UNCHANGED <<clientVars, desired, recorded, observed, notify, down,
                   workerVars, broken, conn, ended, boundVars>>

\* The Server is stopped and comes back with an older copy of its database.
RestoreDatabase ==
    /\ TroubleLeft
    /\ restores < MaxRestores
    /\ restores' = restores + 1
    /\ \E d \in Runtimes : d.revision < desired.revision /\ desired' = d
    /\ recorded' = NoRuntime
    /\ observed' = NothingObserved
    /\ notify' = FALSE
    /\ EndSession
    /\ UNCHANGED <<clientVars, workerVars, broken, down, conn, ended, breaks>>

-----------------------------------------------------------------------------
(* The Client *)

\* Probe, dial, Authorize, Activate and hello; a taken slot answers 409 and
\* the Client tries again.
Connect ==
    /\ conn = "closed"
    /\ pc = "idle"
    /\ ended = "no"
    /\ slot = "free"
    /\ slot' = "open"
    /\ conn' = "open"
    /\ broken' = FALSE
    /\ down' = <<>>
    /\ up' = <<>>
    /\ UNCHANGED <<clientVars, desired, recorded, observed, notify, queue,
                   recording, workerVars, ended, boundVars>>

\* ReadMessage and Update; a close frame of the Server ends RunClient.
ReadFrame ==
    /\ conn = "open"
    /\ ~broken
    /\ down # <<>>
    /\ down' = Tail(down)
    /\ CASE Head(down).kind = "desired" ->
              /\ work' = Head(down).runtime
              /\ woken' = TRUE
              /\ UNCHANGED <<conn, ended>>
         [] Head(down).kind = "invalid" ->
              /\ ended' = "protocol"
              /\ conn' = "closing"
              /\ UNCHANGED <<work, woken>>
         [] Head(down).kind = "incompatible" ->
              /\ ended' = "incompatible"
              /\ conn' = "closing"
              /\ UNCHANGED <<work, woken>>
    /\ UNCHANGED <<clientVars, serverVars, reporting, drafted, known, broken,
                   up, boundVars>>

\* A read error: the path is broken, or the Server has left.
ClientLoses ==
    /\ conn = "open"
    /\ broken \/ (slot = "free" /\ down = <<>>)
    /\ conn' = "closing"
    /\ UNCHANGED <<clientVars, serverVars, workerVars, socketVars, ended,
                   boundVars>>

\* worker.Run takes the latest desired runtime, not each of them.
Take ==
    /\ conn = "open"
    /\ woken
    /\ work # NoRuntime
    /\ Begin(work)
    /\ woken' = FALSE
    /\ reporting' = FALSE
    /\ UNCHANGED <<serverVars, work, drafted, known, socketVars, conn, ended,
                   boundVars>>

Reconcile == ApplyStep /\ UNCHANGED sessionVars

Post(m) == up' = IF Reaches /\ slot # "free" THEN Append(up, m) ELSE up

\* reportClientApply: the result is written, a refusal closes the socket.
SucceededUnlessRefusedBug == outcome # "refused"

Succeeded == outcome \in {"applied", "skipped"}

ReportResult ==
    /\ conn = "open"
    /\ Reaches => Len(up) < MaxFrames
    /\ Return
    /\ Post(Report("result", target, Succeeded))
    /\ known' = IF Succeeded /\ ~Older(target, known) THEN target ELSE known
    /\ IF outcome = "refused"
         THEN conn' = "closing" /\ UNCHANGED reporting
         ELSE reporting' = TRUE /\ UNCHANGED conn
    /\ UNCHANGED <<serverVars, work, woken, drafted, broken, down, ended,
                   boundVars>>

\* The context is cancelled: the worker returns and reports nothing.
Abandon ==
    /\ conn = "closing"
    /\ Return
    /\ UNCHANGED sessionVars

\* process_state and frpc_status, when frpc changes and every two seconds:
\* the report is made up under reporter.mu and written after its release.
DraftStatus ==
    /\ conn = "open"
    /\ reporting
    /\ drafted = NoRuntime
    /\ drafted' = target
    /\ UNCHANGED <<clientVars, serverVars, work, woken, reporting, known,
                   socketVars, conn, ended, boundVars>>

WriteStatus ==
    /\ conn = "open"
    /\ drafted # NoRuntime
    /\ Reaches => Len(up) < MaxFrames
    /\ Post(Report("status", drafted, TRUE))
    /\ drafted' = NoRuntime
    /\ UNCHANGED <<clientVars, serverVars, work, woken, reporting, known,
                   broken, down, conn, ended, boundVars>>

\* The worker is waited for before the next connection is made.
DisconnectKeepsReporterBug ==
    /\ conn = "closing"
    /\ pc = "idle"
    /\ conn' = "closed"
    /\ down' = <<>>
    /\ work' = NoRuntime
    /\ woken' = FALSE
    /\ drafted' = NoRuntime
    /\ UNCHANGED <<clientVars, serverVars, reporting, known, broken, up,
                   ended, boundVars>>

Disconnect ==
    /\ conn = "closing"
    /\ pc = "idle"
    /\ conn' = "closed"
    /\ down' = <<>>
    /\ work' = NoRuntime
    /\ woken' = FALSE
    /\ reporting' = FALSE
    /\ drafted' = NoRuntime
    /\ UNCHANGED <<clientVars, serverVars, known, broken, up, ended,
                   boundVars>>

Exit ==
    /\ ended # "no"
    /\ conn = "closed"
    /\ Stop
    /\ UNCHANGED sessionVars

RestartFrpc == conn = "open" /\ reporting /\ Restart /\ UNCHANGED sessionVars

RespawnFrpc == Respawn /\ UNCHANGED sessionVars

ClientDies ==
    /\ TroubleLeft
    /\ Crash
    /\ conn' = "closed"
    /\ down' = <<>>
    /\ work' = NoRuntime
    /\ woken' = FALSE
    /\ reporting' = FALSE
    /\ drafted' = NoRuntime
    /\ known' = NoRuntime
    /\ UNCHANGED <<serverVars, broken, up, ended, boundVars>>

StartClient ==
    /\ ended = "no"
    /\ Boot
    /\ known' = applied
    /\ UNCHANGED <<serverVars, work, woken, reporting, drafted, socketVars, conn,
                   ended, boundVars>>

\* The path between them goes away, with what is on it.
Break ==
    /\ conn = "open"
    /\ ~broken
    /\ TroubleLeft
    /\ breaks < MaxBreaks
    /\ breaks' = breaks + 1
    /\ broken' = TRUE
    /\ down' = <<>>
    /\ up' = <<>>
    /\ UNCHANGED <<clientVars, serverVars, workerVars, conn, ended, restores>>

-----------------------------------------------------------------------------
SessionNext ==
    \/ \E d \in Runtimes : CommitDesired(d)
    \/ PresentDesired
    \/ WriteFrame
    \/ Welcome
    \/ Reject
    \/ Receive
    \/ Record
    \/ RecordFails
    \/ ServerLoses
    \/ RestoreDatabase
    \/ Connect
    \/ ReadFrame
    \/ ClientLoses
    \/ Take
    \/ Reconcile
    \/ ReportResult
    \/ Abandon
    \/ DraftStatus
    \/ WriteStatus
    \/ Disconnect
    \/ Exit
    \/ RestartFrpc
    \/ RespawnFrpc
    \/ ClientDies
    \/ StartClient
    \/ Break

SessionSpec == SessionInit /\ [][SessionNext]_vars

(***************************************************************************)
(* Each goroutine goes on when it can.  The result of an Apply competes    *)
(* with status reports for the socket; connection.outbound serves its      *)
(* senders in turn.  Nothing is assumed of commits, failures and losses.   *)
(***************************************************************************)
SessionFairness ==
    /\ WF_vars(PresentDesired)
    /\ WF_vars(WriteFrame)
    /\ WF_vars(Welcome)
    /\ WF_vars(Reject)
    /\ WF_vars(Receive)
    /\ WF_vars(Record \/ RecordFails)
    /\ WF_vars(ServerLoses)
    /\ WF_vars(StartClient)
    /\ WF_vars(Connect)
    /\ WF_vars(ReadFrame)
    /\ WF_vars(ClientLoses)
    /\ WF_vars(Take)
    /\ WF_vars(Reconcile)
    /\ SF_vars(ReportResult)
    /\ WF_vars(Abandon)
    /\ WF_vars(Disconnect)

FairSessionSpec == SessionSpec /\ SessionFairness

-----------------------------------------------------------------------------
(* Properties *)

(***************************************************************************)
(* However often snapshots displace each other, in the Server's outbound   *)
(* queue and in the Client's worker, the last one gets through: once       *)
(* nothing is under way, the Client works on what the database holds.      *)
(***************************************************************************)
NoLostUpdate ==
    /\ slot = "up" /\ conn = "open" /\ ~broken
    /\ ~notify /\ queue = NoRuntime /\ down = <<>>
    =>
    /\ work = desired
    /\ ~woken => target = desired

(***************************************************************************)
(* The Server never believes the Client further than it is: what it has    *)
(* recorded as applied is in the Client's applied state, or older.         *)
(***************************************************************************)
RecordedIsApplied ==
    recorded # NoRuntime =>
        /\ applied # NoRuntime
        /\ recorded = applied \/ recorded.revision < applied.revision

(***************************************************************************)
(* The gateway closes a session as invalid, which ends the Client for      *)
(* good, only for a report that the Server's own next commit has overtaken.*)
(***************************************************************************)
OnlyOvertakenAreRejected ==
    slot = "up" =>
        \A i \in 1..Len(up) : Current(up[i]) \/ Older(up[i].runtime, desired)

(***************************************************************************)
(* Every desired runtime is applied or its failure reported, unless it is  *)
(* overtaken or the Client has ended: over broken sockets, displaced       *)
(* snapshots, crashes of the Client and results that cross a commit.       *)
(***************************************************************************)
DesiredIsAnswered ==
    <>[][desired' = desired]_vars => []<>(observed.runtime = desired \/ ended # "no")
=============================================================================
