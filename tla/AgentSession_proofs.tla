------------------------ MODULE AgentSession_proofs ------------------------
(***************************************************************************)
(* Proofs about AgentSession, for any runtimes, any failures and any       *)
(* bounds: the types, that the Client of a session is a ClientReconciler,  *)
(* so that what is proved of the reconciler holds in the session, and the  *)
(* promises the session itself makes, of which the last needs to know that *)
(* all that is on its way to the Client leads forward (ForwardInv).        *)
(***************************************************************************)
EXTENDS AgentSession, ClientReconciler_proofs, SequenceTheorems

USE RuntimesAssumption, NoRuntimeAssumption
    DEF RuntimesAssumption, NoRuntimeAssumption, RuntimeOrNone

Frames == {Desired(r) : r \in Runtimes} \cup {Invalid, Incompatible}
Reports == [kind : {"result", "status"}, runtime : Runtimes, ok : BOOLEAN]

LEMMA Appended ==
    ASSUME NEW S, NEW s \in Seq(S), NEW e \in S
    PROVE  /\ Append(s, e) \in Seq(S)
           /\ Len(Append(s, e)) = Len(s) + 1
           /\ \A i \in 1..Len(s) : Append(s, e)[i] = s[i]
           /\ Append(s, e)[Len(s) + 1] = e
  BY AppendProperties

-----------------------------------------------------------------------------
(* Types, and what a session leaves behind *)

LEMMA ClientStep ==
    SessionTypeOK /\ [SessionNext]_vars => [ClientNext]_clientVars
  <1> SUFFICES ASSUME SessionTypeOK, [SessionNext]_vars
               PROVE  [ClientNext]_clientVars
    OBVIOUS
  <1>1. CASE UNCHANGED clientVars
    BY <1>1
  <1>2. CASE Take
    <2>1. work \in Runtimes /\ Begin(work)
      BY <1>2 DEF Take, SessionTypeOK
    <2> QED
      BY <2>1 DEF ClientNext
  <1>3. CASE Reconcile \/ ReportResult \/ Abandon
    BY <1>3 DEF Reconcile, ReportResult, Abandon, ClientNext
  <1>4. CASE Exit \/ RestartFrpc \/ RespawnFrpc \/ ClientDies \/ StartClient
    BY <1>4 DEF Exit, RestartFrpc, RespawnFrpc, ClientDies, StartClient,
                ClientNext
  <1> QED
    BY <1>1, <1>2, <1>3, <1>4
       DEF SessionNext, vars, CommitDesired, PresentDesired, WriteFrame,
           Welcome, Reject, Receive, Record, RecordFails, ServerLoses,
           RestoreDatabase, Connect, ReadFrame, ClientLoses, DraftStatus,
           WriteStatus, Disconnect, Break

\* A session that has not been welcomed, and one that is over, leave nothing
\* behind; only a runtime that was taken is reported.
EndsInv ==
    /\ slot # "free" => Len(down) <= MaxFrames
    /\ slot = "open" => down = <<>>
    /\ slot # "up" => queue = NoRuntime /\ recording = NoRuntime
    /\ slot = "free" => up = <<>>
    /\ conn = "closed" => /\ down = <<>> /\ ~reporting /\ ~woken
                          /\ drafted = NoRuntime /\ work = NoRuntime
    /\ pc = "down" => conn = "closed"
    /\ pc \notin {"down", "idle"} \/ reporting => target \in Runtimes

LEMMA InitSession == SessionInit => SessionTypeOK /\ EndsInv
  <1> SUFFICES ASSUME SessionInit PROVE SessionTypeOK /\ EndsInv
    OBVIOUS
  <1>0. observed = NothingObserved
    BY DEF SessionInit
  <1>1. 0 \in 0..MaxBreaks /\ 0 \in 0..MaxRestores /\ 0 <= MaxFrames
        /\ 0 <= MaxFrames + 1
    BY SessionBounds DEF SessionBounds
  <1>2. ClientTypeOK
    BY InitTypes DEF SessionInit
  <1>3. down \in Seq(Frames) /\ up \in Seq(Reports) /\ Len(down) = 0
        /\ Len(up) = 0
    BY EmptySeq, Zenon DEF SessionInit
  <1>4. observed \in [runtime : RuntimeOrNone, ok : BOOLEAN]
    BY <1>0 DEF NothingObserved
  <1>5. SessionTypeOK
    BY <1>1, <1>2, <1>3, <1>4, InitialAssumption, Zenon
       DEF SessionInit, SessionTypeOK, InitialAssumption, Frames, Reports
  <1>6. EndsInv
    BY <1>1, <1>3 DEF SessionInit, ClientInit, EndsInv
  <1> QED
    BY <1>5, <1>6

\* The sockets and their frames.
SocketTypes ==
    /\ down \in Seq(Frames)
    /\ up \in Seq(Reports)
    /\ Len(down) <= MaxFrames + 1
    /\ Len(up) <= MaxFrames

ServerTypes ==
    /\ desired \in Runtimes
    /\ recorded \in RuntimeOrNone
    /\ notify \in BOOLEAN
    /\ slot \in {"free", "open", "up"}
    /\ queue \in RuntimeOrNone
    /\ recording \in RuntimeOrNone

WorkerTypes ==
    /\ conn \in {"closed", "open", "closing"}
    /\ broken \in BOOLEAN
    /\ work \in RuntimeOrNone
    /\ woken \in BOOLEAN
    /\ reporting \in BOOLEAN
    /\ drafted \in RuntimeOrNone
    /\ known \in RuntimeOrNone
    /\ ended \in {"no", "protocol", "incompatible"}

ObservedType == observed \in [runtime : RuntimeOrNone, ok : BOOLEAN]

CountTypes == breaks \in 0..MaxBreaks /\ restores \in 0..MaxRestores

LEMMA TypesSplit ==
    SessionTypeOK <=> /\ ClientTypeOK /\ ServerTypes /\ WorkerTypes
                      /\ ObservedType /\ SocketTypes /\ CountTypes
  BY Zenon DEF SessionTypeOK, ServerTypes, WorkerTypes, ObservedType, SocketTypes,
               CountTypes, Frames, Reports

LEMMA FrameKinds ==
    \A f \in Frames :
        \/ f.kind = "desired" /\ f.runtime \in Runtimes
        \/ f.kind \in {"invalid", "incompatible"}
  BY DEF Frames, Desired, Frame, Invalid, Incompatible

\* What a read does to the Client, and what it leaves alone.
LEMMA ReadTakes ==
    ASSUME SocketTypes, ReadFrame
    PROVE  /\ \/ /\ Head(down) \in Frames /\ Head(down).kind = "desired"
                 /\ Head(down).runtime \in Runtimes
                 /\ work' = Head(down).runtime /\ woken' = TRUE
                 /\ UNCHANGED <<conn, ended>>
              \/ /\ Head(down) \in Frames /\ Head(down).kind # "desired"
                 /\ conn' = "closing" /\ ended' \in {"protocol", "incompatible"}
                 /\ UNCHANGED <<work, woken>>
           /\ down # <<>> /\ down' = Tail(down) /\ conn = "open" /\ ~broken
           /\ UNCHANGED <<clientVars, serverVars, reporting, drafted, known,
                          broken, up, boundVars>>
  <1>1. down # <<>> /\ Head(down) \in Frames
    BY HeadTailProperties DEF ReadFrame, SocketTypes
  <1>2. CASE Head(down).kind = "desired"
    <2>1. work' = Head(down).runtime /\ woken' = TRUE /\ UNCHANGED <<conn, ended>>
      BY <1>2, Zenon DEF ReadFrame
    <2> QED
      BY <1>1, <1>2, <2>1, FrameKinds DEF ReadFrame
  <1>3. CASE Head(down).kind = "invalid"
    <2>1. conn' = "closing" /\ ended' = "protocol" /\ UNCHANGED <<work, woken>>
      BY <1>3 DEF ReadFrame
    <2> QED
      BY <1>1, <1>3, <2>1 DEF ReadFrame
  <1>4. CASE Head(down).kind = "incompatible"
    <2>1. conn' = "closing" /\ ended' = "incompatible" /\ UNCHANGED <<work, woken>>
      BY <1>4 DEF ReadFrame
    <2> QED
      BY <1>1, <1>4, <2>1 DEF ReadFrame
  <1> QED
    BY <1>1, <1>2, <1>3, <1>4, FrameKinds

LEMMA StepServer ==
    SessionTypeOK /\ [SessionNext]_vars => ServerTypes'
  <1> SUFFICES ASSUME SessionTypeOK, [SessionNext]_vars PROVE ServerTypes'
    OBVIOUS
  <1>0. ServerTypes /\ SocketTypes
    BY TypesSplit
  <1> USE DEF ServerTypes, serverVars, sessionVars, EndSession
  <1>1. CASE UNCHANGED serverVars
    BY <1>0, <1>1
  <1>2. ASSUME NEW d \in Runtimes, CommitDesired(d) PROVE ServerTypes'
    BY <1>0, <1>2 DEF CommitDesired
  <1>3. CASE PresentDesired
    BY <1>0, <1>3 DEF PresentDesired, Replace
  <1>4. CASE WriteFrame
    BY <1>0, <1>4 DEF WriteFrame
  <1>5. CASE Welcome
    BY <1>0, <1>5 DEF Welcome
  <1>6. CASE Reject \/ RecordFails \/ ServerLoses
    BY <1>0, <1>6 DEF Reject, RecordFails, ServerLoses
  <1>7. CASE RestoreDatabase
    BY <1>0, <1>7 DEF RestoreDatabase
  <1>8. CASE Receive
    <2>1. up # <<>> => Head(up) \in Reports
      BY <1>0, HeadTailProperties DEF SocketTypes
    <2>2. /\ recording' \in {recording, Head(up).runtime}
          /\ Head(up).runtime \in Runtimes
          /\ UNCHANGED <<desired, recorded, notify, slot, queue>>
      BY <1>8, <2>1 DEF Receive, Reports
    <2> QED
      BY <1>0, <2>2
  <1>9. CASE Record
    BY <1>0, <1>9 DEF Record
  <1>10. CASE Connect
    BY <1>0, <1>10 DEF Connect
  <1> QED
    BY <1>1, <1>2, <1>3, <1>4, <1>5, <1>6, <1>7, <1>8, <1>9, <1>10
       DEF SessionNext, vars, ReadFrame, ClientLoses, Take, Reconcile,
           ReportResult, Abandon, DraftStatus, WriteStatus, Disconnect, Exit,
           RestartFrpc, RespawnFrpc, ClientDies, StartClient, Break

LEMMA StepWorker ==
    SessionTypeOK /\ [SessionNext]_vars => WorkerTypes'
  <1> SUFFICES ASSUME SessionTypeOK, [SessionNext]_vars PROVE WorkerTypes'
    OBVIOUS
  <1>0. WorkerTypes /\ SocketTypes
    BY TypesSplit
  <1>1. target \in RuntimeOrNone /\ applied \in RuntimeOrNone
    BY TypesSplit DEF ClientTypeOK
  <1> USE DEF WorkerTypes, workerVars, sessionVars
  <1>2. CASE UNCHANGED <<workerVars, conn, broken, ended>>
    BY <1>0, <1>2
  <1>3. CASE Connect
    BY <1>0, <1>3 DEF Connect
  <1>4. CASE ReadFrame
    BY <1>0, <1>4, ReadTakes
  <1>5. CASE ClientLoses
    BY <1>0, <1>5 DEF ClientLoses, socketVars
  <1>6. CASE Take
    BY <1>0, <1>6 DEF Take, socketVars
  <1>7. CASE ReportResult
    BY <1>0, <1>1, <1>7 DEF ReportResult
  <1>8. CASE DraftStatus
    BY <1>0, <1>1, <1>8 DEF DraftStatus, socketVars
  <1>9. CASE WriteStatus
    BY <1>0, <1>9 DEF WriteStatus
  <1>10. CASE Disconnect
    BY <1>0, <1>10 DEF Disconnect
  <1>11. CASE ClientDies
    BY <1>0, <1>11 DEF ClientDies
  <1>12. CASE StartClient
    BY <1>0, <1>1, <1>12 DEF StartClient, socketVars
  <1>13. CASE Break
    BY <1>0, <1>13 DEF Break
  <1> QED
    BY <1>2, <1>3, <1>4, <1>5, <1>6, <1>7, <1>8, <1>9, <1>10, <1>11, <1>12,
       <1>13
       DEF SessionNext, vars, CommitDesired, PresentDesired, WriteFrame,
           Welcome, Reject, Receive, Record, RecordFails, ServerLoses,
           RestoreDatabase, socketVars, Reconcile, Abandon, Exit, RestartFrpc,
           RespawnFrpc

LEMMA StepObserved ==
    SessionTypeOK /\ [SessionNext]_vars => ObservedType'
  <1> SUFFICES ASSUME SessionTypeOK, [SessionNext]_vars PROVE ObservedType'
    OBVIOUS
  <1>0. ObservedType
    BY TypesSplit
  <1> USE DEF ObservedType, serverVars, sessionVars
  <1>1. ASSUME NEW r \in RuntimeOrNone, NEW ok \in BOOLEAN, Observe(r, ok)
        PROVE  ObservedType'
    BY <1>0, <1>1 DEF Observe
  <1>2. CASE UNCHANGED observed
    BY <1>0, <1>2
  <1>3. CASE Receive
    <2>1. up # <<>> => Head(up) \in Reports
      BY TypesSplit, HeadTailProperties DEF SocketTypes
    <2>2. \/ UNCHANGED observed
          \/ Head(up).runtime \in RuntimeOrNone /\ Observe(Head(up).runtime, FALSE)
      BY <1>3, <2>1 DEF Receive, Reports
    <2> QED
      BY <2>2, <1>1, <1>2
  <1>4. CASE Record
    <2>1. recording \in RuntimeOrNone /\ Observe(recording, TRUE)
      BY <1>4 DEF Record, SessionTypeOK
    <2> QED
      BY <2>1, <1>1
  <1>5. CASE RestoreDatabase
    <2>1. observed' = NothingObserved
      BY <1>5 DEF RestoreDatabase
    <2> QED
      BY <2>1 DEF NothingObserved
  <1> QED
    BY <1>2, <1>3, <1>4, <1>5
       DEF SessionNext, vars, CommitDesired, PresentDesired, WriteFrame,
           Welcome, Reject, RecordFails, ServerLoses, Connect, ReadFrame,
           ClientLoses, Take, Reconcile, ReportResult, Abandon, DraftStatus,
           WriteStatus, Disconnect, Exit, RestartFrpc, RespawnFrpc,
           ClientDies, StartClient, Break

LEMMA StepCounts ==
    SessionTypeOK /\ [SessionNext]_vars => CountTypes'
  <1> SUFFICES ASSUME SessionTypeOK, [SessionNext]_vars PROVE CountTypes'
    OBVIOUS
  <1>0. CountTypes
    BY TypesSplit
  <1> USE DEF CountTypes, boundVars, sessionVars
  <1>1. CASE UNCHANGED boundVars
    BY <1>0, <1>1
  <1>2. CASE RestoreDatabase
    <2>1. restores < MaxRestores /\ restores' = restores + 1 /\ breaks' = breaks
      BY <1>2 DEF RestoreDatabase
    <2> QED
      BY <1>0, <2>1, SessionBounds DEF SessionBounds
  <1>3. CASE Break
    <2>1. breaks < MaxBreaks /\ breaks' = breaks + 1 /\ restores' = restores
      BY <1>3 DEF Break
    <2> QED
      BY <1>0, <2>1, SessionBounds DEF SessionBounds
  <1> QED
    BY <1>1, <1>2, <1>3
       DEF SessionNext, vars, CommitDesired, PresentDesired, WriteFrame,
           Welcome, Reject, Receive, Record, RecordFails, ServerLoses,
           Connect, ReadFrame, ClientLoses, Take, Reconcile, ReportResult,
           Abandon, DraftStatus, WriteStatus, Disconnect, Exit, RestartFrpc,
           RespawnFrpc, ClientDies, StartClient

\* A frame is put behind the others, or lost.
LEMMA SendKeeps ==
    ASSUME SocketTypes, NEW f \in Frames, Send(f)
    PROVE  /\ down' \in Seq(Frames)
           /\ \/ down' = down /\ ~Reaches
              \/ /\ Reaches /\ down' = Append(down, f) /\ Len(down') = Len(down) + 1
                 /\ \A i \in 1..Len(down) : down'[i] = down[i]
                 /\ down'[Len(down')] = f
  <1>1. CASE Reaches
    BY <1>1, Appended DEF Send, SocketTypes
  <1>2. CASE ~Reaches
    BY <1>2 DEF Send, SocketTypes
  <1> QED
    BY <1>1, <1>2

LEMMA PostKeeps ==
    ASSUME SocketTypes, NEW m \in Reports, Post(m)
    PROVE  /\ up' \in Seq(Reports)
           /\ \/ up' = up
              \/ /\ Reaches /\ slot # "free"
                 /\ up' = Append(up, m) /\ Len(up') = Len(up) + 1
                 /\ \A i \in 1..Len(up) : up'[i] = up[i]
                 /\ up'[Len(up')] = m
  <1>1. CASE Reaches /\ slot # "free"
    BY <1>1, Appended DEF Post, SocketTypes
  <1>2. CASE ~(Reaches /\ slot # "free")
    BY <1>2 DEF Post, SocketTypes
  <1> QED
    BY <1>1, <1>2

LEMMA TakeOff ==
    ASSUME NEW S, NEW s \in Seq(S), s # <<>>
    PROVE  /\ Head(s) \in S /\ Tail(s) \in Seq(S)
           /\ Len(s) \in Nat /\ Len(Tail(s)) = Len(s) - 1
           /\ \A i \in 1..Len(Tail(s)) : Tail(s)[i] = s[i + 1] /\ i + 1 \in 1..Len(s)
           /\ 1 \in 1..Len(s) /\ Head(s) = s[1]
  BY HeadTailProperties, LenProperties, EmptySeq

\* Only a session that has begun writes down, and no more than the bounds.
LEMMA StepSocket ==
    SessionTypeOK /\ EndsInv /\ [SessionNext]_vars => SocketTypes'
  <1> SUFFICES ASSUME SessionTypeOK, EndsInv, [SessionNext]_vars
               PROVE  SocketTypes'
    OBVIOUS
  <1>0. SocketTypes /\ ServerTypes /\ WorkerTypes
    BY TypesSplit
  <1>1. /\ \A r \in Runtimes : Desired(r) \in Frames
        /\ Invalid \in Frames /\ Incompatible \in Frames
    BY DEF Frames
  <1>2. /\ Len(down) \in Nat /\ Len(up) \in Nat /\ MaxFrames \in Nat \ {0}
        /\ Len(<<>>) = 0
    BY <1>0, LenProperties, SessionBounds DEF SocketTypes, SessionBounds
  <1>3. <<>> \in Seq(Frames) /\ <<>> \in Seq(Reports)
    BY EmptySeq
  <1>13. Len(<<>>) <= MaxFrames /\ Len(<<>>) <= MaxFrames + 1
    BY <1>2
  <1> USE <1>0, <1>2, <1>3 DEF serverVars, workerVars, socketVars, sessionVars,
                               EndSession
  <1>4. CASE UNCHANGED <<down, up>>
    BY <1>4 DEF SocketTypes
  <1>5. CASE WriteFrame
    <2>1. Send(Desired(queue)) /\ Desired(queue) \in Frames
      BY <1>5, <1>1 DEF WriteFrame, ServerTypes, WorkerTypes
    <2>2. (Reaches => Len(down) < MaxFrames) /\ up' = up
      BY <1>5 DEF WriteFrame
    <2> QED
      BY <2>1, <2>2, SendKeeps DEF SocketTypes
  <1>6. CASE Welcome
    <2>1. PICK f \in Frames : Send(f)
      BY <1>6, <1>1 DEF Welcome, ServerTypes, WorkerTypes
    <2>2. Len(down) = 0 /\ up' \in {up, <<>>}
      BY <1>6 DEF Welcome, EndsInv
    <2>3. up' \in Seq(Reports) /\ Len(up') <= MaxFrames
      BY <2>2, <1>3, <1>13 DEF SocketTypes
    <2> QED
      BY <2>1, <2>2, <2>3, SendKeeps DEF SocketTypes
  <1>7. CASE Reject \/ RecordFails
    <2>1. Send(Invalid) /\ up' = <<>> /\ slot # "free"
      BY <1>7 DEF Reject, RecordFails, EndsInv
    <2> QED
      BY <2>1, <1>1, SendKeeps DEF SocketTypes, EndsInv
  <1>8. CASE Receive
    <2>1. up # <<>> /\ up' = Tail(up) /\ down' = down
      BY <1>8 DEF Receive
    <2> QED
      BY <2>1, TakeOff DEF SocketTypes
  <1>9. CASE ReadFrame
    <2>1. down # <<>> /\ down' = Tail(down) /\ up' = up
      BY <1>9 DEF ReadFrame
    <2> QED
      BY <2>1, TakeOff DEF SocketTypes
  <1>10. CASE down' \in {down, <<>>} /\ up' \in {up, <<>>}
    <2>1. down' \in Seq(Frames) /\ up' \in Seq(Reports)
      BY <1>10, <1>3 DEF SocketTypes
    <2>2. Len(down') <= MaxFrames + 1 /\ Len(up') <= MaxFrames
      BY <1>10, <1>13, Zenon DEF SocketTypes
    <2> QED
      BY <2>1, <2>2 DEF SocketTypes
  <1>11. CASE ReportResult
    <2>1. target \in Runtimes
      BY <1>11 DEF ReportResult, Return, EndsInv
    <2>2. Report("result", target, Succeeded) \in Reports
      BY <2>1 DEF Report, Reports, Succeeded
    <2>3. /\ Post(Report("result", target, Succeeded))
          /\ Reaches => Len(up) < MaxFrames
          /\ down' = down
      BY <1>11 DEF ReportResult
    <2> QED
      BY <2>2, <2>3, PostKeeps DEF SocketTypes
  <1>12. CASE WriteStatus
    <2>1. Report("status", drafted, TRUE) \in Reports
      BY <1>12 DEF WriteStatus, ServerTypes, WorkerTypes, Report, Reports
    <2>2. /\ Post(Report("status", drafted, TRUE))
          /\ Reaches => Len(up) < MaxFrames
          /\ down' = down
      BY <1>12 DEF WriteStatus
    <2>3. PICK m \in Reports : Post(m)
      BY <2>1, <2>2
    <2> QED
      BY <2>2, <2>3, PostKeeps DEF SocketTypes
  <1> QED
    BY <1>4, <1>5, <1>6, <1>7, <1>8, <1>9, <1>10, <1>11, <1>12
       DEF SessionNext, vars, CommitDesired, PresentDesired, Record,
           ServerLoses, RestoreDatabase, Connect, ClientLoses, Take,
           Reconcile, Abandon, DraftStatus, Disconnect, Exit, RestartFrpc,
           RespawnFrpc, ClientDies, StartClient, Break

LEMMA StepEnds ==
    SessionTypeOK /\ EndsInv /\ [SessionNext]_vars => EndsInv'
  <1> SUFFICES ASSUME SessionTypeOK, EndsInv, [SessionNext]_vars
               PROVE  EndsInv'
    OBVIOUS
  <1>0. SocketTypes /\ ServerTypes /\ WorkerTypes
    BY TypesSplit
  <1>1. /\ \A r \in Runtimes : Desired(r) \in Frames
        /\ Invalid \in Frames /\ Incompatible \in Frames
    BY DEF Frames
  <1>2. /\ Len(down) \in Nat /\ MaxFrames \in Nat \ {0} /\ Len(<<>>) = 0
    BY <1>0, LenProperties, SessionBounds DEF SocketTypes, SessionBounds
  <1> USE <1>2 DEF EndsInv, ServerTypes, WorkerTypes, serverVars, workerVars, socketVars,
                   sessionVars, EndSession, clientVars, stepVars
  <1>3. CASE WriteFrame
    <2>1. Send(Desired(queue)) /\ Desired(queue) \in Frames
      BY <1>0, <1>1, <1>3 DEF WriteFrame
    <2>2. (Reaches => Len(down) < MaxFrames) /\ slot = "up"
      BY <1>0, <1>3 DEF WriteFrame
    <2>3. Len(down') <= MaxFrames /\ (conn = "closed" => down' = down)
      BY <1>0, <2>1, <2>2, SendKeeps DEF Reaches
    <2> QED
      BY <1>3, <2>2, <2>3 DEF WriteFrame
  <1>4. CASE Welcome
    <2>1. PICK f \in Frames : Send(f)
      BY <1>0, <1>1, <1>4 DEF Welcome
    <2>2. Len(down') <= MaxFrames /\ conn = "open"
      BY <1>0, <1>4, <2>1, SendKeeps DEF Welcome, Reaches
    <2> QED
      BY <1>4, <2>2 DEF Welcome
  <1>5. CASE Reject \/ RecordFails
    <2>1. Send(Invalid)
      BY <1>5 DEF Reject, RecordFails
    <2>2. conn = "closed" => down' = down
      BY <2>1 DEF Send, Reaches
    <2> QED
      BY <1>5, <2>2 DEF Reject, RecordFails
  <1>6. CASE Receive
    BY <1>6 DEF Receive
  <1>7. CASE Record
    BY <1>7 DEF Record
  <1>23. CASE PresentDesired
    <2>1. slot # "up" => queue' = queue
      BY <1>23 DEF PresentDesired
    <2> QED
      BY <1>23, <2>1 DEF PresentDesired
  <1>20. CASE ServerLoses
    BY <1>20 DEF ServerLoses
  <1>21. CASE RestoreDatabase
    BY <1>21 DEF RestoreDatabase
  <1>8. ASSUME NEW d \in Runtimes, CommitDesired(d) PROVE EndsInv'
    BY <1>8 DEF CommitDesired
  <1>9. CASE Connect
    BY <1>9 DEF Connect
  <1>10. CASE ReadFrame
    <2>1. down' = Tail(down) /\ Len(Tail(down)) = Len(down) - 1
      BY <1>0, <1>10, TakeOff DEF ReadFrame, SocketTypes
    <2>2. /\ slot # "open" /\ slot' = slot /\ queue' = queue
          /\ recording' = recording /\ up' = up /\ conn' # "closed"
          /\ pc' = pc /\ reporting' = reporting /\ target' = target
          /\ pc # "down"
      BY <1>0, <1>10, ReadTakes
    <2> QED
      BY <2>1, <2>2
  <1>11. CASE ClientLoses
    BY <1>11 DEF ClientLoses
  <1>12. CASE Take
    BY <1>0, <1>12 DEF Take, Begin, Goto, End
  <1>13. CASE Reconcile
    <2>1. pc \notin {"down", "idle"} /\ pc' \notin {"down", "idle"} /\ UNCHANGED target
      BY <1>13 DEF Reconcile, ApplyStep, Accept, AcceptFails, Leave, LeaveFails,
                   Prepare, PrepareFails, PrepareStopFails, Write, WriteFails,
                   Start, StartFails, Commit, CommitFails, RollbackStop,
                   RollbackWrite, RollbackStart, Undo, Goto, End
    <2> QED
      BY <1>13, <2>1 DEF Reconcile
  <1>14. CASE ReportResult \/ Abandon
    BY <1>14 DEF ReportResult, Abandon, Return, Goto, Post
  <1>15. CASE DraftStatus
    BY <1>15 DEF DraftStatus
  <1>22. CASE WriteStatus
    BY <1>22 DEF WriteStatus, Post
  <1>16. CASE Disconnect \/ Exit \/ ClientDies \/ StartClient
    BY <1>16 DEF Disconnect, Exit, Stop, ClientDies, Crash, StartClient, Boot
  <1>17. CASE RestartFrpc \/ RespawnFrpc
    BY <1>17 DEF RestartFrpc, Restart, RespawnFrpc, Respawn
  <1>18. CASE Break
    BY <1>18 DEF Break
  <1>19. CASE UNCHANGED vars
    BY <1>19 DEF vars
  <1> QED
    BY <1>3, <1>4, <1>5, <1>6, <1>7, <1>8, <1>9, <1>10, <1>11, <1>12, <1>13,
       <1>14, <1>15, <1>16, <1>17, <1>18, <1>19, <1>20, <1>21,
       <1>22, <1>23 DEF SessionNext

LEMMA StepSessionTypes ==
    SessionTypeOK /\ EndsInv /\ [SessionNext]_vars => SessionTypeOK' /\ EndsInv'
  <1> SUFFICES ASSUME SessionTypeOK, EndsInv, [SessionNext]_vars
               PROVE  SessionTypeOK' /\ EndsInv'
    OBVIOUS
  <1>1. ClientTypeOK'
    BY TypesSplit, ClientStep, StepTypes
  <1>2. ServerTypes' /\ WorkerTypes' /\ ObservedType' /\ SocketTypes' /\ CountTypes' /\ EndsInv'
    BY StepServer, StepWorker, StepObserved, StepSocket, StepCounts, StepEnds
  <1>3. SessionTypeOK'
    BY <1>1, <1>2, Zenon DEF SessionTypeOK, ServerTypes, WorkerTypes, ObservedType,
                             SocketTypes, CountTypes, Frames, Reports
  <1> QED
    BY <1>2, <1>3

(***************************************************************************)
(* Every reachable state of a session is well typed, and no more frames    *)
(* are under way than the model's bounds allow.                            *)
(***************************************************************************)
THEOREM SessionTypes == SessionSpec => []SessionTypeOK
  BY InitSession, StepSessionTypes, PTL DEF SessionSpec

-----------------------------------------------------------------------------
(* The Client of a session is a reconciler *)

(***************************************************************************)
(* worker.Run, and what else RunClient does to the reconciler, is what     *)
(* ClientReconciler allows.                                                *)
(***************************************************************************)
THEOREM SessionRunsReconciler == SessionSpec => ClientSpec
  <1>1. SessionInit => ClientInit
    BY DEF SessionInit
  <1> QED
    BY <1>1, ClientStep, SessionTypes, PTL DEF SessionSpec, ClientSpec

(***************************************************************************)
(* So in a session, with the faults of the socket and of both ends, what   *)
(* the Client acknowledges is what its frpc serves, and frpc.toml is never *)
(* changed under it.                                                       *)
(***************************************************************************)
THEOREM SessionServes ==
    SessionSpec => [](RespawnServesTheSame /\ SuccessIsServed)
  BY SessionRunsReconciler, RespawnServes, SuccessServed, PTL

(***************************************************************************)
(* And the Client keeps to ClientTargets: whatever the Server sends, in    *)
(* whatever order, it never goes back behind what it has accepted.         *)
(***************************************************************************)
THEOREM SessionKeepsTargets == SessionSpec => KeepsTargets
  BY SessionRunsReconciler, TargetsKept, PTL

-----------------------------------------------------------------------------
(* What the Server believes *)

LEMMA AppliedAdvances ==
    ClientTypeOK /\ ClientInv /\ [ClientNext]_clientVars
        => AtMost(applied, applied')
  <1> SUFFICES ASSUME ClientTypeOK, ClientInv, [ClientNext]_clientVars
               PROVE  AtMost(applied, applied')
    OBVIOUS
  <1>1. CASE Commit
    BY <1>1 DEF Commit, ClientInv, NothingAhead, OnTarget, UnderWay
  <1>2. CASE UNCHANGED applied
    BY <1>2 DEF AtMost
  <1> QED
    BY <1>1, <1>2
       DEF ClientNext, ApplyStep, clientVars, fileVars, Begin, Accept,
           AcceptFails, Leave, LeaveFails, Prepare, PrepareFails,
           PrepareStopFails, Write, WriteFails, Start, StartFails,
           CommitFails, RollbackStop, RollbackWrite, RollbackStart, Return,
           Restart, Respawn, Stop, Crash, Boot

LEMMA AtMostTrans ==
    ASSUME NEW r \in RuntimeOrNone, NEW s \in RuntimeOrNone,
           NEW t \in RuntimeOrNone, AtMost(r, s), AtMost(s, t)
    PROVE  AtMost(r, t)
  BY DEF AtMost

Success(m) == m.kind = "result" /\ m.ok

\* A success is in the applied state before it is reported, and stays there.
BelievedInv ==
    /\ AtMost(recorded, applied)
    /\ AtMost(recording, applied)
    /\ \A i \in 1..Len(up) : Success(up[i]) => AtMost(up[i].runtime, applied)

LEMMA StepBelieved ==
    SessionTypeOK /\ EndsInv /\ ClientInv /\ BelievedInv /\ [SessionNext]_vars
        => BelievedInv'
  <1> SUFFICES ASSUME SessionTypeOK, EndsInv, ClientInv, BelievedInv,
                      [SessionNext]_vars
               PROVE  BelievedInv'
    OBVIOUS
  <1>0. SocketTypes /\ ServerTypes /\ WorkerTypes /\ ClientTypeOK
    BY TypesSplit
  <1>1. SocketTypes' /\ ClientTypeOK' /\ AtMost(applied, applied')
    BY <1>0, StepSocket, ClientStep, StepTypes, AppliedAdvances
  \* What was believed of the old applied state holds of the new one.
  <1>2. ASSUME NEW r \in RuntimeOrNone, AtMost(r, applied)
        PROVE  AtMost(r, applied')
    BY <1>0, <1>1, <1>2, AtMostTrans DEF ClientTypeOK
  <1>3. AtMost(NoRuntime, applied')
    BY DEF AtMost
  <1>4. \A i \in 1..Len(up) : up[i] \in Reports /\ up[i].runtime \in RuntimeOrNone
    <2> TAKE i \in 1..Len(up)
    <2>1. up[i] \in Reports
      BY <1>0, ElementOfSeq DEF SocketTypes
    <2> QED
      BY <2>1 DEF Reports
  <1>5. \A i \in 1..Len(up) : Success(up[i]) => AtMost(up[i].runtime, applied')
    BY <1>2, <1>4 DEF BelievedInv
  <1>6. AtMost(recorded, applied') /\ AtMost(recording, applied')
    BY <1>0, <1>2 DEF BelievedInv, ServerTypes, WorkerTypes
  <1>7. ASSUME recorded' \in {recorded, recording, NoRuntime},
               recording' \in {recording, NoRuntime},
               up' \in {up, <<>>}
        PROVE  BelievedInv'
    <2>1. Len(<<>>) = 0
      BY EmptySeq
    <2>2. AtMost(recorded', applied') /\ AtMost(recording', applied')
      BY <1>3, <1>6, <1>7
    <2>3. \A i \in 1..Len(up') : Success(up'[i]) => AtMost(up'[i].runtime, applied')
      BY <1>5, <1>7, <2>1
    <2> QED
      BY <2>2, <2>3 DEF BelievedInv, Success, AtMost
  <1>8. ASSUME NEW m \in Reports, Post(m),
               Success(m) => AtMost(m.runtime, applied'),
               UNCHANGED <<recorded, recording>>
        PROVE  BelievedInv'
    <2>1. CASE up' = up
      BY <1>7, <1>8, <2>1
    <2>2. CASE /\ Len(up') = Len(up) + 1 /\ up'[Len(up')] = m
               /\ \A i \in 1..Len(up) : up'[i] = up[i]
      <3>1. ASSUME NEW i \in 1..Len(up'), Success(up'[i])
            PROVE  AtMost(up'[i].runtime, applied')
        <4>1. CASE i = Len(up')
          BY <1>8, <2>2, <3>1, <4>1
        <4>2. CASE i \in 1..Len(up)
          BY <1>5, <2>2, <3>1, <4>2
        <4> QED
          BY <1>0, <2>2, <4>1, <4>2, LenProperties DEF SocketTypes
      <3> QED
        BY <1>6, <1>8, <3>1 DEF BelievedInv, Success, AtMost
    <2> QED
      BY <1>0, <1>8, <2>1, <2>2, PostKeeps
  <1>9. CASE ReportResult
    <2>1. target \in Runtimes /\ pc = "done"
      BY <1>9 DEF ReportResult, Return, EndsInv
    <2> DEFINE m == Report("result", target, Succeeded)
    <2>2. m \in Reports
      BY <2>1 DEF Report, Reports, Succeeded
    <2>3. Success(m) => applied = target
      BY <2>1 DEF Success, Report, Succeeded, ClientInv, Acknowledged
    <2>4. m.runtime = target
      BY DEF Report
    <2>5. Success(m) => AtMost(m.runtime, applied')
      BY <1>1, <2>3, <2>4
    <2>6. Post(m) /\ UNCHANGED <<recorded, recording>>
      BY <1>9 DEF ReportResult, serverVars
    <2> QED
      BY <1>8, <2>2, <2>5, <2>6
  <1>10. CASE WriteStatus
    <2> DEFINE m == Report("status", drafted, TRUE)
    <2>1. m \in Reports /\ ~Success(m)
      BY <1>0, <1>10 DEF WriteStatus, ServerTypes, WorkerTypes, Report, Reports, Success
    <2>2. Post(m) /\ UNCHANGED <<recorded, recording>>
      BY <1>10 DEF WriteStatus, serverVars
    <2> QED
      BY <1>8, <2>1, <2>2
  <1>11. CASE Receive
    <2>1. /\ up # <<>> /\ up' = Tail(up) /\ recorded' = recorded
          /\ \/ recording' = recording
             \/ Success(Head(up)) /\ recording' = Head(up).runtime
      BY <1>11 DEF Receive, Success
    <2>2. /\ 1 \in 1..Len(up) /\ Head(up) = up[1]
          /\ \A i \in 1..Len(up') : up'[i] = up[i + 1] /\ i + 1 \in 1..Len(up)
      BY <1>0, <2>1, TakeOff DEF SocketTypes
    <2>3. \A i \in 1..Len(up') : Success(up'[i]) => AtMost(up'[i].runtime, applied')
      BY <1>5, <2>2
    <2>4. AtMost(recording', applied')
      BY <1>5, <1>6, <2>1, <2>2
    <2> QED
      BY <1>6, <2>1, <2>3, <2>4 DEF BelievedInv, Success, AtMost
  <1>12. CASE Record
    BY <1>7, <1>12 DEF Record, socketVars
  <1>13. CASE Reject \/ RecordFails \/ ServerLoses \/ RestoreDatabase
    BY <1>7, <1>13 DEF Reject, RecordFails, ServerLoses, RestoreDatabase,
                       EndSession
  <1> QED
    BY <1>7, <1>9, <1>10, <1>11, <1>12, <1>13
       DEF SessionNext, vars, serverVars, workerVars, socketVars, sessionVars,
           CommitDesired, PresentDesired, WriteFrame, Welcome, EndSession,
           Connect, ReadFrame, ClientLoses, Take, Reconcile, Abandon,
           DraftStatus, Disconnect, Exit, RestartFrpc, RespawnFrpc,
           ClientDies, StartClient, Break

(***************************************************************************)
(* What RecordAppliedRevision has recorded, the Client has applied: no     *)
(* lost, late or repeated result and no crash of either end can break it.  *)
(***************************************************************************)
THEOREM ServerBelievesTheTruth == SessionSpec => []RecordedIsApplied
  <1>1. SessionInit => BelievedInv
    BY EmptySeq DEF SessionInit, BelievedInv, AtMost
  <1>2. SessionInit => ClientInit
    BY DEF SessionInit
  <1>3. BelievedInv => RecordedIsApplied
    BY DEF BelievedInv, AtMost, RecordedIsApplied
  <1> QED
    BY <1>1, <1>2, <1>3, InitSession, StepSessionTypes, StepBelieved,
       SessionRunsReconciler, ClientInvariant, PTL DEF SessionSpec

-----------------------------------------------------------------------------
(* What the Client works on *)

Behind(r) == r = desired \/ r.revision < desired.revision

\* In a session everything the Client has got from the Server, is working on
\* or reports is the desired runtime or an older one.
BehindInv ==
    slot # "free" =>
        /\ \A i \in 1..Len(up) : Behind(up[i].runtime)
        /\ queue # NoRuntime => Behind(queue)
        /\ conn = "open" =>
              /\ work # NoRuntime => Behind(work)
              /\ drafted # NoRuntime => Behind(drafted)
              /\ reporting \/ pc \notin {"down", "idle"} => Behind(target)
              /\ \A i \in 1..Len(down) :
                    down[i].kind = "desired" => Behind(down[i].runtime)

LEMMA StepBehind ==
    SessionTypeOK /\ EndsInv /\ BehindInv /\ [SessionNext]_vars => BehindInv'
  <1> SUFFICES ASSUME SessionTypeOK, EndsInv, BehindInv, [SessionNext]_vars
               PROVE  BehindInv'
    OBVIOUS
  <1>0. SocketTypes /\ ServerTypes /\ WorkerTypes /\ ClientTypeOK
    BY TypesSplit
  <1>1. /\ Len(<<>>) = 0 /\ Len(down) \in Nat /\ Len(up) \in Nat
    BY <1>0, LenProperties, EmptySeq DEF SocketTypes
  <1>2. NoRuntime \notin Runtimes /\ \A r \in Runtimes : r.revision \in Nat
    OBVIOUS
  <1> USE <1>1 DEF serverVars, workerVars, socketVars, sessionVars, EndSession,
                   clientVars, stepVars
  <1>3. CASE slot' = "free"
    BY <1>3 DEF BehindInv
  <1>4. ASSUME NEW d \in Runtimes, CommitDesired(d) PROVE BehindInv'
    <2>1. \A r \in Runtimes : Behind(r) => r.revision < desired'.revision
      BY <1>0, <1>2, <1>4 DEF Behind, CommitDesired, ServerTypes, WorkerTypes
    <2>2. \A i \in 1..Len(up) : up[i].runtime \in Runtimes
      <3> TAKE i \in 1..Len(up)
      <3>1. up[i] \in Reports
        BY <1>0, ElementOfSeq DEF SocketTypes
      <3> QED
        BY <3>1 DEF Reports
    <2>3. \A i \in 1..Len(down) :
              down[i].kind = "desired" => down[i].runtime \in Runtimes
      <3> TAKE i \in 1..Len(down)
      <3>1. down[i] \in Frames
        BY <1>0, ElementOfSeq DEF SocketTypes
      <3> QED
        BY <3>1, FrameKinds
    <2>4. \A r \in Runtimes : Behind(r) => Behind(r)'
      BY <2>1 DEF Behind
    <2>5. /\ slot' = slot /\ up' = up /\ queue' = queue /\ conn' = conn
          /\ work' = work /\ drafted' = drafted /\ reporting' = reporting
          /\ pc' = pc /\ target' = target /\ down' = down
      BY <1>4 DEF CommitDesired
    <2>6. \A i \in 1..Len(up) : Behind(up[i].runtime) => Behind(up[i].runtime)'
      BY <2>2, <2>4, <2>5
    <2>7. \A i \in 1..Len(down) : down[i].kind = "desired" =>
              (Behind(down[i].runtime) => Behind(down[i].runtime)')
      BY <2>3, <2>4, <2>5
    <2>8. \A r \in {queue, work, drafted} :
              r # NoRuntime => (Behind(r) => Behind(r)')
      BY <1>0, <2>4, <2>5 DEF ServerTypes, WorkerTypes
    <2>9. reporting \/ pc \notin {"down", "idle"} =>
              (Behind(target) => Behind(target)')
      BY <2>4, <2>5 DEF EndsInv
    <2> QED
      BY <2>5, <2>6, <2>7, <2>8, <2>9, Zenon DEF BehindInv
  <1>5. CASE UNCHANGED <<desired, slot, up, queue, conn, work, drafted,
                         reporting, pc, target, down>>
    BY <1>5 DEF BehindInv, Behind
  <1>6. CASE PresentDesired
    BY <1>6 DEF PresentDesired, Replace, BehindInv, Behind
  <1>7. CASE WriteFrame
    <2>1. queue \in Runtimes /\ Desired(queue) \in Frames /\ Send(Desired(queue))
      BY <1>0, <1>7 DEF WriteFrame, ServerTypes, WorkerTypes, Frames
    <2>2. Desired(queue).runtime = queue
      BY DEF Desired, Frame
    <2>3. slot # "free" => Behind(queue)
      BY <1>2, <2>1 DEF BehindInv
    <2>4. ASSUME conn = "open", slot # "free", NEW i \in 1..Len(down'),
                 down'[i].kind = "desired"
          PROVE  Behind(down'[i].runtime)
      <3>1. CASE down' = down
        BY <2>4, <3>1 DEF BehindInv
      <3>2. CASE /\ Len(down') = Len(down) + 1 /\ down'[Len(down')] = Desired(queue)
                 /\ \A j \in 1..Len(down) : down'[j] = down[j]
        <4>1. i = Len(down') \/ i \in 1..Len(down)
          BY <1>1, <2>4, <3>2
        <4> QED
          BY <2>2, <2>3, <2>4, <3>2, <4>1 DEF BehindInv
      <3> QED
        BY <1>0, <2>1, <3>1, <3>2, SendKeeps
    <2> QED
      BY <1>7, <2>4 DEF WriteFrame, BehindInv, Behind
  <1>8. CASE Welcome /\ slot' = "up"
    <2>1. Desired(desired) \in Frames /\ Send(Desired(desired)) /\ Len(down) = 0
      BY <1>0, <1>8 DEF Welcome, ServerTypes, WorkerTypes, Frames, EndsInv
    <2>2. Desired(desired).runtime = desired
      BY DEF Desired, Frame
    <2>3. \A i \in 1..Len(down') : Behind(down'[i].runtime)
      BY <1>0, <2>1, <2>2, SendKeeps DEF Behind
    <2>4. UNCHANGED <<desired, up, queue, conn, work, drafted, reporting, pc, target>>
      BY <1>8 DEF Welcome
    <2> QED
      BY <1>8, <2>3, <2>4 DEF Welcome, BehindInv, Behind
  <1>9. CASE Receive
    <2>1. up # <<>> /\ up' = Tail(up)
      BY <1>9 DEF Receive
    <2>2. \A i \in 1..Len(up') : up'[i] = up[i + 1] /\ i + 1 \in 1..Len(up)
      BY <1>0, <2>1, TakeOff DEF SocketTypes
    <2> QED
      BY <1>9, <2>2 DEF Receive, BehindInv, Behind
  <1>10. CASE Connect
    BY <1>10 DEF Connect, EndsInv, BehindInv
  <1>11. CASE ReadFrame
    <2>1. down # <<>> /\ down' = Tail(down)
      BY <1>11 DEF ReadFrame
    <2>2. /\ \A i \in 1..Len(down') : down'[i] = down[i + 1] /\ i + 1 \in 1..Len(down)
          /\ 1 \in 1..Len(down) /\ Head(down) = down[1]
      BY <1>0, <2>1, TakeOff DEF SocketTypes
    <2>3. /\ UNCHANGED <<desired, slot, up, queue, drafted, reporting, pc, target>>
          /\ conn = "open"
          /\ \/ work' = work
             \/ Head(down).kind = "desired" /\ work' = Head(down).runtime
      BY <1>0, <1>11, ReadTakes
    <2> QED
      BY <2>2, <2>3 DEF BehindInv, Behind
  <1>12. CASE conn' # "open" /\ UNCHANGED <<desired, slot, up, queue>>
    BY <1>12 DEF BehindInv, Behind
  <1>13. CASE Take
    BY <1>13 DEF Take, Begin, BehindInv, Behind
  <1>14. CASE Reconcile
    <2>1. pc \notin {"down", "idle"} /\ UNCHANGED target
      BY <1>14 DEF Reconcile, ApplyStep, Accept, AcceptFails, Leave, LeaveFails,
                   Prepare, PrepareFails, PrepareStopFails, Write, WriteFails,
                   Start, StartFails, Commit, CommitFails, RollbackStop,
                   RollbackWrite, RollbackStart
    <2> QED
      BY <1>14, <2>1 DEF Reconcile, BehindInv, Behind
  \* A report is posted about something that is behind.
  <1>15. ASSUME NEW m \in Reports, Post(m), slot # "free" => Behind(m.runtime)
         PROVE  slot # "free" => \A i \in 1..Len(up') : Behind(up'[i].runtime)
    <2>1. CASE up' = up
      BY <2>1 DEF BehindInv
    <2>2. CASE /\ Len(up') = Len(up) + 1 /\ up'[Len(up')] = m
               /\ \A i \in 1..Len(up) : up'[i] = up[i]
      <3>1. ASSUME slot # "free", NEW i \in 1..Len(up')
            PROVE  Behind(up'[i].runtime)
        <4>1. i = Len(up') \/ i \in 1..Len(up)
          BY <1>1, <2>2
        <4> QED
          BY <1>15, <2>2, <3>1, <4>1 DEF BehindInv
      <3> QED
        BY <3>1
    <2> QED
      BY <1>0, <1>15, <2>1, <2>2, PostKeeps
  <1>16. CASE ReportResult /\ conn = "open"
    <2>1. target \in Runtimes /\ pc = "done" /\ pc' = "idle" /\ target' = target
      BY <1>16 DEF ReportResult, Return, Goto, EndsInv
    <2> DEFINE m == Report("result", target, Succeeded)
    <2>2. m \in Reports /\ m.runtime = target
      BY <2>1 DEF Report, Reports, Succeeded
    <2>3. slot # "free" => Behind(target)
      BY <1>16, <2>1 DEF BehindInv
    <2>4. /\ Post(m)
          /\ UNCHANGED <<desired, slot, queue, work, drafted, down>>
      BY <1>16 DEF ReportResult
    <2>5. slot # "free" => \A i \in 1..Len(up') : Behind(up'[i].runtime)
      BY <1>15, <2>2, <2>3, <2>4
    <2> QED
      BY <1>16, <2>1, <2>3, <2>4, <2>5 DEF BehindInv, Behind
  <1>17. CASE WriteStatus
    <2> DEFINE m == Report("status", drafted, TRUE)
    <2>1. m \in Reports /\ m.runtime = drafted
      BY <1>0, <1>17 DEF WriteStatus, ServerTypes, WorkerTypes, Report, Reports
    <2>2. slot # "free" => Behind(drafted)
      BY <1>17 DEF WriteStatus, BehindInv
    <2>3. /\ Post(m) /\ drafted' = NoRuntime
          /\ UNCHANGED <<desired, slot, queue, conn, work, reporting, pc, target,
                         down>>
      BY <1>17 DEF WriteStatus
    <2>4. slot # "free" => \A i \in 1..Len(up') : Behind(up'[i].runtime)
      BY <1>15, <2>1, <2>2, <2>3
    <2> QED
      BY <2>3, <2>4 DEF BehindInv, Behind
  <1>18. CASE DraftStatus
    BY <1>18 DEF DraftStatus, BehindInv, Behind
  <1>19. CASE Break
    BY <1>19 DEF Break, BehindInv, Behind
  <1>20. CASE RestartFrpc \/ RespawnFrpc
    BY <1>5, <1>20 DEF RestartFrpc, Restart, RespawnFrpc, Respawn
  <1> QED
    BY <1>3, <1>4, <1>5, <1>6, <1>7, <1>8, <1>9, <1>10, <1>11, <1>12, <1>13,
       <1>14, <1>16, <1>17, <1>18, <1>19, <1>20
       DEF SessionNext, vars, Welcome, Reject, RecordFails, Record,
           ServerLoses, RestoreDatabase, ClientLoses, ReportResult, Abandon,
           Disconnect, Exit, ClientDies, StartClient, Boot, EndsInv

LEMMA BehindHolds ==
    SessionSpec => [](SessionTypeOK /\ EndsInv /\ BehindInv)
  <1>1. SessionInit => BehindInv
    BY DEF SessionInit, BehindInv
  <1> QED
    BY <1>1, InitSession, StepSessionTypes, StepBehind, PTL DEF SessionSpec

(***************************************************************************)
(* The 4400 that ends a Client for good is never earned by a Client that   *)
(* mixes up its sessions or its snapshots: the report it answers was true  *)
(* of a runtime which the Server has replaced since.                       *)
(***************************************************************************)
THEOREM RejectsOvertaken == SessionSpec => []OnlyOvertakenAreRejected
  <1>1. SessionTypeOK /\ BehindInv => OnlyOvertakenAreRejected
    BY DEF SessionTypeOK, BehindInv, Behind, OnlyOvertakenAreRejected, Current,
           Older
  <1> QED
    BY <1>1, BehindHolds, PTL

-----------------------------------------------------------------------------
(* The last snapshot *)

\* The snapshot that the Client will have once everything on the way is there.
Latest ==
    IF queue # NoRuntime THEN queue
    ELSE IF Len(down) > 0 THEN down[Len(down)].runtime ELSE work

LatestInv ==
    conn = "open" =>
        /\ ~woken /\ work # NoRuntime => target = work
        /\ slot = "up" =>
              /\ \A i \in 1..Len(down) : down[i].kind = "desired"
              /\ ~broken /\ ~notify => Latest = desired

LEMMA StepLatest ==
    SessionTypeOK /\ EndsInv /\ BehindInv /\ LatestInv /\ [SessionNext]_vars
        => LatestInv'
  <1> SUFFICES ASSUME SessionTypeOK, EndsInv, BehindInv, LatestInv,
                      [SessionNext]_vars
               PROVE  LatestInv'
    OBVIOUS
  <1>0. SocketTypes /\ ServerTypes /\ WorkerTypes
    BY TypesSplit
  <1>1. Len(<<>>) = 0 /\ Len(down) \in Nat
    BY <1>0, LenProperties, EmptySeq DEF SocketTypes
  <1>2. NoRuntime \notin Runtimes
    OBVIOUS
  <1> USE <1>1 DEF serverVars, workerVars, socketVars, sessionVars, EndSession,
                   clientVars, stepVars
  <1>3. CASE conn' # "open"
    BY <1>3 DEF LatestInv
  <1>4. CASE slot' # "up" /\ UNCHANGED <<conn, woken, work, target>>
    BY <1>4 DEF LatestInv
  <1>5. CASE UNCHANGED <<desired, slot, queue, conn, work, woken, target, down,
                         broken, notify>>
    BY <1>5 DEF LatestInv, Latest
  <1>6. ASSUME NEW d \in Runtimes, CommitDesired(d) PROVE LatestInv'
    BY <1>6 DEF CommitDesired, LatestInv
  <1>7. CASE PresentDesired
    <2>1. slot = "up" => queue' = desired /\ desired # NoRuntime
      <3>1. queue # NoRuntime => Behind(queue) \/ slot = "free"
        BY DEF BehindInv
      <3> QED
        BY <1>0, <1>2, <1>7, <3>1
           DEF PresentDesired, Replace, Older, Behind, ServerTypes, WorkerTypes
    <2>2. UNCHANGED <<desired, slot, conn, work, woken, target, down, broken>>
      BY <1>7 DEF PresentDesired
    <2> QED
      BY <2>1, <2>2 DEF LatestInv, Latest
  <1>8. CASE WriteFrame
    <2>1. queue \in Runtimes /\ Desired(queue) \in Frames /\ Send(Desired(queue))
      BY <1>0, <1>8 DEF WriteFrame, ServerTypes, WorkerTypes, Frames
    <2>2. Desired(queue).runtime = queue /\ Desired(queue).kind = "desired"
      BY DEF Desired, Frame
    <2>3. /\ queue' = NoRuntime
          /\ UNCHANGED <<desired, slot, conn, work, woken, target, broken, notify>>
      BY <1>8 DEF WriteFrame
    <2>4. CASE down' = down /\ ~Reaches
      BY <2>3, <2>4 DEF LatestInv, Reaches
    <2>5. CASE /\ Len(down') = Len(down) + 1 /\ down'[Len(down')] = Desired(queue)
               /\ \A i \in 1..Len(down) : down'[i] = down[i]
      <3>1. Latest' = queue
        BY <1>1, <2>2, <2>3, <2>5 DEF Latest
      <3>2. (\A i \in 1..Len(down) : down[i].kind = "desired")
                => \A i \in 1..Len(down') : down'[i].kind = "desired"
        BY <1>1, <2>2, <2>5
      <3> QED
        BY <1>2, <2>1, <2>3, <3>1, <3>2 DEF LatestInv, Latest
    <2> QED
      BY <1>0, <2>1, <2>4, <2>5, SendKeeps
  <1>9. CASE Welcome /\ slot' = "up"
    <2>1. /\ Desired(desired) \in Frames /\ Send(Desired(desired)) /\ Len(down) = 0
          /\ Reaches /\ queue = NoRuntime
      BY <1>0, <1>9 DEF Welcome, ServerTypes, WorkerTypes, Frames, EndsInv
    <2>2. Desired(desired).runtime = desired /\ Desired(desired).kind = "desired"
      BY DEF Desired, Frame
    <2>3. Len(down') = 1 /\ down'[1] = Desired(desired)
      BY <1>0, <2>1, SendKeeps
    <2>4. UNCHANGED <<desired, queue, conn, work, woken, target, broken>>
      BY <1>9 DEF Welcome
    <2> QED
      BY <2>1, <2>2, <2>3, <2>4 DEF LatestInv, Latest
  <1>10. CASE Connect
    BY <1>10 DEF Connect, EndsInv, LatestInv
  <1>11. CASE ReadFrame
    <2>1. down # <<>> /\ down' = Tail(down)
      BY <1>11 DEF ReadFrame
    <2>2. /\ \A i \in 1..Len(down') : down'[i] = down[i + 1] /\ i + 1 \in 1..Len(down)
          /\ 1 \in 1..Len(down) /\ Head(down) = down[1]
          /\ Len(down') = Len(down) - 1
      BY <1>0, <2>1, TakeOff DEF SocketTypes
    <2>3. /\ UNCHANGED <<desired, slot, queue, target, broken, notify>>
          /\ conn = "open"
          /\ \/ conn' # "open"
             \/ work' = Head(down).runtime /\ woken'
      BY <1>0, <1>11, ReadTakes
    <2>4. CASE work' = Head(down).runtime /\ woken'
      <3>1. Latest' = Latest
        BY <1>1, <2>2, <2>3, <2>4 DEF Latest
      <3> QED
        BY <2>2, <2>3, <2>4, <3>1 DEF LatestInv
    <2> QED
      BY <1>3, <2>3, <2>4
  <1>12. CASE Take
    BY <1>12 DEF Take, Begin, LatestInv, Latest
  <1>13. CASE Reconcile
    <2>1. UNCHANGED target
      BY <1>13 DEF Reconcile, ApplyStep, Accept, AcceptFails, Leave, LeaveFails,
                   Prepare, PrepareFails, PrepareStopFails, Write, WriteFails,
                   Start, StartFails, Commit, CommitFails, RollbackStop,
                   RollbackWrite, RollbackStart
    <2> QED
      BY <1>5, <1>13, <2>1 DEF Reconcile
  <1>14. CASE ReportResult /\ conn = "open"
    BY <1>14 DEF ReportResult, Return, Goto, LatestInv, Latest
  <1>15. CASE DraftStatus \/ WriteStatus \/ Record \/ Receive
    BY <1>5, <1>15 DEF DraftStatus, WriteStatus, Record, Receive
  <1>16. CASE Break
    <2>1. broken' /\ down' = <<>>
      BY <1>16 DEF Break
    <2> QED
      BY <1>16, <2>1 DEF Break, LatestInv
  <1>17. CASE RestartFrpc \/ RespawnFrpc
    BY <1>5, <1>17 DEF RestartFrpc, Restart, RespawnFrpc, Respawn
  <1>18. CASE RestoreDatabase \/ Reject \/ RecordFails \/ ServerLoses
    BY <1>4, <1>18 DEF RestoreDatabase, Reject, RecordFails, ServerLoses
  <1>19. CASE Welcome /\ slot' # "up"
    BY <1>4, <1>19 DEF Welcome
  <1> QED
    BY <1>3, <1>5, <1>6, <1>7, <1>8, <1>9, <1>10, <1>11, <1>12, <1>13, <1>14,
       <1>15, <1>16, <1>17, <1>18, <1>19
       DEF SessionNext, vars, ClientLoses, ReportResult, Abandon, Disconnect,
           Exit, ClientDies, StartClient, Boot, EndsInv

(***************************************************************************)
(* Snapshots displace each other in serverAgentOutbound.queue and in       *)
(* worker.desired, but never the last one.                                 *)
(***************************************************************************)
THEOREM LastSnapshotArrives == SessionSpec => []NoLostUpdate
  <1>1. SessionInit => LatestInv
    BY DEF SessionInit, LatestInv
  <1>2. SessionTypeOK /\ LatestInv => NoLostUpdate
    <2>1. SessionTypeOK => desired # NoRuntime
      BY DEF SessionTypeOK
    <2>2. down = <<>> => Len(down) = 0
      BY EmptySeq
    <2> QED
      BY <2>1, <2>2 DEF LatestInv, Latest, NoLostUpdate
  <1> QED
    BY <1>1, <1>2, BehindHolds, StepLatest, PTL DEF SessionSpec

-----------------------------------------------------------------------------
(* Nothing is refused *)

\* r is no step back from what the Client has accepted or is about to accept.
Follows(r) ==
    /\ AtMost(accepted, r)
    /\ pc = "accept" => AtMost(target, r)
    /\ conn = "open" => AtMost(work, r)

\* What is on its way to the Client comes in the order of its revisions.
Coming ==
    /\ work # NoRuntime => Follows(work)
    /\ queue # NoRuntime => Follows(queue)
    /\ \A i \in 1..Len(down) :
          /\ down[i].kind # "incompatible"
          /\ down[i].kind = "desired" =>
                /\ Follows(down[i].runtime)
                /\ AtMost(down[i].runtime, desired)
                /\ queue # NoRuntime => AtMost(down[i].runtime, queue)
                /\ \A j \in 1..Len(down) :
                      i < j /\ down[j].kind = "desired" =>
                          AtMost(down[i].runtime, down[j].runtime)

\* As long as the database moves only forward, so does what the Client is told.
Forward ==
    /\ outcome # "refused" /\ ended # "incompatible"
    /\ Follows(desired) /\ AtMost(known, desired) /\ AtMost(queue, desired)
    /\ conn = "open" => Coming

ForwardInv == restores = 0 => Forward

\* Follows(r) after the step.
Leads(r) ==
    /\ AtMost(accepted', r)
    /\ pc' = "accept" => AtMost(target', r)
    /\ conn' = "open" => AtMost(work', r)

\* The Client goes on with what it has: it accepts only its target, and refuses
\* nothing that was not refused.
GoesOn ==
    /\ accepted' = accepted \/ (pc = "accept" /\ accepted' = target)
    /\ pc' = "accept" => pc = "accept" /\ target' = target
    /\ outcome' = "refused" => outcome = "refused"

LEMMA ClientGoesOn ==
    ASSUME \/ ApplyStep \/ Return \/ Restart \/ Respawn \/ Stop \/ Crash \/ Boot
           \/ UNCHANGED clientVars
    PROVE  GoesOn
  <1> USE DEF GoesOn, fileVars, stepVars, Goto, End, Undo
  <1>1. CASE Accept \/ AcceptFails \/ Leave \/ LeaveFails
    BY <1>1 DEF Accept, AcceptFails, Leave, LeaveFails
  <1>2. CASE Prepare \/ PrepareFails \/ PrepareStopFails \/ Write \/ WriteFails
    BY <1>2 DEF Prepare, PrepareFails, PrepareStopFails, Write, WriteFails
  <1>3. CASE Start \/ StartFails \/ Commit \/ CommitFails
    BY <1>3 DEF Start, StartFails, Commit, CommitFails
  <1>4. CASE RollbackStop \/ RollbackWrite \/ RollbackStart
    BY <1>4 DEF RollbackStop, RollbackWrite, RollbackStart
  <1>5. CASE Return \/ Restart \/ Respawn \/ Stop \/ Crash \/ Boot
    BY <1>5 DEF Return, Restart, Respawn, Stop, Crash, Boot
  <1>6. CASE UNCHANGED clientVars
    BY <1>6 DEF clientVars
  <1> QED
    BY <1>1, <1>2, <1>3, <1>4, <1>5, <1>6 DEF ApplyStep

LEMMA GoesOnFollows ==
    ASSUME GoesOn, NEW r, Follows(r),
           conn' = "open" => conn = "open" /\ work' \in {work, r, NoRuntime},
           r # NoRuntime
    PROVE  Leads(r)
  BY DEF GoesOn, Follows, Leads, AtMost

\* The desired runtime, and what the Client asks for with it, after a step that
\* is not a commit.
LEMMA GoesOnForward ==
    ASSUME SessionTypeOK, Forward, GoesOn, desired' = desired,
           known' \in {known, NoRuntime}, queue' \in {queue, desired, NoRuntime},
           conn' = "open" => conn = "open" /\ work' \in {work, NoRuntime},
           ended' # "incompatible", conn' = "open" => Coming'
    PROVE  Forward'
  <1>1. desired # NoRuntime
    BY DEF SessionTypeOK
  <1>2. Leads(desired)
    BY <1>1, GoesOnFollows DEF Forward
  <1> QED
    BY <1>2 DEF Forward, Follows, Leads, GoesOn, AtMost

\* And with the same frames and snapshots on the way.
LEMMA SameComing ==
    ASSUME SessionTypeOK, Forward, GoesOn, conn = "open",
           UNCHANGED <<desired, queue, work, down>>
    PROVE  Coming'
  <1>1. \A r : r # NoRuntime /\ Follows(r) => Leads(r)
    BY GoesOnFollows
  <1>2. \A i \in 1..Len(down) : down[i].kind = "desired" => down[i].runtime # NoRuntime
    <2> TAKE i \in 1..Len(down)
    <2>1. down[i] \in Frames
      BY TypesSplit, ElementOfSeq DEF SocketTypes
    <2> QED
      BY <2>1, FrameKinds
  <1>3. Coming /\ conn = "open"
    BY DEF Forward
  <1>4. \A r : Leads(r) => AtMost(accepted', r) /\ (pc' = "accept" => AtMost(target', r))
                           /\ (conn' = "open" => AtMost(work', r))
    BY DEF Leads
  <1> QED
    BY <1>1, <1>2, <1>3, <1>4 DEF Coming, Follows

\* A frame that goes down behind the others.
LEMMA SentComing ==
    ASSUME SessionTypeOK, Forward, conn = "open", NEW f \in Frames, Send(f),
           f.kind # "incompatible",
           f.kind = "desired" => f.runtime \in {desired, queue},
           queue' \in {queue, NoRuntime},
           queue # NoRuntime /\ f.kind = "desired" => f.runtime = queue,
           UNCHANGED <<desired, work, conn, accepted, target, pc>>
    PROVE  Coming'
  <1>0. SocketTypes /\ Len(down) \in Nat
    BY TypesSplit, LenProperties DEF SocketTypes
  <1>1. Coming /\ Follows(desired) /\ AtMost(queue, desired)
    BY DEF Forward
  <1>2. \A r : Follows(r)' <=> Follows(r)
    BY DEF Follows
  <1>3. f.kind = "desired" => /\ Follows(f.runtime) /\ AtMost(f.runtime, desired)
                              /\ f.runtime # NoRuntime
    BY <1>1, FrameKinds DEF Coming, AtMost
  <1>4. CASE down' = down
    BY <1>1, <1>2, <1>4 DEF Coming
  <1>5. CASE /\ Len(down') = Len(down) + 1
             /\ \A i \in 1..Len(down) : down'[i] = down[i]
             /\ down'[Len(down')] = f
    <2>1. \A i \in 1..Len(down') : \/ i \in 1..Len(down) /\ down'[i] = down[i]
                                   \/ i = Len(down') /\ down'[i] = f
      BY <1>0, <1>5
    <2>2. ASSUME NEW i \in 1..Len(down), down[i].kind = "desired", f.kind = "desired"
          PROVE  AtMost(down[i].runtime, f.runtime)
      <3>1. /\ AtMost(down[i].runtime, desired)
            /\ queue # NoRuntime => AtMost(down[i].runtime, queue)
        BY <1>1, <2>2 DEF Coming
      <3>2. f.runtime = desired \/ (f.runtime = queue /\ queue # NoRuntime)
        BY <1>3, <2>2
      <3> QED
        BY <3>1, <3>2
    <2>3. ASSUME NEW i \in 1..Len(down')
          PROVE  down'[i].kind # "incompatible"
      BY <2>1, <1>1 DEF Coming
    <2>4. ASSUME NEW i \in 1..Len(down'), down'[i].kind = "desired"
          PROVE  /\ Follows(down'[i].runtime) /\ AtMost(down'[i].runtime, desired)
                 /\ queue' # NoRuntime => AtMost(down'[i].runtime, queue')
      BY <2>1, <2>4, <1>1, <1>3 DEF Coming, AtMost
    <2>5. ASSUME NEW i \in 1..Len(down'), NEW j \in 1..Len(down'), i < j,
                 down'[i].kind = "desired", down'[j].kind = "desired"
          PROVE  AtMost(down'[i].runtime, down'[j].runtime)
      <3>1. i \in 1..Len(down) /\ down'[i] = down[i]
        BY <1>0, <1>5, <2>5
      <3>2. CASE j \in 1..Len(down) /\ down'[j] = down[j]
        BY <2>5, <3>1, <3>2, <1>1 DEF Coming
      <3>3. CASE down'[j] = f
        BY <2>5, <3>1, <3>3, <2>2
      <3> QED
        BY <2>1, <3>2, <3>3
    <2>6. /\ work' # NoRuntime => Follows(work)
          /\ queue' # NoRuntime => Follows(queue)
      BY <1>1 DEF Coming
    <2> QED
      BY <1>2, <2>3, <2>4, <2>5, <2>6 DEF Coming
  <1> QED
    BY <1>0, <1>4, <1>5, SendKeeps

LEMMA StepForward ==
    ASSUME SessionTypeOK, EndsInv, ClientInv, ForwardInv, [SessionNext]_vars
    PROVE  ForwardInv'
  <1> SUFFICES ASSUME restores' = 0 PROVE Forward'
    BY DEF ForwardInv
  <1>0. SocketTypes /\ ServerTypes /\ WorkerTypes /\ ClientTypeOK /\ Len(<<>>) = 0
    BY TypesSplit, EmptySeq
  <1>1. restores = 0 /\ ~RestoreDatabase
    <2>1. ~RestoreDatabase => restores' = restores
      <3>1. CASE \/ \E d \in Runtimes : CommitDesired(d)
                 \/ PresentDesired \/ WriteFrame \/ Welcome \/ Reject \/ Receive
        BY <3>1 DEF CommitDesired, PresentDesired, WriteFrame, Welcome, Reject, Receive,
                    boundVars
      <3>2. CASE \/ Record \/ RecordFails \/ ServerLoses \/ Connect \/ ReadFrame
                 \/ ClientLoses \/ Take \/ ReportResult
        BY <3>2 DEF Record, RecordFails, ServerLoses, Connect, ReadFrame, ClientLoses,
                    Take, ReportResult, boundVars
      <3>3. CASE \/ Reconcile \/ Abandon \/ Exit \/ RestartFrpc \/ RespawnFrpc
                 \/ UNCHANGED vars
        BY <3>3 DEF Reconcile, Abandon, Exit, RestartFrpc, RespawnFrpc, vars,
                    sessionVars, boundVars
      <3>4. CASE \/ DraftStatus \/ WriteStatus \/ Disconnect \/ ClientDies
                 \/ StartClient \/ Break
        BY <3>4 DEF DraftStatus, WriteStatus, Disconnect, ClientDies, StartClient,
                    Break, boundVars
      <3> QED
        BY <3>1, <3>2, <3>3, <3>4 DEF SessionNext
    <2>2. restores \in Nat
      BY SessionBounds, TypesSplit DEF CountTypes, SessionBounds
    <2> QED
      BY <2>1, <2>2 DEF RestoreDatabase
  <1>2. Forward /\ Follows(desired) /\ desired \in Runtimes /\ desired # NoRuntime
    BY <1>0, <1>1 DEF ForwardInv, Forward, ServerTypes, WorkerTypes
  <1> USE DEF serverVars, workerVars, socketVars, sessionVars
  <1>3. ASSUME NEW d \in Runtimes, CommitDesired(d) PROVE Forward'
    <2>1. d # NoRuntime /\ desired' = d /\ AtMost(desired, d)
      BY <1>0, <1>2, <1>3 DEF CommitDesired, AtMost
    <2>2. \A r \in RuntimeOrNone : AtMost(r, desired) => AtMost(r, d)
      BY <1>2, <2>1, AtMostTrans
    <2>3. /\ UNCHANGED <<accepted, pc, target, conn, work, queue, known, down, outcome,
                         ended>>
      BY <1>3 DEF CommitDesired, clientVars, fileVars, stepVars
    <2>4. /\ accepted \in RuntimeOrNone /\ target \in RuntimeOrNone
          /\ work \in RuntimeOrNone /\ queue \in RuntimeOrNone /\ known \in RuntimeOrNone
      BY <1>0 DEF ClientTypeOK, ServerTypes, WorkerTypes
    <2>5. \A i \in 1..Len(down) :
              down[i].kind = "desired" => down[i].runtime \in RuntimeOrNone
      <3> TAKE i \in 1..Len(down)
      <3>1. down[i] \in Frames
        BY <1>0, ElementOfSeq DEF SocketTypes
      <3> QED
        BY <3>1, FrameKinds
    <2>6. Follows(d) /\ AtMost(known, d) /\ AtMost(queue, d)
      BY <1>2, <2>2, <2>4 DEF Follows, Forward
    <2>7. \A r : Follows(r)' <=> Follows(r)
      BY <2>3 DEF Follows
    <2>8. conn = "open" => Coming'
      BY <1>2, <2>2, <2>3, <2>5, <2>7, <2>1 DEF Coming, Forward
    <2> QED
      BY <1>2, <2>1, <2>3, <2>6, <2>7, <2>8 DEF Forward
  <1>4. CASE PresentDesired
    <2>1. queue' \in {queue, desired} /\ GoesOn
      BY <1>4, ClientGoesOn DEF PresentDesired, Replace
    <2>2. UNCHANGED <<desired, known, conn, work, ended, down, accepted, pc, target>>
      BY <1>4 DEF PresentDesired, clientVars, fileVars, stepVars
    <2>3. \A r : Follows(r)' <=> Follows(r)
      BY <2>2 DEF Follows
    <2>4. ASSUME conn = "open" PROVE Coming'
      <3>1. Coming
        BY <1>2, <2>4 DEF Forward
      <3>2. queue' # NoRuntime => Follows(queue')
        BY <1>2, <2>1, <3>1 DEF Coming
      <3>3. \A i \in 1..Len(down) : down[i].kind = "desired" /\ queue' # NoRuntime =>
                AtMost(down[i].runtime, queue')
        BY <2>1, <3>1 DEF Coming
      <3> QED
        BY <2>2, <2>3, <3>1, <3>2, <3>3 DEF Coming
    <2>5. ended' # "incompatible"
      BY <1>2, <2>2 DEF Forward
    <2> QED
      BY <1>2, <2>1, <2>2, <2>4, <2>5, GoesOnForward
  <1>5. CASE WriteFrame
    <2>1. queue \in Runtimes /\ Desired(queue) \in Frames /\ Send(Desired(queue))
      BY <1>0, <1>5 DEF WriteFrame, ServerTypes, WorkerTypes, Frames
    <2>2. Desired(queue).runtime = queue /\ Desired(queue).kind = "desired"
      BY DEF Desired, Frame
    <2>3. /\ queue' = NoRuntime /\ GoesOn
          /\ UNCHANGED <<desired, known, conn, work, ended, accepted, pc, target>>
      BY <1>5, ClientGoesOn DEF WriteFrame, clientVars, fileVars, stepVars
    <2>4. conn = "open" => Coming'
      BY <1>2, <2>1, <2>2, <2>3, SentComing
    <2>5. ended' # "incompatible"
      BY <1>2, <2>3 DEF Forward
    <2> QED
      BY <1>2, <2>3, <2>4, <2>5, GoesOnForward
  <1>6. CASE Welcome
    <2>1. /\ Desired(desired) \in Frames /\ queue = NoRuntime /\ Invalid \in Frames
          /\ Desired(desired).runtime = desired /\ Desired(desired).kind = "desired"
      BY <1>2, <1>6 DEF Frames, Desired, Frame, Welcome, EndsInv
    <2>2. ~(known # NoRuntime /\ known.revision > desired.revision)
      BY <1>0, <1>2 DEF Forward, AtMost, ServerTypes, WorkerTypes
    <2>3. Send(Desired(desired)) /\ queue' = queue
      BY <1>6, <2>2 DEF Welcome
    <2>4. /\ GoesOn
          /\ UNCHANGED <<desired, known, conn, work, ended, accepted, pc, target>>
      BY <1>6, ClientGoesOn DEF Welcome, clientVars, fileVars, stepVars
    <2>5. conn = "open" => Coming'
      BY <1>2, <2>1, <2>3, <2>4, SentComing
    <2>6. ended' # "incompatible"
      BY <1>2, <2>4 DEF Forward
    <2> QED
      BY <1>2, <2>3, <2>4, <2>5, <2>6, GoesOnForward
  <1>7. CASE Reject \/ RecordFails
    <2>1. Invalid \in Frames /\ Invalid.kind = "invalid"
      BY DEF Frames, Invalid, Frame
    <2>2. /\ Send(Invalid) /\ queue' = NoRuntime /\ GoesOn
          /\ UNCHANGED <<desired, known, conn, work, ended, accepted, pc, target>>
      BY <1>7, ClientGoesOn
         DEF Reject, RecordFails, EndSession, clientVars, fileVars, stepVars
    <2>3. conn = "open" => Coming'
      BY <1>2, <2>1, <2>2, SentComing
    <2>4. ended' # "incompatible"
      BY <1>2, <2>2 DEF Forward
    <2> QED
      BY <1>2, <2>2, <2>3, <2>4, GoesOnForward
  <1>8. CASE ReadFrame
    <2>1. down # <<>> /\ down' = Tail(down)
      BY <1>8 DEF ReadFrame
    <2>2. /\ \A i \in 1..Len(down') : down'[i] = down[i + 1] /\ i + 1 \in 1..Len(down)
          /\ 1 \in 1..Len(down) /\ Head(down) = down[1] /\ Len(down) \in Nat
          /\ Len(down') = Len(down) - 1
      BY <1>0, <2>1, TakeOff DEF SocketTypes
    <2>3. /\ UNCHANGED <<desired, queue, known, accepted, pc, target, outcome>>
          /\ conn = "open" /\ Coming
          /\ \/ conn' # "open" /\ Head(down).kind # "desired"
             \/ /\ work' = Head(down).runtime /\ Head(down).kind = "desired"
                /\ conn' = conn /\ ended' = ended
      BY <1>0, <1>2, <1>8, ReadTakes DEF Forward, clientVars, fileVars, stepVars
    <2>4. ended' # "incompatible"
      <3>1. Head(down).kind # "incompatible" /\ ended # "incompatible"
        BY <1>2, <2>2, <2>3 DEF Coming, Forward
      <3>2. Head(down).kind \in {"desired", "invalid", "incompatible"}
        BY <1>0, <2>1, TakeOff, FrameKinds DEF SocketTypes
      <3>3. CASE Head(down).kind = "desired"
        <4>1. UNCHANGED ended
          BY <1>8, <3>3 DEF ReadFrame
        <4> QED
          BY <3>1, <4>1
      <3>4. CASE Head(down).kind = "invalid"
        <4>1. ended' = "protocol"
          BY <1>8, <3>4 DEF ReadFrame
        <4> QED
          BY <4>1
      <3> QED
        BY <3>1, <3>2, <3>3, <3>4
    <2>5. CASE conn' # "open"
      BY <1>2, <2>3, <2>4, <2>5 DEF Forward, Follows
    <2>6. CASE conn' = "open" /\ Head(down).kind = "desired" /\ work' = Head(down).runtime
      <3>1. \A r : AtMost(work', r) /\ Follows(r) => Follows(r)'
        BY <2>3 DEF Follows
      <3>2. AtMost(work', desired) /\ Follows(work')
        BY <2>2, <2>3, <2>6 DEF Coming
      <3>3. Follows(desired)' /\ Follows(work)'
        <4>1. AtMost(work', work')
          BY DEF AtMost
        <4> QED
          BY <1>2, <2>3, <3>1, <3>2, <4>1 DEF Follows
      <3>4. queue # NoRuntime => Follows(queue)'
        BY <2>2, <2>3, <2>6, <3>1 DEF Coming, Follows
      <3>5. ASSUME NEW i \in 1..Len(down')
            PROVE  /\ down'[i].kind # "incompatible"
                   /\ down'[i].kind = "desired" =>
                        /\ Follows(down[i].runtime)'
                        /\ AtMost(down'[i].runtime, desired)
                        /\ queue # NoRuntime => AtMost(down'[i].runtime, queue)
                        /\ \A j \in 1..Len(down') :
                             i < j /\ down'[j].kind = "desired" =>
                                AtMost(down'[i].runtime, down'[j].runtime)
        <4>1. down'[i] = down[i + 1] /\ i + 1 \in 1..Len(down) /\ 1 < i + 1
          BY <2>2
        <4>2. down[i + 1].kind # "incompatible"
          BY <4>1, <2>3 DEF Coming
        <4>3. ASSUME down[i + 1].kind = "desired"
              PROVE  /\ AtMost(work', down[i + 1].runtime)
                     /\ AtMost(down[i + 1].runtime, desired)
                     /\ queue # NoRuntime => AtMost(down[i + 1].runtime, queue)
                     /\ Follows(down[i + 1].runtime)
          BY <2>2, <2>3, <2>6, <4>1, <4>3 DEF Coming
        <4>4. ASSUME NEW j \in 1..Len(down'), i < j, down'[j].kind = "desired",
                     down'[i].kind = "desired"
              PROVE  AtMost(down'[i].runtime, down'[j].runtime)
          <5>1. down'[j] = down[j + 1] /\ j + 1 \in 1..Len(down) /\ i + 1 < j + 1
            BY <2>2, <4>4
          <5> QED
            BY <2>3, <4>1, <4>4, <5>1 DEF Coming
        <4>5. down[i + 1].kind = "desired" => Follows(down[i].runtime)'
          BY <2>3, <2>6, <4>1, <4>3 DEF Follows
        <4> QED
          BY <4>1, <4>2, <4>3, <4>4, <4>5
      <3>6. Coming'
        BY <2>3, <3>3, <3>4, <3>5 DEF Coming
      <3> QED
        BY <1>2, <2>3, <2>4, <3>3, <3>6 DEF Forward
    <2> QED
      BY <2>3, <2>5, <2>6
  <1>9. CASE Connect
    <2>1. /\ UNCHANGED <<desired, queue, known, accepted, pc, target, outcome, ended, work>>
          /\ work = NoRuntime /\ queue = NoRuntime /\ Len(down') = 0
      BY <1>0, <1>9 DEF Connect, EndsInv, clientVars, fileVars, stepVars
    <2>2. \A r : Follows(r) => Follows(r)'
      BY <2>1 DEF Follows, AtMost
    <2>3. Coming'
      BY <2>1 DEF Coming
    <2> QED
      BY <1>2, <2>1, <2>2, <2>3 DEF Forward
  <1>10. CASE Take
    <2>1. /\ conn = "open" /\ work # NoRuntime /\ Begin(work) /\ Coming /\ Follows(work)
          /\ UNCHANGED <<desired, queue, work, down, known, conn, ended>>
      BY <1>2, <1>10 DEF Take, Forward, Coming
    <2>2. AtMost(applied, accepted) /\ AtMost(accepted, work)
      BY <2>1 DEF ClientInv, NothingAhead, Follows
    <2>3. AtMost(applied, work)
      BY <1>0, <2>2, AtMostTrans DEF ClientTypeOK, WorkerTypes
    <2>4. ~Refused(work)
      BY <1>0, <2>1, <2>2, <2>3
         DEF Refused, Older, Contradicts, AtMost, ClientTypeOK, WorkerTypes
    <2>5. target' = work /\ pc' = "accept" /\ accepted' = accepted /\ outcome' = outcome
      BY <2>1, <2>4 DEF Begin, Goto, fileVars
    <2>6. \A r : Follows(r) => Follows(r)'
      BY <2>1, <2>5 DEF Follows
    <2>7. Coming'
      BY <2>1, <2>6 DEF Coming
    <2> QED
      BY <1>2, <2>1, <2>5, <2>6, <2>7 DEF Forward
  <1>11. CASE ReportResult
    <2>1. /\ GoesOn /\ pc = "done"
          /\ UNCHANGED <<desired, queue, work, down, ended, accepted, target>>
          /\ pc' = "idle" /\ outcome' = outcome /\ conn = "open"
          /\ known' = known \/ (Succeeded /\ known' = target)
      BY <1>11, ClientGoesOn DEF ReportResult, Return, Goto, fileVars
    <2>2. Succeeded => accepted = target
      BY <2>1 DEF Succeeded, ClientInv, Acknowledged
    <2>3. AtMost(known', desired)
      BY <1>2, <2>1, <2>2 DEF Forward, Follows
    <2>4. Coming'
      BY <1>2, <2>1, SameComing
    <2>5. Follows(desired)'
      BY <1>2, <2>1 DEF Follows
    <2> QED
      BY <1>2, <2>1, <2>3, <2>4, <2>5 DEF Forward
  <1>12. CASE StartClient
    <2>1. /\ GoesOn /\ pc = "down" /\ known' = applied
          /\ UNCHANGED <<desired, queue, work, down, ended, conn>>
      BY <1>12, ClientGoesOn DEF StartClient, Boot
    <2>2. conn # "open"
      BY <2>1 DEF EndsInv
    <2>3. AtMost(applied, accepted) /\ AtMost(accepted, desired)
      BY <1>2 DEF ClientInv, NothingAhead, Follows
    <2>4. AtMost(known', desired)
      BY <1>0, <1>2, <2>1, <2>3, AtMostTrans DEF ClientTypeOK
    <2>5. Leads(desired)
      BY <1>2, <2>1, <2>2, GoesOnFollows
    <2> QED
      BY <1>2, <2>1, <2>2, <2>4, <2>5 DEF Forward, Follows, Leads, GoesOn
  <1>13. CASE ClientDies
    <2>1. /\ GoesOn /\ known' = NoRuntime /\ conn' = "closed"
          /\ UNCHANGED <<desired, queue, ended>>
      BY <1>13, ClientGoesOn DEF ClientDies
    <2>2. ended' # "incompatible"
      BY <1>2, <2>1 DEF Forward
    <2> QED
      BY <1>2, <2>1, <2>2, GoesOnForward
  <1>14. CASE Break
    <2>1. /\ GoesOn /\ Len(down') = 0 /\ conn = "open"
          /\ UNCHANGED <<desired, queue, ended, conn, work, known, accepted, pc, target>>
      BY <1>0, <1>14, ClientGoesOn DEF Break, clientVars, fileVars, stepVars
    <2>2. Coming'
      BY <1>2, <2>1 DEF Forward, Coming, Follows
    <2>3. ended' # "incompatible"
      BY <1>2, <2>1 DEF Forward
    <2> QED
      BY <1>2, <2>1, <2>2, <2>3, GoesOnForward
  <1>15. CASE ServerLoses
    <2>1. /\ GoesOn /\ queue' = NoRuntime
          /\ UNCHANGED <<desired, ended, conn, work, known, accepted, pc, target, down>>
      BY <1>15, ClientGoesOn DEF ServerLoses, EndSession, clientVars, fileVars, stepVars
    <2>2. conn = "open" => Coming'
      BY <1>2, <2>1 DEF Forward, Coming, Follows
    <2>3. ended' # "incompatible"
      BY <1>2, <2>1 DEF Forward
    <2> QED
      BY <1>2, <2>1, <2>2, <2>3, GoesOnForward
  <1>16. CASE /\ GoesOn /\ UNCHANGED <<desired, queue, known, ended>>
              /\ \/ conn' # "open"
                 \/ UNCHANGED <<conn, work, down>>
    <2>1. conn' = "open" => Coming'
      BY <1>2, <1>16, SameComing
    <2>2. ended' # "incompatible"
      BY <1>2, <1>16 DEF Forward
    <2> QED
      BY <1>2, <1>16, <2>1, <2>2, GoesOnForward
  <1>17. CASE Reconcile \/ Abandon \/ Exit \/ RestartFrpc \/ RespawnFrpc
    BY <1>16, <1>17, ClientGoesOn DEF Reconcile, Abandon, Exit, RestartFrpc, RespawnFrpc
  <1>18. CASE ClientLoses \/ Disconnect
    BY <1>16, <1>18, ClientGoesOn DEF ClientLoses, Disconnect
  <1>19. CASE Receive \/ Record \/ DraftStatus \/ WriteStatus
    BY <1>16, <1>19, ClientGoesOn DEF Receive, Record, DraftStatus, WriteStatus
  <1>20. CASE UNCHANGED vars
    BY <1>16, <1>20, ClientGoesOn DEF vars
  <1> QED
    BY <1>1, <1>3, <1>4, <1>5, <1>6, <1>7, <1>8, <1>9, <1>10, <1>11, <1>12, <1>13,
       <1>14, <1>15, <1>17, <1>18, <1>19, <1>20
       DEF SessionNext

(***************************************************************************)
(* As long as no older database has been put back, the Client refuses no   *)
(* snapshot as older or contradictory (client_reconciler.go:               *)
(* PROTOCOL_FAILED) and is never told that its revision is ahead (close    *)
(* 4406): both are for a Server that has been set back.                    *)
(***************************************************************************)
OnlyRestoresSetBack ==
    restores = 0 => outcome # "refused" /\ ended # "incompatible"

\* Snapshots that displace each other, lost sessions, crashes of the Client and
\* failed Applies never make the Client see a step back.
THEOREM NothingIsRefused == SessionSpec => []OnlyRestoresSetBack
  <1>1. SessionInit => ForwardInv
    BY DEF SessionInit, ClientInit, ForwardInv, Forward, Follows, AtMost
  <1>2. ForwardInv => OnlyRestoresSetBack
    BY DEF ForwardInv, Forward, OnlyRestoresSetBack
  <1>3. SessionInit => ClientInit
    BY DEF SessionInit
  <1> QED
    BY <1>1, <1>2, <1>3, InitSession, StepSessionTypes, StepForward,
       SessionRunsReconciler, ClientInvariant, PTL DEF SessionSpec
=============================================================================
