# Verification of the tunnel (ycy)

`ycy` is a collection of command line tools. Most of them are sequential
programs around the file system or git. Its tunnel is not: a Server (the
*Controller*), remote *Nodes* that run FRPS, and *Clients* that run FRPC keep
durable state on three hosts, drive child processes, and talk over a network,
and each of them may die at any point. This project specifies that part, the
pool of worker processes of the file server, and the way ycy replaces its own
binary, in TLA+, checks it with TLC, and proves its safety properties with
TLAPS.

Paths below are relative to `src/`.

- [The system](#the-system): components, state, operations, hazards
- [The modules](#the-modules): what models what, and how
- [Runs](#runs): what TLC checks, the bounds, the fairness
- [Proofs](#proofs)
- [Disagreements between the code and its documents](#disagreements)
- [What is not modelled](#what-is-not-modelled)
- [Next](#next)

## The system

### Parts and how they interact

```
 browser --HTTP--> Server (Controller)  --HTTP + Noise-->  Node management
                   |  registry, desired        status,      |  NodeRuntime
                   |  snapshots, tokens,       commit       |  (node.sqlite row)
                   |  removal (SQLite)                      v
                   |  coordinator                           FRPS process
                   |  agent gateway <--WebSocket-- Client ---^  FRPC
                   |  local FRPS                   reconciler, two state files
```

| component (directory) | state it keeps | operations | what is hard, and what makes it correct |
|---|---|---|---|
| Node runtime record (`pkg/cmd/tunnel/node/runtime_state_v1.go`, `database_v1.go`) | one SQLite row: highest accepted and applied revision, candidate, last good snapshot, phase, failure code, boot_disabled, disabled_complete | accept, set phase, mark applied / disabling / disabled, the checks at opening | a crash after any write; a row that does not open is a dead Node; the phase is what the Controller acts on |
| Node runtime (`node/node_runtime.go`) | supervisor, active configuration, owner of the FRPS process, recovery error, ownerUnknown | recover, applyAccepted, applyDisabled, rollback, trackRecovery, status | crashes between durable writes and process operations; every operation can fail; a goroutine per supervisor event; FRPS outlives the Node |
| Node management (`node/management*.go`) | the Controller binding; partial transfers | claim, status, chunks, commit | late, repeated, stale and conflicting commits |
| FRP supervisor (`internal/tunnelruntime/frp_supervisor.go`) | child, desiredRunning, retry and stable timers, failure count, published state | Start, Stop, Restart, ConfigurationFailed, watchExit, the recovery timer | two mutexes, a watcher per child, timers that have already fired, processes that do not stop; one child at a time, no child after Stop, a truthful state |
| State locks (`internal/tunnelruntime/state_lock.go`) | a directory and an owner file in it | acquire, release, reclaim | several processes, non-atomic check and rename, crashes; mutual exclusion |
| Process identity (`process_identity.go`, `process_termination_*.go`) | none | verify and terminate a recorded owner | PID reuse |
| Node registry and desired state (`pkg/cmd/tunnel/server/server_nodes.go`, `server_node_desired.go`) | nodes, remote_nodes: lifecycle, desired revision, snapshot and hash | register, save, reapply, refresh inherited | revisions are a promise to a remote host that remembers them |
| Token rotation (`server_node_token.go`) | active and staged token, staged revision | stage, promote | Clients must get the token the Node serves |
| Removal (`server_node_removal.go`) | lifecycle removing | request, finish, force forget | decided by a status that is old when it is used |
| Coordinator (`server_node_coordinator.go`, `server_node_observation.go`, `server_node_management_wire.go`) | a record and a status it has read; observations | reconcile a Node: status, observe, decide, send, status, observe, finish | everything it knows is stale; requests time out and arrive all the same |
| Clients and Tunnels (`server_clients.go`, `server_tunnels.go`) | current and pending Node, desired revision, ports | create, assign, rotate, allocate | assignment against removal; port exhaustion |
| Agent gateway (`server_agent*.go`) | one slot per Client, runtime projection, an outbound queue | authorize, activate, present, revoke, release | revocation races reconnection; a replaceable frame in a queue of one |
| Client reconciler (`pkg/cmd/tunnel/connect/client_reconciler.go`, `client_state.go`) | accepted and applied state files, active configuration | apply, restart, stop, rollback | partial failure between files and process; two Nodes |
| Server runtime (`server_runtime.go`, `server_frps.go`) | start order, local FRPS | acquire, serve, close | shutdown in the middle of a start |
| Updater (`internal/updater`) | candidate, state file (the journal), target and backup binaries | consume, upgrade, replace, roll back | several processes with nothing but files between them; a death between two renames; a rollback that fails |
| Thumbnail worker pool (`internal/fsthumbnail/thumbnail_pool.go`) | slots with a worker process and its task, a queue, timers | convert, complete, fail, time out, replace, close | a timeout racing an answer, Close racing a replacement, workers that hang or cannot be launched |
| File server (`pkg/cmd/fs`) | upload and extraction sessions, task events, staging directories | chunks, publish, cancel, sweep | limits, cancellation, concurrent chunks |
| File sessions (`internal/filesession`) | session directories with live owners | create, lease, sweep | crash recovery, PID liveness |
| Directory comparison (`pkg/cmd/diff`) | workspace generations, event subscribers | scan, refresh, query | a refresh overtaken by another |
| Configuration store (`internal/appconfig`) | encrypted TOML files and a lock | read, modify, publish | lost update, crash while publishing |
| Terminal (`internal/terminal`) | the lease of the terminal | prompt, progress | presentation |
| git cm, fork, heat, pulse; zip; rm; run; export env; upgrade; config | none | one command each | sequential |
| Database client (`ent/`, generated), front ends (`web/`, TypeScript), tools, acceptance tests | | | outside |

`PROJECT.json` lists each with its sources and how much of it is modelled, and
under `hazards` the places in the code where something can go wrong that a
test would hardly reach, each with the properties that watch it.

## The modules

| module | models | extends |
|---|---|---|
| `NodeRecord` | the durable row and the protocol of its writes: the abstract specification of a Node | |
| `NodeRuntime` | one Node: recover, apply, disable, rollback, the supervisor as the Node sees it, FRPS processes, crashes, failures | `NodeRecord` |
| `NodeControl` | a Controller managing that Node over a network | `NodeRuntime` |
| `FrpChild` | what the owner of an FRP supervisor relies on: an abstract specification | |
| `FrpSupervisor` | one supervisor with its mutexes, watchers, timers and failing signals | (instantiates `FrpChild`) |
| `StateLock` | the directory lock, one file system call per step | |
| `ClientTargets` | what a Client promises about the targets it is given: an abstract specification | |
| `ClientReconciler` | the Client's state files, `frpc.toml` and frpc through Apply, rollback, restart | (instantiates `ClientTargets`) |
| `AgentSession` | the Server's gateway, the socket and the Client's run loop around the reconciler | `ClientReconciler` |
| `ThumbnailPool` | the thumbnail worker pool | |
| `SelfUpdate` | upgrades, their detached updaters and other commands over the binary and the state file | |
| `*_proofs` | theorems about the module of that name (`NodeRuntime_proofs`: about NodeRecord, too) | the module and TLAPS |
| `MC*` | sets and symmetry for TLC | |

### NodeRecord

The variables are the columns of `runtime_state` (without the owner columns).
One operator per function of `runtime_state_v1.go`: `Accept`, `SetPhase`,
`MarkRunningApplied`, `MarkDisabling`, `MarkDisabled`. `RecordSpec` says which
write may follow which; it is what a Node promises its Controller. A snapshot
is a record of revision, state and body, and stands for its document, its
SHA-256 (taken to be injective) and the path of the configuration rendered
from it. `"none"` is the empty failure code and `NoSnapshot` the NULL.

### NodeRuntime

`pc` is the next step of the one operation that holds `runtime.mu`. A step is
one durable write, one operation of the supervisor, or one decision, because
a crash, an FRPS exit, the supervisor's own recovery and a `trackRecovery` goroutine can
fall between any two of them. The three places that start FRPS (recover, apply, rollback)
share `Start`, `Confirm`, `Remember`, with `task` for the caller.

- Every operation can fail where the code handles its failure. `Faults` names
  the kinds an instance allows: `files`, `verify`, `spawn`, `stop`,
  `identity`, `store`.
- `proc` is the processes there really are; `child` is what the supervisor
  believes and `owner` what the row says. FRPS outlives the Node, so `Crash`
  leaves `proc` and the row and resets the rest.
- `StopChild` drops the child before it terminates it, as `stopChild` does: a
  failed stop leaves a process nobody supervises.
- `trackers` are goroutines waiting for the mutex, `tracking` the one inside;
  it reads the supervisor's state twice, and so does the model.
- The transfer of a snapshot before its commit is left out: it writes a
  temporary file. `Receive` is the commit.

### NodeControl

The Controller's row of the Node, the requests on it (one transaction and
therefore one step each), and `reconcileNode` as steps: `CoordGet`,
`StatusAnswers` or `StatusFails`, `Observe`, `Decide`, `Send`, once more a
status and `Observe`, `Finish`. `rec` and `seen` are the record and the status
it has read and keeps using while requests change the row. `lifecycleMu`
covers the whole round, which is why only Force Forget and the refresh, which
`Reconcile` makes before a round, wait for `step = "rest"`. (The refresh and
the round are made by the same goroutine.)

`wire` holds commits under way. `Send` puts one there; it may arrive at any
later time (`Deliver`), also long after the coordinator has given it up, or
never (`Lose`). It is lost with the Node process.

A token is the number of its generation. A snapshot's contents other than the
token are left out: two snapshots of one registration and one revision are
never different documents.

A registration is two steps, as in `serverNodeService.register`. First the Node
is asked over the network: `ClaimNode`, or `ReadHighest` for one claimed before,
whose high-water mark the request keeps (`mark`). Later `Register` makes the row
from that mark, or the request fails (`RegistrationFails`). A member of `Admins`
is one such request. Anything can come in between: another registration, its
removal, and commits that raise the Node above the mark.

`late` is a history variable of the row: when it was made, a commit was under
way, or the Node had accepted one since the mark was read, or it was still
applying one of a registration that was itself late. Only an earlier
registration of the same Node (force-forgotten) can have left these; the
Controller neither recalls nor notices them. The properties of the row except
it: such a commit can be accepted between the status and the promotion or after
the removal, and the Node can be above the row, with another document under its
revision.

### FrpChild and FrpSupervisor

NodeRuntime takes `Start` and `Stop` of the supervisor as single steps. What
makes that reasonable is checked here, one level down; the Client's FRPC and
the Server's own FRPS have the same supervisor.

`pc` is the place of whoever holds `operations`: a request, a watcher
(`WatchExit`) or a retry callback (`TimerRuns`); `"free"` means nobody, and
those three, and the requests, begin only then. `mu` is held for single
accesses only, and each falls within one step. Everything else falls between any two steps:

- `Exits`: a process ends, by itself or by its signal. `alive` is what there really
  is, `child` what the supervisor believes.
- `TimerFires`: a retry timer fires; its callback then waits (`waiting`), and
  clearing `retryTimer` does not take it back. A timer is an identity, as the
  callback compares it.
- `StableFires`, `StableRuns`: likewise for the stable timer, whose callback
  needs only `mu`; `ripe` are the children it has fired for.

`stopChild` is the steps `Terminate`, `WaitExit`, `WaitKilled`, with the child
forgotten before (`TakeChild`) and the caller's rest after it (`StopReturns`).
`stopFailed` is the error of `stopChild`, kept until the next operation that
calls it or spawns; `lost` is a history variable.
`failureCount` is kept as the index of the next delay, its only use. A name of
a process or a timer is used again when nothing refers to it any more
(`Unused`); the bound `Room` makes a request or retry wait for one.

`FrpChild` has only what an owner can observe: what is wanted, and which
processes are alive with which configuration.

### StateLock

Each member of `Acquirers` is one attempt, by a process of its own, to take the
lock; a member of `Inspectors` is one call of `StateDirectoryIsActive`. A step
is one system call and works on whatever is at the lock's path when it runs
(`path`), which need not be what the attempt has looked at (`at`, `seen`).
`Exit` kills a process anywhere. The grace of one second is a boolean of the
directory that `Age` resets: with `"pause"` at any moment, without it only when
no live process is publishing. `usurped` is a history variable: a directory was
taken away that had not been examined, or that a live process was publishing.
The configuration store's lock (`internal/appconfig/lock.go`) is the same
protocol, and mapped to the same definitions.

### ClientReconciler, ClientTargets

A desired runtime is a record of revision, Node, and whether some Tunnel is
enabled (frpc runs only then); revisions and Nodes are what the code compares,
and two runtimes of one revision that differ are two documents.
`pc` goes through `ApplyWithResult`: `accept`, `leave` (a move to
another Node stops frpc first), `prepare`, `write`, `start`, `commit`, with
`rbStop`, `rbWrite`, `rbStart` for the rollback. Each is one durable write or
one operation of the supervisor, and has its failure beside it. `accepted`,
`applied` and `active` are the three files and survive `Crash`; frpc does not
(it dies with its parent's process group). `Restart` is the imperative restart
and may fail; `Respawn` is the supervisor's own, which reads `frpc.toml` again.

### AgentSession

The Server's side: `CommitDesired` (a transaction that changes what the Client
should run), `PresentDesired` and `WriteFrame` (the outbound queue of one, in
which a newer snapshot displaces an older), `Welcome` or `Reject` of a hello,
`Receive` of a report and `Record` of a result, in a transaction later than
the read that found it current. The Client's: `Connect`, `ReadFrame`, the
worker (`Take`, `Reconcile`, `ReportResult`), statuses made up under a lock and
written later (`DraftStatus`, `WriteStatus`), `Disconnect`. The socket is two
sequences and can `Break` without either end being told: the Server goes on
holding the Client's only slot until `ServerLoses`, the Client until
`ClientLoses`. `RestoreDatabase` puts back an older database, which is when the
Server meets a Client that is ahead of it (4406).

### ThumbnailPool

A step is one critical section of `pool.mu`, or one thing a goroutine does
outside of it: `WorkerAnswers`, `PipeCloses`, `TimerFires`,
`ReplaceTerminates`, `CloseTerminates`. A conversion is its task's id; answers
are only counted, because the pool treats all of them alike. `Dispatch` is
`dispatchLocked` for all idle slots at once. Any launch may fail, and a worker may
hang, exit or answer nonsense at any time. The slot's `generation` is left
out: a task is assigned once, so comparing the task decides the same.

### SelfUpdate

Each member of `Upgrades` is one `ycy upgrade` and the id of its transaction,
each member of `Starts` any other command. `pc` is the place of the command:
through `ConsumeState` (`"read"`, `"remove"`), which an upgrade passes twice, at
its start and in `RunUpgrade`; then `"resolve"`, `"publish"`, `"spawn"` and
`"exit"`. `upc` is the place of the updater it starts: `"waiting"`, the
steps of `ApplyTransaction` (`"move"`, `"install"`, `"verify"`, `"clean"`), of its
rollback (`"undo"`, `"restore"`), and `"record"`. A step is one operation on a
file that others can see, and its failure is another; `CommandDies` and
`UpdaterDies` come anywhere. A success is reported with a warning when the backup
stays, or the updater's copy of the binary does, which is no file of the model.
A binary is its version. Steps on files that only one process knows are joined
with the step before or after them (the removal of the candidate after a failure
is part of `Record`, and may fail without a word: `DiscardsCandidate`).
`journal` is the state file; its status and message are one value, as they are when a result is shown
(a message that the code takes from the text of an error may say "did not
start" of a failure that was rolled back; both say that the target is as it was).

`before` and `shown` are history variables. So is `trampled`: a process has
removed or overwritten a state that it did not know, that is, one that
another process had written since it looked. Nothing in the code prevents it,
and the safety properties are about runs without it (see Disagreements, other
behaviour).

### Conventions

A definition whose name ends in `Bug` is not part of any specification. It is
a plausible mistake in the definition that follows it; for each property one
of them is listed in `PROJECT.json` under `mutants`, and TLC finds the property
violated with it.

## Runs

| run | checks | shows |
|---|---|---|
| node_faults | `Reopenable`, `PhaseMeaning`, `ServesLastGood`, `DisabledStaysDown`, `RecordSpec` | with every failure and a crash at any step the row opens and is truthful, FRPS serves what the row says, the Node implements the record protocol |
| node_crash | `DisabledIsClean`, `SingleFrps`, `NoForgottenFrps`, `EveryCandidateIsDecided`, `SupervisedIsRecorded` | with two crashes no live FRPS is lost and a completed disable leaves nothing behind; every accepted snapshot is decided, every supervised FRPS becomes durable knowledge |
| node_doc_stopped | `ReportedStoppedIsStopped`, violated | see Disagreements, 1 |
| control_safe | `TokenInService`, `PromotedTokenIsServed`, `RemovedStaysDown`, `NoRevisionConflict` | no order of saves, refreshes, rotations, removals, late commits and stale statuses parts the Node's token from its Clients', brings a removed Node up, or makes the Node refuse what its Controller wants, unless the row was made `late` |
| control_live | `RemovalAdvances`, `DesiredIsDecided` | with snapshots superseded, tokens rotated, commits lost or late, the Node registered a second time, a restart of the Server and a crash of the Node: what was saved last is delivered until the Node has decided it, and a removal goes through; rows made `late` are left out |
| control_doc_removal | `RemovalCompletes`, violated | see Disagreements, 2 |
| frp | `NothingLeft`, `TruthfulState`, `KeepsPromise`, `FailuresForgotten`, `WantedIsServed`, `OperationsEnd` | late watchers and timers, failed spawns and signals never start an unwanted or a second FRP process, nothing is left behind, the published state is true; a wanted configuration comes up, no operation holds the mutex for ever |
| state_lock | `HeldIsPublished`, `OrphanIsReclaimed` | exclusion is lost only by a usurpation; no dead owner's lock stays |
| state_lock_doc | `MutualExclusion`, violated | see Disagreements, 3 |
| session | `RespawnServesTheSame`, `SuccessIsServed`, `NoLostUpdate`, `RecordedIsApplied`, `OnlyOvertakenAreRejected`, `StartsAcceptedNode`, `KeepsTargets`, `DesiredIsAnswered` | with every failure of the Client and a broken socket, a crash or a restored database: what the Client acknowledges is served, what the Server records is applied, the last snapshot gets through, the Client keeps to its targets, and the last desired runtime is applied or its failure reported unless the Client has ended |
| thumbnails | `NothingLost`, `WorkersAreOwned`, `EveryConversionIsAnswered` | every conversion is answered and none twice; no worker is lost, or outlives Close |
| self_update | `OneAtATime`, `ResultIsTrue`, `BinarySurvives`, `ShownOnce`, `PendingEnds` | with failures at every step and a death anywhere, and nobody trampling on a state: one updater works at a time, the result shown is what has happened, it is shown once, a binary is left; no live process leaves an update pending |

The type invariant of each module is a theorem (see Proofs), and no run repeats
it. Three properties are not checked by a run of their own because a checked
one implies them, and TLAPS has checked that: `RevisionsAdvance` (from
`RecordSpec`), `Exclusive` (from `HeldIsPublished`) and, in NodeControl, all of
NodeRuntime's safety (from `ControlRunsNode`).

### Bounds

- `Offers` (NodeRuntime): five snapshots over four revisions. They hold the
  cases there are: a first configuration, a second, a disabled one in its place
  or after it, a conflict of two documents under revision 2, and the same
  contents coming back later under a higher revision.
- `Pids`: three incarnations: the recorded, the supervised and a new one.
  `Fresh` reuses dead ones, so the number bounds only how many are alive or
  recorded at once. Where nothing can leave a process behind one is enough (all NodeControl runs but control_live).
- `MaxCrashes`: two in node_crash (a crash during the recovery from a crash);
  one with all failures.
- `Faults`: all of them in node_faults. node_crash leaves out `stop` (a
  process that cannot be stopped stays alive whatever the Node does: that is
  what `SingleFrps` would report), `files` (Disagreements, 1), and, for its
  liveness, `identity` and `store`: a Node that cannot write its row decides
  nothing. Its safety properties are proved with those two.
  NodeControl has none: it looks at the network and at stale knowledge, and
  crashes supply the Node's half-done states.
- `MaxRevision`, `MaxToken`: three revisions and two tokens (control_safe) are a
  registration, a rotation, and a save or refresh or removal around it; two
  revisions and two tokens (control_live) are a save superseded by a save, a
  rotation, a refresh or a removal, and a Node that is forgotten or removed and
  registered again. control_doc_removal needs one of each.
- `Admins`: one registration request under way at once. It keeps its mark as
  long as it likes, so that a removed or forgotten registration's last commits can fall
  between its two steps. The theorems are for any number.
- `MaxCommits`: one commit under way at once in control_safe; it stays while later
  rounds run, so that it can be older than the registration. Two in
  control_live: one superseded and one that supersedes it, in either order.
- `MaxRestarts`: how often the Server restarts *during* a round, in control_live
  (a restart drops the round and what it had read; the safety properties are
  about rounds that go on, and are proved with restarts). Between rounds a
  restart loses only the observations.
- `ThirdRevision` (control_safe): a third revision is saved only in histories
  without a crash, without a registration request under way and with a row that
  is not `late`; those of two have all of them.
- `LiveBounds` (control_live): rows made `late` are left out (both properties
  except them), and so are a Client assigned to the Node, a mark read while the
  Node is registered, a crash of the Node in a history of two revisions, and a
  second process identifier where it has not crashed. Each of these leaves out
  steps that nothing forces (a request, a crash, the choice of an identifier),
  never a fair one: from a state that is kept, every fair action that can be
  taken has a step to one that is kept.
- FrpSupervisor: two processes (the child and one being stopped or late), three
  retry timers (the current one and two late), three delays. The requests are
  not bounded.
- StateLock: two attempts and an inspection with failures and pauses; three
  attempts where exclusion is refuted, the fewest that do it.
- AgentSession: four runtimes over three revisions, for a start, a move, a move
  back, a second document under one revision and a Client left without
  Tunnels; one frame in flight each way (plus a close), and one break, one crash or one
  restored database (`MaxTroubles`): each drops the session, and the next one
  begins with whatever the two ends kept.
- ThumbnailPool: two workers, a queue of one and three conversions: both
  workers at work with one waiting, and a launch that fails for either.
  Four process names, for two workers and two that were killed and whose
  goroutines have not noticed.
- SelfUpdate: two upgrades and another command, two versions, one death: two
  upgrades are what it takes to meet (one after the other, or in between),
  and three processes can be about to show one result. The newer version is
  the only one there is to install, so that a second upgrade follows a first
  that failed or died, or started before the first had succeeded.
- `CHECK_DEADLOCK FALSE`: a Controller without a Node, with its bounds used up,
  has nothing left to do (NodeControl); every attempt is over (StateLock); a
  Client that has ended for good and died really stops (AgentSession); a closed
  pool has nothing left to do (ThumbnailPool); every process is over (SelfUpdate). NodeRuntime and FrpSupervisor
  never stop.
- Symmetry (of processes, of attempts) is used in runs without temporal
  properties of the form `~>` only.

### Fairness

`Fairness` (NodeRuntime): the Node is started again (`restart: unless-stopped`
in the compose file, or a person); a handler and recover run to their end, and
a goroutine waiting for `runtime.mu` gets it (Go's mutex hands over in FIFO
order once a waiter starves, hence strong fairness); watchers and timers fire.
Nothing is assumed of FRPS exits, crashes, failures or the Controller.

`ControlFairness` adds that the ticker starts the next round, that the
coordinator's own steps are taken, that the Node answers if it is asked again
and again, and that a commit that is sent again and again arrives. No fairness
is assumed of the requests.

`SupFairness` (FrpSupervisor): the holder of `operations` goes on, waiters get
it (hence strong fairness), timers fire, a process that was sent SIGKILL dies,
and a retry's spawn that is tried again and again succeeds at last: a binary or
configuration that can never be started is retried for ever, by design. A child
that ignores SIGTERM may go on for ever.

`FairLockSpec`: every attempt that is alive goes on, and time passes; nobody has
to release or exit. `SessionFairness`: each goroutine of either
end goes on when it can, a broken socket is noticed in the end, a Client that
died is started again. `ReportResult` has strong fairness: it competes with
status reports for the socket, and `connection.outbound` serves its senders in
turn. Nothing is assumed of commits and losses.

`PoolFairness`: timers fire, goroutines run and get `pool.mu`, a killed process
dies. Nothing is assumed of the workers, which may hang for ever.

`UpdateFairness`: an upgrade that has published its state starts the updater or
fails to, and an updater goes on. Nothing is assumed of an upgrade after that:
it may never exit, and the updater gives up after 30 s.

Two outcomes count as decided in the liveness properties: `ownerUnknown`,
with which the Node refuses to act until it is restarted, and that the saved
snapshot was superseded.

## Proofs

All theorems hold for every value of the constants: any set of snapshots,
runtimes, processes or attempts, every combination of failures, any number of
crashes, restarts, breaks, revisions and tokens. The assumptions are the named
`ASSUME`s of the modules, which TLC evaluates in the runs, and the hypotheses a
theorem states. They are about the safety part of each specification.
Each proof has the same outline: an inductive invariant stronger than the
property, one lemma for the initial states, one for the steps with a case
per action, and what follows.

`NodeRuntime_proofs` begins with the record: `RecordInv` strengthens `Reopenable /\ PhaseMeaning` to
an inductive invariant of `RecordSpec`: any phase but the first, and the boot
flag, come from a snapshot that was accepted. `RecordSafe` and
`RecordAdvances` follow.

`IInv` is the inductive invariant of `Spec`. Besides the
types it says

- what is known at each `pc` (`ControlInv`): for example that in `switch` the
  candidate is a running snapshot and undecided. This is what makes
  each write of the code a step of the protocol;
- what the supervisor serves (`ServesInv`): the last good snapshot
  outside the window between starting a candidate and recording it;
- if stopping never fails, that a process that is alive is the child
  (`OnlyChild`), as long as the Node has not died.

Each action preserves it (one lemma per action or group of actions), and
`RowStep` shows that each step is a step of `RecordNext` or leaves the row
alone. From these:

| theorem | statement |
|---|---|
| `TypeCorrect` | `Spec => []TypeOK` |
| `ImplementsRecord` | `Spec => RecordSpec` |
| `NodeReopens`, `NodePhaseMeans` | `Spec => []Reopenable`, `Spec => []PhaseMeaning`, through the refinement and `RecordSafe` |
| `NodeRevisionsAdvance` | `Spec => RevisionsAdvance`, likewise |
| `NodeServesLastGood` | `Spec => []ServesLastGood` |
| `NodeDisabledStaysDown` | `Spec => []DisabledStaysDown` |
| `NodeSingleFrps` | `Spec => []SingleFrps`, assuming that stopping a process does not fail |

The module goes on with what a Node promises about processes it did not start
in this life. `OwnerInv`: a recorded FRPS that is alive is the supervised one,
but for the one an earlier life left, until recover has looked at it.
`CleanInv`: so it is dead where disablement is recorded, and the files are gone
from the moment before. Both need that stops succeed and that the state
directory can be read and written; without the second, disablement
does leave an FRPS behind (Disagreements, 1).

| theorem | statement (`"stop"` and `"files"` not in `Faults`) |
|---|---|
| `CompletedDisableIsClean` | `Spec => []DisabledIsClean` |
| `NothingForgotten` | `Spec => NoForgottenFrps` |

The last section is about what a Controller may conclude from a status, and
about what `SupervisedIsRecorded` and `EveryCandidateIsDecided` rest on.
`TrackInv`: a live supervised FRPS is recorded, or a goroutine is on its way to
record it. `ReportInv`: what phase and failure say whenever the Node answers,
and which phases recover can leave.

| theorem | statement |
|---|---|
| `SupervisedWillBeRecorded` | `Spec => []WillBeRecorded`: recorded, about to be, or ownership is reported unknown |
| `StatusIsServed` | `Spec => []ReportIsServed`: without an error, `applied` and `NODE_APPLY_FAILED` are true of the FRPS |
| `NothingIsLeftUndecided` | `Spec => []UndecidedIsReported`, where the store can be written: an idle Node has decided its snapshot or reports an error |

`NodeControl_proofs`: `ControlRunsNode` shows that a step of the composition is
a step of the Node or leaves it alone, so that everything above holds there.
`CInv` is `IInv` with, besides the types,

- `TokenInv`: how the row's tokens, revisions and desired snapshot agree, which
  no single request establishes alone;
- `RoundInv`: what a round has at hand at each of its steps;
- `WireInv`: what is on its way to the Node, or about to be sent, was desired
  under the present row, and the Node is not ahead of that row;
- `SeenInv`: a status can grow old in only one way, by the Node accepting a
  higher revision. That is why the Controller may act on it;
- `RemovedInv`: nothing on its way can change the row of a removed Node.

`WireInv` and `RemovedInv` except a row that is `late`. Any other begins with
nothing under way and the Node at the mark it starts from (`MadeLate`).

| theorem | statement |
|---|---|
| `ControlRunsNode` | `ControlSpec => Spec` |
| `ControlTypes` | `ControlSpec => []ControlTypeOK` |
| `DesiresTokenInService` | `ControlSpec => []TokenInService` |
| `NeverInConflict` | `ControlSpec => []NoRevisionConflict` |
| `PromotesWhatIsServed` | `ControlSpec => PromotedTokenIsServed` |
| `RemovedForGood` | `ControlSpec => []RemovedStaysDown` |

Three more invariants are about tokens and rounds. `IssuedInv`: every token
in play was issued, and the row accounts for it. `OrderInv`: among the snapshots
still to come and the last good one, a higher revision never has an older
token. `RecInv`: the record a round read belongs to the revision it read.

| theorem | statement |
|---|---|
| `NoTokenIsForgotten` | `ControlSpec => []KnownTokens`: what a Node serves or may still be told to serve has the active token, the staged one, or one withdrawn before |
| `NoWayBack` | `ControlSpec => TokensOnlyAdvance`: no late commit, restart or rollback brings an older token back; from when a row is made `late`, nothing is said |
| `RoundsAreNotSkipped` | `ControlSpec => PassedOverHasIt`: a round on a row not `late` sends nothing only if the Node has the snapshot, though the status it read is old (what `DesiredIsDecided` rests on) |
| `RemovalLeavesNothing` | `ControlSpec => []RemovedIsClean`, assuming that stops succeed and files can be handled: from `CompletedDisableIsClean` and `RemovedForGood`, a Node removed (not `late`) runs no recorded FRPS and keeps no file |

`FrpSupervisor_proofs`: `HolderInv` is what the holder of `operations` may
take for granted (above all: `child` is empty from `TakeChild` to `Spawn`, and
a child implies `desiredRunning`). With it, `AliveInv` (a live process is the child, the
one being stopped, or lost) and `StateInv` (the published state, also within an
operation) are inductive.

| theorem | statement |
|---|---|
| `SupTypeCorrect` | `SupSpec => []SupTypeOK` |
| `NothingIsLeft` | `SupSpec => []NothingLeft` |
| `NeverTwo` | `SupSpec => []AtMostOne` (of `FrpChild`) |
| `ImplementsPromise` | `SupSpec => KeepsPromise`, the refinement of `FrpChild` |
| `StateIsTruthful` | `SupSpec => []TruthfulState` |
| `CrashLoopsAreNotForgotten` | `SupSpec => FailuresForgotten` |
| `WantedIsNeverForgotten` | `SupSpec => []WantedIsCaredFor`: a wanted child runs, or is dead and watched, or its restart is due |
| `WaitsCanEnd` | `SupSpec => []NoEndlessWait`: stopChild waits for no process that could not be killed |
| `DelaysFallBack` | `SupSpec => []BackoffHeals`: after failures, the running child has its stable timer |

The last three follow from `CareInv`, which says of the child who watches it,
what it was started with and which timer is its own. They are what
`WantedIsServed` and `OperationsEnd` rest on: whoever has to act is there.

They hold with every failure, and state what a failed signal costs. Where SIGKILL
fails (EPERM, ten times) the child is forgotten alive and the next Start runs a
second one beside it: the process is `lost`, and the promise is about the others.
Where SIGTERM fails, Restart, and a Start with another configuration, return
the error with the state still running and nothing there to recover:
`StoppedWithError`, which `TruthfulState` and `WantedIsServed` except.

`StateLock_proofs`: `LockInv` says that, as long as nothing was usurped, who
publishes, holds or removes a lock does so at its own directory, nobody else
writes an owner into it, and a verdict about an owner is about the directory it
was read in (death is final).

| theorem | statement |
|---|---|
| `LockTypes` | `LockSpec => []LockTypeOK` |
| `HolderIsFound` | `LockSpec => []HeldIsPublished` |
| `ExclusionHolds` | `LockSpec => []Exclusive`: two holders only after a usurpation |

`ClientReconciler_proofs`: `ClientInv` says, for each place in Apply, which of
target, accepted, applied, the active configuration and `frpc.toml` agree;
while frpc runs, the file is the one it was started with.

| theorem | statement |
|---|---|
| `ClientTypes` | `ClientSpec => []ClientTypeOK` |
| `RespawnServes` | `ClientSpec => []RespawnServesTheSame` |
| `SuccessServed` | `ClientSpec => []SuccessIsServed` |
| `StartsAccepted` | `ClientSpec => StartsAcceptedNode` |
| `TargetsKept` | `ClientSpec => KeepsTargets`, the refinement of `ClientTargets` |

`AgentSession_proofs`: `SessionRunsReconciler` gives the session those
theorems. `EndsInv` says what a socket leaves behind at either end, `BelievedInv`
that a success was in the applied state before it was written, `BehindInv` that
within a session all that the Client has, works on or reports is the desired
runtime or an older one, and `LatestInv` where the newest snapshot is: in
the database with a notification on its way, in the queue, on the wire, or
with the worker.

| theorem | statement |
|---|---|
| `SessionTypes` | `SessionSpec => []SessionTypeOK` |
| `SessionRunsReconciler` | `SessionSpec => ClientSpec` |
| `SessionServes`, `SessionKeepsTargets` | the reconciler's theorems, in a session |
| `ServerBelievesTheTruth` | `SessionSpec => []RecordedIsApplied` |
| `RejectsOvertaken` | `SessionSpec => []OnlyOvertakenAreRejected` |
| `LastSnapshotArrives` | `SessionSpec => []NoLostUpdate` |
| `NothingIsRefused` | `SessionSpec => []OnlyRestoresSetBack`: unless an older database is put back, no snapshot is refused and no session ends as incompatible |

The last one needs `ForwardInv`: the frames on their way to the Client, the
queue and the worker's snapshot are in the order of their revisions, none of
them behind what the Client has accepted or is about to accept. It holds
as long as `restores = 0`; a run with restored databases does refuse.

`ThumbnailPool_proofs`: `Placed` says where each conversion is, for given slots
and a given queue. `DispatchPlaces` shows that a dispatch keeps it, and every
other step first leaves slots and queue as a dispatch needs them. `SlotInv`:
while the pool is open a slot has a worker or one replacer, never both, so that
the processes are no more than the slots (`OneProcessPerSlot`); once it is
closed they only go away.

| theorem | statement |
|---|---|
| `PoolTypes` | `PoolSpec => []PoolTypeOK` |
| `NoConversionIsLost` | `PoolSpec => []NothingLost` |
| `NoWorkerIsLeft` | `PoolSpec => []WorkersAreOwned` |
| `EveryConversionCanEnd` | `PoolSpec => []NoConversionWaitsForNothing`: an unanswered conversion has a timeout that will answer it, or is queued while one, or a replacement, has yet to free a worker |
| `TakenInOrder` | `PoolSpec => []FirstComeFirstServed` |

`AnswerInv` adds to the first that each assignment has its timer (running or
fired), each slot under replacement its goroutine, and that the queue is the
last conversions taken, in order. The worker need do nothing for
`EveryConversionCanEnd`: the timeout alone suffices.

`SelfUpdate_proofs`: `PlaceInv` holds whatever happens: the place of an updater
tells where its command is and which files of its own there are. As long as
nothing was trampled on, `ActiveInv` says that the state file names the only
transaction between its publication and its record, so that nobody else works
on the target (`OthersIdle`), and `FileInv` what target and backup are at each
place of its updater. `SpareInv` is needed where an updater finds no target:
then an earlier one died between its renames and left a backup, which this one
does not touch.

| theorem | statement |
|---|---|
| `UpdateTypes` | `UpdateSpec => []UpdateTypeOK` |
| `OneUpdaterWorks` | `UpdateSpec => []OneAtATime` |
| `ResultIsReported` | `UpdateSpec => []ResultIsTrue` |
| `SomeBinarySurvives` | `UpdateSpec => []BinarySurvives` |
| `ResultIsShownOnce` | `UpdateSpec => []ShownOnce` |
| `UpdatesTidyUp` | `UpdateSpec => []NoBackupIsForgotten`: without deaths, an update that is over leaves a backup only with a warning or a failed rollback; one that succeeded has used its candidate up. (The candidate of one that failed may stay, and nothing says so: the code discards that error) |
| `TargetIsThere` | `UpdateSpec => []BinaryStaysInPlace`: without deaths and untrampled, the binary is missing only while an updater works or after a failed rollback |

For these, `TidyInv` and `WholeInv` name who has still to deal with each file and
with a missing target. "An upgrade never ends with an older binary" is not among
them: two upgrades that resolved different releases before either
published may install the older one last.

Only model-checked are the liveness properties (`EveryCandidateIsDecided`,
`SupervisedIsRecorded`, `RemovalAdvances`, `DesiredIsDecided`, `WantedIsServed`,
`OperationsEnd`, `OrphanIsReclaimed`, `DesiredIsAnswered`,
`EveryConversionIsAnswered`, `PendingEnds`), because the prover reaches neither
fairness nor ENABLED. For six of them the theorems above prove the part about
states that they rest on: in every reachable state there is somebody left who
will act. That he does is what the runs show.

## Disagreements

1. `deploy/tunnel-node.md:16`: a Node is listed as removing "until a fresh
   authenticated status confirms persistent disablement and stopped FRPS".
   When recover returns early there is no supervisor, `applyDisabled` then
   stops nothing, clears the recovery error and completes, and the status
   reads stopped while the recorded FRPS runs (`node_doc_stopped`).
2. `server_node_removal.go:19-21`: requestNodeRemoval "records the durable
   removal intent and its disabled snapshot in one transaction. The coordinator
   will apply that snapshot in a later slice after the lifecycle/API contract is
   wired." (That slice is `reconcileNode`.)
   The disabled snapshot is accepted in one transaction and `boot_disabled` is
   set in a later one. A Node that dies in between comes back interrupted and
   restores its old FRPS; it would go on if the snapshot were committed again,
   but the coordinator sends it again only in the phases accepted and
   switching. The removal hangs (`control_doc_removal`).
3. `internal/tunnelruntime/state_lock.go:34`: the lock "reserves one Tunnel
   state directory for its owner's lifetime". `stateLockRecentlyCreated` takes
   a directory that is gone for an old one, and `removeStaleStateLock` renames
   whatever is at the path by then. An attempt whose `mkdir` met a lock that is
   released before it reads the owner takes away the directory that the next
   owner has made meanwhile (`state_lock_doc`). `internal/appconfig/lock.go`
   does the same.

Other behaviour that the models brought up, none of it contradicted by a
document:

- The commit of a force-forgotten registration can still arrive after the Node
  has been registered again, and be accepted; or arrive between the reading of
  the Node's high-water mark and the making of the row, which then starts below
  the Node. In both cases the Node can hold another document under the revision
  wanted, and is passed over until a further save outranks it (`late`).
- The candidate of an update that failed stays where it is if it cannot be
  removed: the error is discarded (`DiscardsCandidate`).
- A Client's report that a commit has overtaken is answered with close code
  4400, after which the Client ends for good (`OnlyOvertakenAreRejected` says
  that nothing else is). Its service manager has to start it again.
- After a failed move to another Node, a failed move back rolls back to that
  other Node's configuration and starts frpc with it (the exception in
  `StartsAcceptedNode`).
- After a Restart that failed, a duplicate of the applied snapshot is
  acknowledged without an frpc, until the retry (the exception in
  `SuccessIsServed`).
- A Node whose recovery cannot start FRPS makes no further attempt; FRPS stays
  down until the configuration is sent again or the Node is restarted.
- Two `ycy upgrade` that both find no pending update before either has
  published its own work on the same target at the same time; so do they when
  a command that has read the result of the last update removes the state
  of the next one. Target and backup can both be lost then (`trampled`).
- An updater that dies, or cannot write its result, leaves the state pending.
  Every command of ycy then ends with "update is still pending" until somebody
  removes the file, although the message says to retry in a moment
  (`Stranded` in `PendingEnds`).
- A thumbnail worker that dies while idle is noticed by the next conversion
  given to it, which fails.

## What is not modelled

- Bytes: Noise, HTTP, WebSocket frames, TOML, JSON, SQL, digests, worker pipes.
- The chunked transfer of a snapshot before its commit, and the preparation of
  the Node's directory before there is a database: a marker, the database and
  the identity (`database_v1.go:25`).
- Times: a timeout is a failure that can come at any moment, a retry one that
  comes eventually.
- PID reuse by a foreign process that also has the recorded creation time,
  binary and configuration.
- Names, addresses, ports, metadata of Nodes; a changed management address.
- In a Client's session: restart generations and their results, the rotation of
  a Client's token, its revocation and deletion. A snapshot that
  `PresentDesired` fails to read is taken as read later.
- The edits of Clients and Tunnels and the allocation of ports. Each is one
  transaction on the only connection to the database, and what it computes is
  data.
- The Windows child (job objects), the observers of a supervisor and the
  output of its child.
- In an update: the lookup of the release, the checks of the download, the
  updater's copy of itself and its removal, left-over temporary files, the
  repetition of a failed rename, and Windows, where the running binary cannot
  be renamed at once.
- The sequential parts: the configuration file itself, uploads, the workspace,
  the directory comparison and the single commands. Nothing runs beside them
  that could change what they have read, or one mutex is held for the whole
  operation; what can be wrong there are paths, formats and wording.
- Everything else that `PROJECT.json` lists as not_modelled.

## Next

In this order: restart generations and Client revocation in `AgentSession`,
composed with the assignment of a Client to a Node that is being removed; the
upload sessions with their sweeper.
