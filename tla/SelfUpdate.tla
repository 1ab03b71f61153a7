----------------------------- MODULE SelfUpdate -----------------------------
(***************************************************************************)
(* How ycy replaces its own binary (internal/updater).  `ycy upgrade`      *)
(* stages a verified candidate beside the target, publishes a pending      *)
(* state, starts a detached copy of itself as the updater and exits.  The  *)
(* updater waits for that, moves the target to a backup, installs the      *)
(* candidate, verifies it, rolls back if need be and writes the result     *)
(* into the state file.  The next command of any kind takes that file away *)
(* and shows the result once; while it says pending, no command runs.      *)
(*                                                                         *)
(* Nothing but the files coordinates these processes, and every one of     *)
(* them may die between any two steps.  A step is one operation on a file  *)
(* that another process can see.  A binary is its version, of which its    *)
(* hash is a function.                                                     *)
(***************************************************************************)
EXTENDS Naturals

CONSTANTS
    Upgrades,      \* `ycy upgrade` processes, and the ids of their transactions
    Starts,        \* processes of any other command
    Versions,      \* that are, or will be, released
    Installed,     \* the version that is installed at first
    NoFile, NoState,
    MaxDeaths      \* bound: how many processes die

ASSUME UpdateAssumption ==
    /\ Upgrades \cap Starts = {}
    /\ Versions \subseteq Nat /\ Installed \in Versions
    /\ NoFile \notin Versions
    /\ MaxDeaths \in Nat

Commands == Upgrades \cup Starts

VARIABLES
    target,        \* TargetPath: a binary or NoFile
    staged,        \* StagedPath of each transaction
    backup,        \* BackupPath of each transaction
    journal,       \* StatePath: NoState or the transaction it holds
    pc,            \* where each command is
    passes,        \* how often it has been through ConsumeState
    runs,          \* the version of the binary that it runs
    read,          \* the state that ConsumeState has read
    want,          \* ExpectedVersion of each transaction
    upc,           \* where the updater of each transaction is
    outcome,       \* what that updater will record
    before,        \* history: the target as the last updater found it
    shown,         \* history: how often each result was shown
    trampled,      \* history: a process took away a state that it did not know
    deaths

fileVars == <<target, staged, backup>>
commandVars == <<pc, passes, runs, read, want>>
updaterVars == <<upc, outcome, before>>
updateVars == <<fileVars, journal, commandVars, updaterVars, shown, trampled, deaths>>

Results == {"succeeded", "warned", "failed", "rollback failed", "not started"}

\* UpdateTransaction: its id, and its status with what the message tells.
Journals == [id : Upgrades, status : {"pending"} \cup Results]

ASSUME JournalAssumption == NoState \notin Journals

UpdateInit ==
    /\ target = Installed
    /\ staged = [t \in Upgrades |-> NoFile]
    /\ backup = [t \in Upgrades |-> NoFile]
    /\ journal = NoState
    /\ pc = [c \in Commands |-> "off"]
    /\ passes = [c \in Commands |-> 0]
    /\ runs = [c \in Commands |-> NoFile]
    /\ read = [c \in Commands |-> NoState]
    /\ want = [t \in Upgrades |-> NoFile]
    /\ upc = [t \in Upgrades |-> "none"]
    /\ outcome = [t \in Upgrades |-> "none"]
    /\ before = NoFile
    /\ shown = [t \in Upgrades |-> 0]
    /\ trampled = FALSE
    /\ deaths = 0

-----------------------------------------------------------------------------
(* Helpers *)

Pending == journal # NoState /\ journal.status = "pending"

Goes(c, place) == pc' = [pc EXCEPT ![c] = place]

Updates(t, place) == upc' = [upc EXCEPT ![t] = place]

\* Whoever writes or removes the state for the transaction t should find no
\* other one that is pending, at least none that it has not seen.
Tramples(t) ==
    trampled' = (trampled \/ (Pending /\ journal.id # t /\ journal # read[t]))

\* WriteState.
Writes(t, status) ==
    /\ journal' = [id |-> t, status |-> status]
    /\ Tramples(t)

\* cleanupUpgradePaths and cleanupInternalUpdaterFiles: the candidate goes, if it
\* lets itself be removed.  That it did not is not noticed.
DiscardsCandidate(t) == staged' \in {staged, [staged EXCEPT ![t] = NoFile]}

-----------------------------------------------------------------------------
(* Commands: ConsumeState, once at the start and once more in RunUpgrade *)

\* A command is a process of the binary that is installed.
Start(c) ==
    /\ pc[c] = "off"
    /\ target # NoFile
    /\ runs' = [runs EXCEPT ![c] = target]
    /\ Goes(c, "read")
    /\ UNCHANGED <<fileVars, journal, passes, read, want, updaterVars, shown,
                   trampled, deaths>>

\* What follows a state that is not there, or not any more.
Consumed(c) ==
    /\ passes' = [passes EXCEPT ![c] = 1]
    /\ Goes(c, IF c \notin Upgrades THEN "over"
               ELSE IF passes[c] = 0 THEN "read" ELSE "resolve")

ReadStateGoesOnBug(c) ==
    /\ pc[c] = "read"
    /\ read' = [read EXCEPT ![c] = journal]
    /\ \/ (journal = NoState \/ Pending) /\ Consumed(c)
       \/ journal # NoState /\ ~Pending /\ Goes(c, "remove") /\ UNCHANGED passes
    /\ UNCHANGED <<fileVars, journal, runs, want, updaterVars, shown, trampled, deaths>>

\* A pending state ends the command with an error.
ReadState(c) ==
    /\ pc[c] = "read"
    /\ read' = [read EXCEPT ![c] = journal]
    /\ \/ journal = NoState /\ Consumed(c)
       \/ Pending /\ Goes(c, "over") /\ UNCHANGED passes
       \/ journal # NoState /\ ~Pending /\ Goes(c, "remove") /\ UNCHANGED passes
    /\ UNCHANGED <<fileVars, journal, runs, want, updaterVars, shown, trampled, deaths>>

RemoveStateShowsAlwaysBug(c) ==
    /\ pc[c] = "remove"
    /\ journal' = NoState
    /\ shown' = [shown EXCEPT ![read[c].id] = @ + 1]
    /\ trampled' = (trampled \/ (journal # NoState /\ journal # read[c]))
    /\ Consumed(c)
    /\ UNCHANGED <<fileVars, runs, read, want, updaterVars, deaths>>

\* By its path: whatever is there by now.  Only who removes it shows what it
\* has read.
RemoveState(c) ==
    /\ pc[c] = "remove"
    /\ journal' = NoState
    /\ IF journal = NoState
       THEN UNCHANGED <<shown, trampled>>
       ELSE /\ shown' = [shown EXCEPT ![read[c].id] = @ + 1]
            /\ trampled' = (trampled \/ journal # read[c])
    /\ Consumed(c)
    /\ UNCHANGED <<fileVars, runs, read, want, updaterVars, deaths>>

RemoveFails(c) ==
    /\ pc[c] = "remove" /\ journal # NoState
    /\ Goes(c, "over")
    /\ UNCHANGED <<fileVars, journal, passes, runs, read, want, updaterVars, shown,
                   trampled, deaths>>

-----------------------------------------------------------------------------
(* Commands: RunUpgrade *)

\* resolveRelease and downloadCandidate, of a newer release.
Download(c) ==
    /\ pc[c] = "resolve"
    /\ \E v \in Versions :
          /\ v > runs[c]
          /\ staged' = [staged EXCEPT ![c] = v]
          /\ want' = [want EXCEPT ![c] = v]
    /\ Goes(c, "publish")
    /\ UNCHANGED <<target, backup, journal, passes, runs, read, updaterVars, shown,
                   trampled, deaths>>

\* AlreadyCurrent, or a failure, whose file may stay.
NoDownload(c) ==
    /\ pc[c] = "resolve"
    /\ \/ UNCHANGED staged
       \/ \E v \in Versions : v > runs[c] /\ staged' = [staged EXCEPT ![c] = v]
    /\ Goes(c, "over")
    /\ UNCHANGED <<target, backup, journal, passes, runs, read, want, updaterVars, shown,
                   trampled, deaths>>

PublishPending(c) ==
    /\ pc[c] = "publish"
    /\ Writes(c, "pending")
    /\ Goes(c, "spawn")
    /\ UNCHANGED <<fileVars, passes, runs, read, want, updaterVars, shown, deaths>>

\* WriteState fails before it has renamed the file, or afterwards, when it
\* protects it.  The state is not taken away.
PublishFails(c) ==
    /\ pc[c] = "publish"
    /\ \/ Writes(c, "pending")
       \/ UNCHANGED <<journal, trampled>>
    /\ DiscardsCandidate(c)
    /\ Goes(c, "over")
    /\ UNCHANGED <<target, backup, passes, runs, read, want, updaterVars, shown, deaths>>

Spawn(c) ==
    /\ pc[c] = "spawn"
    /\ Updates(c, "waiting")
    /\ Goes(c, "exit")
    /\ UNCHANGED <<fileVars, journal, passes, runs, read, want, outcome, before,
                   shown, trampled, deaths>>

\* The state is removed by its path, too, if it can be.
SpawnFails(c) ==
    /\ pc[c] = "spawn"
    /\ DiscardsCandidate(c)
    /\ \/ journal' = NoState /\ Tramples(c)
       \/ UNCHANGED <<journal, trampled>>
    /\ Goes(c, "over")
    /\ UNCHANGED <<target, backup, passes, runs, read, want, updaterVars, shown, deaths>>

Exit(c) ==
    /\ pc[c] = "exit"
    /\ Goes(c, "over")
    /\ UNCHANGED <<fileVars, journal, passes, runs, read, want, updaterVars, shown,
                   trampled, deaths>>

CommandDies(c) ==
    /\ pc[c] \notin {"off", "over"}
    /\ deaths < MaxDeaths
    /\ deaths' = deaths + 1
    /\ Goes(c, "over")
    /\ UNCHANGED <<fileVars, journal, passes, runs, read, want, updaterVars, shown,
                   trampled>>

-----------------------------------------------------------------------------
(* The updater: RunInternalUpdater and ApplyTransaction *)

\* WaitForParent.  The candidate is still there, and a backup is not yet: no
\* other process knows these paths.
ParentGone(t) ==
    /\ upc[t] = "waiting" /\ pc[t] = "over"
    /\ Updates(t, "move")
    /\ before' = target
    /\ UNCHANGED <<fileVars, journal, commandVars, outcome, shown, trampled, deaths>>

ParentStaysForeverBug(t) ==
    /\ upc[t] = "waiting" /\ pc[t] # "over"
    /\ UNCHANGED updateVars

\* After 30 s.
ParentStays(t) ==
    /\ upc[t] = "waiting" /\ pc[t] # "over"
    /\ Updates(t, "record")
    /\ outcome' = [outcome EXCEPT ![t] = "not started"]
    /\ before' = target
    /\ UNCHANGED <<fileVars, journal, commandVars, shown, trampled, deaths>>

\* A target that is missing is not moved; the backup may not be protected.
Move(t) ==
    /\ upc[t] = "move"
    /\ IF target = NoFile
       THEN Updates(t, "install")
       ELSE \E next \in {"install", "undo"} : Updates(t, next)
    /\ backup' = [backup EXCEPT ![t] = target]
    /\ target' = NoFile
    /\ UNCHANGED <<staged, journal, commandVars, outcome, before, shown, trampled, deaths>>

\* This early, nothing is rolled back.
MoveFails(t) ==
    /\ upc[t] = "move"
    /\ Updates(t, "record")
    /\ outcome' = [outcome EXCEPT ![t] = "failed"]
    /\ UNCHANGED <<fileVars, journal, commandVars, before, shown, trampled, deaths>>

InstallDropsBackupBug(t) ==
    /\ upc[t] = "install"
    /\ target' = staged[t]
    /\ staged' = [staged EXCEPT ![t] = NoFile]
    /\ backup' = [backup EXCEPT ![t] = NoFile]
    /\ Updates(t, "verify")
    /\ UNCHANGED <<journal, commandVars, outcome, before, shown, trampled, deaths>>

Install(t) ==
    /\ upc[t] = "install"
    /\ target' = staged[t]
    /\ staged' = [staged EXCEPT ![t] = NoFile]
    /\ Updates(t, "verify")
    /\ UNCHANGED <<backup, journal, commandVars, outcome, before, shown, trampled, deaths>>

\* The candidate cannot be renamed, or what is installed cannot be protected,
\* read or run, or is not what it should be.
Rejected(t) ==
    /\ upc[t] \in {"install", "verify"}
    /\ Updates(t, "undo")
    /\ UNCHANGED <<fileVars, journal, commandVars, outcome, before, shown, trampled, deaths>>

Verified(t) ==
    /\ upc[t] = "verify"
    /\ target = want[t]
    /\ Updates(t, "clean")
    /\ UNCHANGED <<fileVars, journal, commandVars, outcome, before, shown, trampled, deaths>>

\* The backup goes, if there is one and it lets itself be removed; or only the
\* updater's copy of the binary does not.
Clean(t) ==
    /\ upc[t] = "clean"
    /\ \/ /\ backup' = [backup EXCEPT ![t] = NoFile]
          /\ \E result \in {"succeeded", "warned"} :
                outcome' = [outcome EXCEPT ![t] = result]
       \/ /\ backup[t] # NoFile
          /\ outcome' = [outcome EXCEPT ![t] = "warned"]
          /\ UNCHANGED backup
    /\ Updates(t, "record")
    /\ UNCHANGED <<target, staged, journal, commandVars, before, shown, trampled, deaths>>

UndoForgetsBackupBug(t) ==
    /\ upc[t] = "undo"
    /\ target' = NoFile
    /\ Updates(t, "record") /\ outcome' = [outcome EXCEPT ![t] = "failed"]
    /\ UNCHANGED <<staged, backup, journal, commandVars, before, shown, trampled, deaths>>

\* rollback takes away whatever is installed; without a backup that was all.
Undo(t) ==
    /\ upc[t] = "undo"
    /\ target' = NoFile
    /\ IF backup[t] # NoFile
       THEN Updates(t, "restore") /\ UNCHANGED outcome
       ELSE Updates(t, "record") /\ outcome' = [outcome EXCEPT ![t] = "failed"]
    /\ UNCHANGED <<staged, backup, journal, commandVars, before, shown, trampled, deaths>>

Restore(t) ==
    /\ upc[t] = "restore"
    /\ target' = backup[t]
    /\ backup' = [backup EXCEPT ![t] = NoFile]
    /\ outcome' = [outcome EXCEPT ![t] = "failed"]
    /\ Updates(t, "record")
    /\ UNCHANGED <<staged, journal, commandVars, before, shown, trampled, deaths>>

\* A target that cannot be removed, a backup that cannot be renamed, or not
\* protected afterwards.
RollbackFails(t) ==
    /\ \/ upc[t] = "undo" /\ target # NoFile /\ UNCHANGED <<target, backup>>
       \/ upc[t] = "restore" /\ UNCHANGED <<target, backup>>
       \/ /\ upc[t] = "restore"
          /\ target' = backup[t]
          /\ backup' = [backup EXCEPT ![t] = NoFile]
    /\ outcome' = [outcome EXCEPT ![t] = "rollback failed"]
    /\ Updates(t, "record")
    /\ UNCHANGED <<staged, journal, commandVars, before, shown, trampled, deaths>>

\* A failure discards the candidate (a success has none), then the result is
\* recorded.
Record(t) ==
    /\ upc[t] = "record"
    /\ Writes(t, outcome[t])
    /\ DiscardsCandidate(t)
    /\ Updates(t, "over")
    /\ UNCHANGED <<target, backup, commandVars, outcome, before, shown, deaths>>

RecordFails(t) ==
    /\ upc[t] = "record"
    /\ DiscardsCandidate(t)
    /\ Updates(t, "over")
    /\ UNCHANGED <<target, backup, journal, commandVars, outcome, before, shown,
                   trampled, deaths>>

\* Or ends with an error before it waits.
UpdaterDies(t) ==
    /\ upc[t] \notin {"none", "over"}
    /\ deaths < MaxDeaths
    /\ deaths' = deaths + 1
    /\ Updates(t, "over")
    /\ UNCHANGED <<fileVars, journal, commandVars, outcome, before, shown, trampled>>

-----------------------------------------------------------------------------
CommandStep(c) ==
    \/ Start(c) \/ ReadState(c) \/ RemoveState(c) \/ RemoveFails(c)

UpgradeStep(c) ==
    \/ Download(c) \/ NoDownload(c) \/ PublishPending(c) \/ PublishFails(c)
    \/ Spawn(c) \/ SpawnFails(c) \/ Exit(c)

UpdaterStep(t) ==
    \/ ParentGone(t) \/ ParentStays(t)
    \/ Move(t) \/ MoveFails(t) \/ Install(t) \/ Rejected(t) \/ Verified(t) \/ Clean(t)
    \/ Undo(t) \/ Restore(t) \/ RollbackFails(t) \/ Record(t) \/ RecordFails(t)

UpdateNext ==
    \/ \E c \in Commands : CommandStep(c) \/ CommandDies(c)
    \/ \E t \in Upgrades : UpgradeStep(t) \/ UpdaterStep(t) \/ UpdaterDies(t)

UpdateSpec == UpdateInit /\ [][UpdateNext]_updateVars

\* Processes run.  A command may stay as long as it likes, once it has started
\* the updater: that waits 30 s at most.
UpdateFairness ==
    \A t \in Upgrades :
        /\ WF_updateVars(Spawn(t) \/ SpawnFails(t))
        /\ WF_updateVars(UpdaterStep(t))

FairUpdateSpec == UpdateSpec /\ UpdateFairness

-----------------------------------------------------------------------------
(* Properties *)

UpdateTypeOK ==
    /\ target \in Versions \cup {NoFile}
    /\ staged \in [Upgrades -> Versions \cup {NoFile}]
    /\ backup \in [Upgrades -> Versions \cup {NoFile}]
    /\ journal \in Journals \cup {NoState}
    /\ pc \in [Commands -> {"off", "read", "remove", "resolve", "publish", "spawn",
                            "exit", "over"}]
    /\ passes \in [Commands -> {0, 1}]
    /\ runs \in [Commands -> Versions \cup {NoFile}]
    /\ read \in [Commands -> Journals \cup {NoState}]
    /\ want \in [Upgrades -> Versions \cup {NoFile}]
    /\ upc \in [Upgrades -> {"none", "waiting", "move", "install", "verify", "clean",
                             "undo", "restore", "record", "over"}]
    /\ outcome \in [Upgrades -> Results \cup {"none"}]
    /\ before \in Versions \cup {NoFile}
    /\ shown \in [Upgrades -> Nat]
    /\ trampled \in BOOLEAN
    /\ deaths \in Nat

Working(t) == upc[t] \notin {"none", "waiting", "over"}

\* upgrade.go:86: "an update is already in progress".  The state keeps updaters
\* from working at the same time, unless one was trampled on.
OneAtATime ==
    ~trampled => \A t, s \in Upgrades : Working(t) /\ Working(s) => t = s

\* What the next command shows is what has happened to the target: updated to
\* that version, or "failed and was rolled back", or "did not start".
ResultIsTrue ==
    ~trampled /\ journal # NoState =>
        /\ journal.status \in {"succeeded", "warned"} => target = want[journal.id]
        /\ journal.status \in {"failed", "not started"} => target = before

\* Whatever fails or dies, there is a binary: the target, or a backup of it.
BinarySurvives ==
    ~trampled => target # NoFile \/ \E t \in Upgrades : backup[t] # NoFile

\* state.go:164: "Do not present the same result twice".
ShownOnce ==
    ~trampled => \A t \in Upgrades : shown[t] <= 1

\* Nobody is left who would end the pending update.
Stranded ==
    \/ upc[journal.id] = "over"
    \/ upc[journal.id] = "none" /\ pc[journal.id] = "over"

\* state.go:190: "An update is being applied. Retry in a moment."  While there is
\* an updater, or a command that will start one, the pending update ends, also
\* where the command does not exit.
PendingEnds == Pending ~> ~Pending \/ Stranded
=============================================================================
