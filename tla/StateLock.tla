------------------------------ MODULE StateLock ------------------------------
(***************************************************************************)
(* The directory locks of internal/tunnelruntime/state_lock.go, and of     *)
(* internal/appconfig/lock.go, which is the same protocol: the lock is a   *)
(* directory made by mkdir, in which its maker publishes a file naming     *)
(* itself.  A process that finds the directory reads the file and probes   *)
(* the owner: a dead owner's directory, or one that stays without an owner *)
(* for longer than a grace of one second, is renamed away.                 *)
(*                                                                         *)
(* Every file system call is one step, and works on whatever is at the     *)
(* lock's path when it runs.  Each member of Acquirers is one attempt by   *)
(* one process to take the lock, each member of Inspectors one call of     *)
(* StateDirectoryIsActive; a directory is named after the attempt that     *)
(* made it.  The grace is the boolean "fresh" of a directory, which time   *)
(* resets (Age), at the latest moment or at the earliest.                  *)
(***************************************************************************)
EXTENDS Naturals

CONSTANTS
    Acquirers,   \* attempts to take the lock, one process each
    Inspectors,  \* the members of Acquirers that only ask whether it is taken
    Nobody,      \* no directory, no owner
    Waits,       \* whether a live owner is waited for (registry, configuration)
                 \* or refused at once (server and client instances)
    Faults       \* "write": publishing fails; "rename": reclaiming fails;
                 \* "pause": a process stands still for longer than the grace

ASSUME LockConstants ==
    /\ Nobody \notin Acquirers
    /\ Inspectors \subseteq Acquirers
    /\ Waits \in BOOLEAN
    /\ Faults \subseteq {"write", "rename", "pause"}

VARIABLES
    path,     \* the directory at the lock's path
    dirs,     \* per directory: its owner file, whether the file is complete,
              \* whether the directory changed less than the grace ago
    pc,       \* what each attempt does next
    at,       \* the directory each attempt made, examined or opened last
    seen,     \* the owner each attempt read
    alive,    \* the processes that run
    usurped   \* history: a step took away a directory it had not examined, or
              \* one it had found without an owner that a live process publishes

lockVars == <<path, dirs, pc, at, seen, alive, usurped>>

Steps == {"mkdir", "open", "write", "held", "read", "probe", "stat", "reclaim",
          "sleep", "unlink", "rmdir", "over"}

NewDirectory == [file |-> Nobody, written |-> FALSE, fresh |-> TRUE]

\* The file a reader finds complete at the lock's path.
Published == path # Nobody /\ dirs[path].file # Nobody /\ dirs[path].written

\* Whether taking away what is at the path, by a, is a usurpation.
Usurps(a) ==
    /\ path # Nobody
    /\ \/ path # at[a]
       \/ /\ seen[a] = Nobody
          /\ \E b \in alive \ {a} :
                at[b] = path /\ pc[b] \in {"open", "write", "held"}

LockInit ==
    /\ path = Nobody
    /\ dirs = [d \in Acquirers |-> NewDirectory]
    /\ pc = [a \in Acquirers |-> IF a \in Inspectors THEN "read" ELSE "mkdir"]
    /\ at = [a \in Acquirers |-> Nobody]
    /\ seen = [a \in Acquirers |-> Nobody]
    /\ alive = Acquirers
    /\ usurped = FALSE

----------------------------------------------------------------------------
(* acquireStateLock *)

At(a, step) == a \in alive /\ pc[a] = step
Goto(a, step) == pc' = [pc EXCEPT ![a] = step]

\* Where an attempt goes that will look at the lock again; an inspector has
\* its answer.
Continue(a, step) == Goto(a, IF a \in Inspectors THEN "over" ELSE step)

Mkdir(a) ==
    /\ At(a, "mkdir")
    /\ path = Nobody
    /\ path' = a
    /\ dirs' = [dirs EXCEPT ![a] = NewDirectory]
    /\ at' = [at EXCEPT ![a] = a]
    /\ Goto(a, "open")
    /\ UNCHANGED <<seen, alive, usurped>>

MkdirExists(a) ==
    /\ At(a, "mkdir")
    /\ path # Nobody
    /\ Goto(a, "read")
    /\ UNCHANGED <<path, dirs, at, seen, alive, usurped>>

\* A definition named ...Bug is not part of the model: a property's mutation.
\* The owner file is created exclusively, in the directory then at the path.
OpenOwner(a) ==
    /\ At(a, "open")
    /\ path # Nobody
    /\ dirs[path].file = Nobody
    /\ dirs' = [dirs EXCEPT ![path] = [file |-> a, written |-> FALSE, fresh |-> TRUE]]
    /\ at' = [at EXCEPT ![a] = path]
    /\ Goto(a, "write")
    /\ UNCHANGED <<path, seen, alive, usurped>>

\* Publishing fails, and the directory then at the path will be removed.
OpenFails(a) ==
    /\ At(a, "open")
    /\ (path # Nobody /\ "write" \notin Faults) => dirs[path].file # Nobody
    /\ Goto(a, "unlink")
    /\ UNCHANGED <<path, dirs, at, seen, alive, usurped>>

\* The content goes to the file that was opened, unlinked or not.
WriteOwner(a) ==
    /\ At(a, "write")
    /\ dirs' = [dirs EXCEPT ![at[a]].written = @ \/ dirs[at[a]].file = a]
    /\ Goto(a, "held")
    /\ UNCHANGED <<path, at, seen, alive, usurped>>

WriteFails(a) ==
    /\ At(a, "write")
    /\ "write" \in Faults
    /\ Goto(a, "unlink")
    /\ UNCHANGED <<path, dirs, at, seen, alive, usurped>>

ReadOwner(a) ==
    /\ At(a, "read")
    /\ IF Published
       THEN /\ seen' = [seen EXCEPT ![a] = dirs[path].file]
            /\ at' = [at EXCEPT ![a] = path]
            /\ Goto(a, "probe")
       ELSE /\ seen' = [seen EXCEPT ![a] = Nobody]
            /\ Goto(a, "stat")
            /\ UNCHANGED at
    /\ UNCHANGED <<path, dirs, alive, usurped>>

ProbeAliveIsDeadBug(a) ==
    /\ At(a, "probe")
    /\ seen[a] \in alive
    /\ Goto(a, "reclaim")
    /\ UNCHANGED <<path, dirs, at, seen, alive, usurped>>

ProbeAlive(a) ==
    /\ At(a, "probe")
    /\ seen[a] \in alive
    /\ Continue(a, IF Waits THEN "sleep" ELSE "over")
    /\ UNCHANGED <<path, dirs, at, seen, alive, usurped>>

ProbeDeadSleepsBug(a) ==
    /\ At(a, "probe")
    /\ seen[a] \notin alive
    /\ Continue(a, "sleep")
    /\ UNCHANGED <<path, dirs, at, seen, alive, usurped>>

ProbeDead(a) ==
    /\ At(a, "probe")
    /\ seen[a] \notin alive
    /\ Goto(a, "reclaim")
    /\ UNCHANGED <<path, dirs, at, seen, alive, usurped>>

\* stateLockRecentlyCreated: a directory that is gone counts as old.
StatRecent(a) ==
    /\ At(a, "stat")
    /\ path # Nobody
    /\ dirs[path].fresh
    /\ Continue(a, "sleep")
    /\ UNCHANGED <<path, dirs, at, seen, alive, usurped>>

StatOld(a) ==
    /\ At(a, "stat")
    /\ path # Nobody => ~dirs[path].fresh
    /\ at' = [at EXCEPT ![a] = path]
    /\ Goto(a, "reclaim")
    /\ UNCHANGED <<path, dirs, seen, alive, usurped>>

\* removeStaleStateLock renames whatever is at the path; what it renamed can
\* then be removed, or not.
Reclaim(a) ==
    /\ At(a, "reclaim")
    /\ path' = Nobody
    /\ usurped' = (usurped \/ Usurps(a))
    /\ \/ Continue(a, "sleep")
       \/ "rename" \in Faults /\ Goto(a, "over")
    /\ UNCHANGED <<dirs, at, seen, alive>>

ReclaimFails(a) ==
    /\ At(a, "reclaim")
    /\ "rename" \in Faults
    /\ Goto(a, "over")
    /\ UNCHANGED <<path, dirs, at, seen, alive, usurped>>

\* The head of the loop, but for its first round: the deadline has passed or
\* the path is tried again.
Retry(a) ==
    /\ At(a, "sleep")
    /\ Goto(a, "mkdir")
    /\ UNCHANGED <<path, dirs, at, seen, alive, usurped>>

TimeOut(a) ==
    /\ At(a, "sleep")
    /\ Goto(a, "over")
    /\ UNCHANGED <<path, dirs, at, seen, alive, usurped>>

----------------------------------------------------------------------------
(* Release, and the os.RemoveAll it shares with a failed publication *)

\* Only the directory that names this handle's owner is to be removed.
Release(a) ==
    /\ At(a, "held")
    /\ IF Published /\ dirs[path].file = a
       THEN /\ at' = [at EXCEPT ![a] = path]
            /\ Goto(a, "unlink")
       ELSE /\ Goto(a, "over")
            /\ UNCHANGED at
    /\ UNCHANGED <<path, dirs, seen, alive, usurped>>

\* os.RemoveAll: an empty directory goes at once, a file before its directory.
Unlink(a) ==
    /\ At(a, "unlink")
    /\ usurped' = (usurped \/ Usurps(a))
    /\ IF path = Nobody \/ dirs[path].file = Nobody
       THEN /\ path' = Nobody
            /\ Goto(a, "over")
            /\ UNCHANGED dirs
       ELSE /\ dirs' = [dirs EXCEPT ![path] = NewDirectory]
            /\ Goto(a, "rmdir")
            /\ UNCHANGED path
    /\ UNCHANGED <<at, seen, alive>>

Rmdir(a) ==
    /\ At(a, "rmdir")
    /\ Goto(a, "over")
    /\ IF path # Nobody /\ dirs[path].file = Nobody
       THEN path' = Nobody /\ usurped' = (usurped \/ Usurps(a))
       ELSE UNCHANGED <<path, usurped>>
    /\ UNCHANGED <<dirs, at, seen, alive>>

----------------------------------------------------------------------------

\* A process exits, by itself or killed, at any point.
Exit(a) ==
    /\ a \in alive
    /\ alive' = alive \ {a}
    /\ UNCHANGED <<path, dirs, pc, at, seen, usurped>>

\* The grace of the directory at the path runs out: while nobody is about to
\* publish, to look at its age or to remove it, unless processes may pause.
Age ==
    /\ path # Nobody
    /\ dirs[path].fresh
    /\ \/ "pause" \in Faults
       \/ \A a \in alive : pc[a] \notin {"open", "write", "stat", "rmdir"}
    /\ dirs' = [dirs EXCEPT ![path].fresh = FALSE]
    /\ UNCHANGED <<path, pc, at, seen, alive, usurped>>

Acquire(a) ==
    \/ Mkdir(a) \/ MkdirExists(a) \/ OpenOwner(a) \/ OpenFails(a)
    \/ WriteOwner(a) \/ WriteFails(a) \/ ReadOwner(a) \/ ProbeAlive(a)
    \/ ProbeDead(a) \/ StatRecent(a) \/ StatOld(a) \/ Reclaim(a)
    \/ ReclaimFails(a) \/ Retry(a) \/ TimeOut(a)

Remove(a) == Unlink(a) \/ Rmdir(a)

LockNext ==
    \/ \E a \in Acquirers : Acquire(a) \/ Release(a) \/ Remove(a) \/ Exit(a)
    \/ Age

LockSpec == LockInit /\ [][LockNext]_lockVars

\* What is called returns and time passes; nobody has to release or exit.
FairLockSpec ==
    /\ LockSpec
    /\ WF_lockVars(Age)
    /\ \A a \in Acquirers : WF_lockVars(Acquire(a) \/ Remove(a))

----------------------------------------------------------------------------
(* Properties *)

Holder(a) == At(a, "held")

LockTypeOK ==
    /\ path \in Acquirers \cup {Nobody}
    /\ dirs \in [Acquirers -> [file: Acquirers \cup {Nobody}, written: BOOLEAN,
                               fresh: BOOLEAN]]
    /\ pc \in [Acquirers -> Steps]
    /\ at \in [Acquirers -> Acquirers \cup {Nobody}]
    /\ \A a \in Acquirers : pc[a] = "write" => at[a] # Nobody
    /\ seen \in [Acquirers -> Acquirers \cup {Nobody}]
    /\ alive \subseteq Acquirers
    /\ usurped \in BOOLEAN

\* At most one running process holds the lock: the lock "reserves one Tunnel
\* state directory for its owner's lifetime" (state_lock.go:34).
MutualExclusion == \A a, b \in Acquirers : Holder(a) /\ Holder(b) => a = b

\* The only ways to lose mutual exclusion are the two the history records: a
\* directory taken away that was not the one examined, and one taken away for
\* want of an owner that a live process was publishing.  Dead owners, timeouts, failed writes and
\* renames, and the two-step removal never break it by themselves.
Exclusive == usurped \/ MutualExclusion

\* A holder's lock is what everybody finds at the path, under its name, until
\* a usurpation: who inspects the directory meanwhile calls it active.
HeldIsPublished ==
    \A a \in Acquirers :
        Holder(a) => usurped \/ (Published /\ dirs[path].file = a)

\* A directory that names a dead owner, or that has none and gets none, is out
\* of the way once an attempt came upon it, unless the attempt fails: no lock
\* survives its owner for good, nobody has to remove one by hand.
Orphaned ==
    /\ path # Nobody
    /\ IF dirs[path].written
       THEN dirs[path].file \notin alive
       ELSE \A b \in alive : pc[b] \notin {"open", "write"}

OrphanIsReclaimed ==
    \A a \in Acquirers :
        (At(a, "mkdir") /\ Orphaned) ~> (~Orphaned \/ a \notin alive \/ pc[a] = "over")
=============================================================================
