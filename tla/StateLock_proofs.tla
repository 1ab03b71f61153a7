-------------------------- MODULE StateLock_proofs --------------------------
(***************************************************************************)
(* What is proved of the directory lock, for any number of processes: how  *)
(* mutual exclusion can be lost, and that it is lost in no other way.      *)
(***************************************************************************)
EXTENDS StateLock, TLAPS

\* Who is publishing, holding or removing a lock does so at its own directory.
Placed(a) ==
    a \in alive =>
        /\ pc[a] \in {"open", "write", "held"} => path = a /\ at[a] = a
        /\ pc[a] \in {"write", "held"} => dirs[a].file = a
        /\ pc[a] = "held" => dirs[a].written
        /\ pc[a] \in {"unlink", "rmdir"} => at[a] = a

\* A verdict about an owner is about the directory it was read in, and death
\* is final.
Judged(a) ==
    /\ pc[a] = "stat" => seen[a] = Nobody
    /\ pc[a] = "probe" => seen[a] = at[a] /\ seen[a] # Nobody
    /\ pc[a] = "reclaim" /\ seen[a] # Nobody => seen[a] = at[a] /\ seen[a] \notin alive

\* Nobody but its maker publishes in a directory.
OwnFile(a) == dirs[a].file \in {Nobody, a}

LockInv == ~usurped => \A a \in Acquirers : Placed(a) /\ Judged(a) /\ OwnFile(a)

LEMMA NewDirectoryType ==
    NewDirectory \in [file: Acquirers \cup {Nobody}, written: BOOLEAN, fresh: BOOLEAN]
BY Zenon DEF NewDirectory

\* A directory of which one boolean changes is still a directory.
LEMMA WrittenType ==
    ASSUME LockTypeOK, NEW d \in Acquirers, NEW w \in BOOLEAN
    PROVE  [dirs EXCEPT ![d].written = w] \in [Acquirers -> [file: Acquirers \cup {Nobody}, written: BOOLEAN, fresh: BOOLEAN]]
<1>1. [dirs[d] EXCEPT !.written = w] \in [file: Acquirers \cup {Nobody}, written: BOOLEAN, fresh: BOOLEAN]
  BY DEF LockTypeOK
<1>2. [dirs EXCEPT ![d] = [dirs[d] EXCEPT !.written = w]] \in [Acquirers -> [file: Acquirers \cup {Nobody}, written: BOOLEAN, fresh: BOOLEAN]]
  BY <1>1, Zenon DEF LockTypeOK
<1> QED
  BY <1>2, Zenon

LEMMA FreshType ==
    ASSUME LockTypeOK, NEW d \in Acquirers
    PROVE  [dirs EXCEPT ![d].fresh = FALSE] \in [Acquirers -> [file: Acquirers \cup {Nobody}, written: BOOLEAN, fresh: BOOLEAN]]
<1>1. [dirs[d] EXCEPT !.fresh = FALSE] \in [file: Acquirers \cup {Nobody}, written: BOOLEAN, fresh: BOOLEAN]
  BY DEF LockTypeOK
<1>2. [dirs EXCEPT ![d] = [dirs[d] EXCEPT !.fresh = FALSE]] \in [Acquirers -> [file: Acquirers \cup {Nobody}, written: BOOLEAN, fresh: BOOLEAN]]
  BY <1>1, Zenon DEF LockTypeOK
<1> QED
  BY <1>2, Zenon

\* The variables keep their types, whatever the processes do to each other.
THEOREM LockTypes == LockSpec => []LockTypeOK
<1>1. LockInit => LockTypeOK
  <2> SUFFICES ASSUME LockInit PROVE LockTypeOK
    OBVIOUS
  <2>1. dirs \in [Acquirers -> [file: Acquirers \cup {Nobody}, written: BOOLEAN, fresh: BOOLEAN]]
    BY NewDirectoryType, Zenon DEF LockInit
  <2>2. pc \in [Acquirers -> {"read", "mkdir"}]
    BY Zenon DEF LockInit
  <2> QED
    BY <2>1, <2>2, LockConstants DEF LockConstants, LockInit, LockTypeOK, Steps
<1>2. LockTypeOK /\ [LockNext]_lockVars => LockTypeOK'
  <2> SUFFICES ASSUME LockTypeOK, [LockNext]_lockVars PROVE LockTypeOK'
    OBVIOUS
  <2> USE LockConstants DEF LockConstants, LockTypeOK, Steps
  <2>1. ASSUME NEW a \in Acquirers, Mkdir(a) PROVE LockTypeOK'
    BY <2>1 DEF Mkdir, At, Goto, NewDirectory
  <2>2. ASSUME NEW a \in Acquirers, MkdirExists(a) PROVE LockTypeOK'
    BY <2>2 DEF MkdirExists, At, Goto
  <2>3. ASSUME NEW a \in Acquirers, OpenOwner(a) PROVE LockTypeOK'
    BY <2>3 DEF OpenOwner, At, Goto
  <2>4. ASSUME NEW a \in Acquirers, OpenFails(a) PROVE LockTypeOK'
    BY <2>4 DEF OpenFails, At, Goto
  <2>5. ASSUME NEW a \in Acquirers, WriteOwner(a) PROVE LockTypeOK'
    <3>1. at[a] \in Acquirers
      BY <2>5 DEF WriteOwner, At
    <3>2. (dirs[at[a]].written \/ dirs[at[a]].file = a) \in BOOLEAN
      BY Zenon
    <3>3. dirs' \in [Acquirers -> [file: Acquirers \cup {Nobody}, written: BOOLEAN, fresh: BOOLEAN]]
      BY <2>5, <3>1, <3>2, WrittenType, Zenon DEF WriteOwner
    <3> QED
      BY <2>5, <3>3 DEF WriteOwner, At, Goto
  <2>6. ASSUME NEW a \in Acquirers, WriteFails(a) PROVE LockTypeOK'
    BY <2>6 DEF WriteFails, At, Goto
  <2>7. ASSUME NEW a \in Acquirers, ReadOwner(a) PROVE LockTypeOK'
    BY <2>7 DEF ReadOwner, At, Goto, Published
  <2>8. ASSUME NEW a \in Acquirers, ProbeAlive(a) PROVE LockTypeOK'
    BY <2>8 DEF ProbeAlive, At, Goto, Continue
  <2>9. ASSUME NEW a \in Acquirers, ProbeDead(a) PROVE LockTypeOK'
    BY <2>9 DEF ProbeDead, At, Goto
  <2>10. ASSUME NEW a \in Acquirers, StatRecent(a) PROVE LockTypeOK'
    BY <2>10 DEF StatRecent, At, Goto, Continue
  <2>11. ASSUME NEW a \in Acquirers, StatOld(a) PROVE LockTypeOK'
    BY <2>11 DEF StatOld, At, Goto
  <2>12. ASSUME NEW a \in Acquirers, Reclaim(a) PROVE LockTypeOK'
    BY <2>12 DEF Reclaim, At, Goto, Continue
  <2>13. ASSUME NEW a \in Acquirers, ReclaimFails(a) PROVE LockTypeOK'
    BY <2>13 DEF ReclaimFails, At, Goto
  <2>14. ASSUME NEW a \in Acquirers, Retry(a) PROVE LockTypeOK'
    BY <2>14 DEF Retry, At, Goto
  <2>15. ASSUME NEW a \in Acquirers, TimeOut(a) PROVE LockTypeOK'
    BY <2>15 DEF TimeOut, At, Goto
  <2>16. ASSUME NEW a \in Acquirers, Release(a) PROVE LockTypeOK'
    BY <2>16 DEF Release, At, Goto, Published
  <2>17. ASSUME NEW a \in Acquirers, Unlink(a) PROVE LockTypeOK'
    BY <2>17, NewDirectoryType DEF Unlink, At, Goto
  <2>18. ASSUME NEW a \in Acquirers, Rmdir(a) PROVE LockTypeOK'
    BY <2>18 DEF Rmdir, At, Goto
  <2>19. ASSUME NEW a \in Acquirers, Exit(a) PROVE LockTypeOK'
    BY <2>19 DEF Exit
  <2>20. CASE Age
    <3>1. dirs' \in [Acquirers -> [file: Acquirers \cup {Nobody}, written: BOOLEAN, fresh: BOOLEAN]]
      BY <2>20, FreshType DEF Age
    <3> QED
      BY <2>20, <3>1 DEF Age
  <2>21. CASE UNCHANGED lockVars
    BY <2>21 DEF lockVars
  <2> QED
    BY <2>1, <2>2, <2>3, <2>4, <2>5, <2>6, <2>7, <2>8, <2>9, <2>10, <2>11, <2>12, <2>13, <2>14, <2>15, <2>16, <2>17, <2>18, <2>19, <2>20, <2>21 DEF LockNext, Acquire, Remove
<1> QED
  BY <1>1, <1>2, PTL DEF LockSpec

\* What an attempt does leaves the standing of the attempts and directories of
\* all others, and its own, as the invariant says, unless it usurps.
LEMMA MkdirKeeps ==
    ASSUME LockTypeOK, LockInv, NEW a \in Acquirers, Mkdir(a)
    PROVE  LockInv'
<1>1. /\ dirs'[a].file = Nobody
      /\ \A d \in Acquirers : d # a => dirs'[d] = dirs[d]
  BY Zenon DEF LockTypeOK, Mkdir, NewDirectory
<1> QED
  BY <1>1, LockConstants DEF LockConstants, LockTypeOK, LockInv, Placed, Judged, OwnFile, Mkdir,
     At, Goto

LEMMA MkdirExistsKeeps ==
    ASSUME LockTypeOK, LockInv, NEW a \in Acquirers, MkdirExists(a)
    PROVE  LockInv'
BY DEF LockTypeOK, LockInv, Placed, Judged, OwnFile, MkdirExists, At, Goto

LEMMA OpenOwnerKeeps ==
    ASSUME LockTypeOK, LockInv, NEW a \in Acquirers, OpenOwner(a)
    PROVE  LockInv'
BY DEF LockTypeOK, LockInv, Placed, Judged, OwnFile, OpenOwner, At, Goto

LEMMA OpenFailsKeeps ==
    ASSUME LockTypeOK, LockInv, NEW a \in Acquirers, OpenFails(a)
    PROVE  LockInv'
BY DEF LockTypeOK, LockInv, Placed, Judged, OwnFile, OpenFails, At, Goto

LEMMA WriteOwnerKeeps ==
    ASSUME LockTypeOK, LockInv, NEW a \in Acquirers, WriteOwner(a)
    PROVE  LockInv'
<1>1. at[a] \in Acquirers
  BY DEF LockTypeOK, WriteOwner, At
<1>2. \A d \in Acquirers : dirs'[d].file = dirs[d].file /\ (dirs[d].written => dirs'[d].written)
  BY <1>1 DEF LockTypeOK, WriteOwner
<1>3. ~usurped => dirs'[a].written
  BY <1>1 DEF LockTypeOK, LockInv, Placed, WriteOwner, At
<1> QED
  BY <1>2, <1>3 DEF LockTypeOK, LockInv, Placed, Judged, OwnFile, WriteOwner, At, Goto

LEMMA WriteFailsKeeps ==
    ASSUME LockTypeOK, LockInv, NEW a \in Acquirers, WriteFails(a)
    PROVE  LockInv'
BY DEF LockTypeOK, LockInv, Placed, Judged, OwnFile, WriteFails, At, Goto

LEMMA ReadOwnerKeeps ==
    ASSUME LockTypeOK, LockInv, NEW a \in Acquirers, ReadOwner(a)
    PROVE  LockInv'
BY DEF LockTypeOK, LockInv, Placed, Judged, OwnFile, ReadOwner, At, Goto, Published

LEMMA ProbeAliveKeeps ==
    ASSUME LockTypeOK, LockInv, NEW a \in Acquirers, ProbeAlive(a)
    PROVE  LockInv'
BY DEF LockTypeOK, LockInv, Placed, Judged, OwnFile, ProbeAlive, At, Goto, Continue

LEMMA ProbeDeadKeeps ==
    ASSUME LockTypeOK, LockInv, NEW a \in Acquirers, ProbeDead(a)
    PROVE  LockInv'
BY DEF LockTypeOK, LockInv, Placed, Judged, OwnFile, ProbeDead, At, Goto

LEMMA StatRecentKeeps ==
    ASSUME LockTypeOK, LockInv, NEW a \in Acquirers, StatRecent(a)
    PROVE  LockInv'
BY DEF LockTypeOK, LockInv, Placed, Judged, OwnFile, StatRecent, At, Goto, Continue

LEMMA StatOldKeeps ==
    ASSUME LockTypeOK, LockInv, NEW a \in Acquirers, StatOld(a)
    PROVE  LockInv'
BY DEF LockTypeOK, LockInv, Placed, Judged, OwnFile, StatOld, At, Goto

LEMMA ReclaimKeeps ==
    ASSUME LockTypeOK, LockInv, NEW a \in Acquirers, Reclaim(a)
    PROVE  LockInv'
<1> SUFFICES ASSUME ~usurped' PROVE LockInv'
  BY DEF LockInv
<1>1. ~usurped /\ ~Usurps(a)
  BY DEF Reclaim
<1>2. ASSUME NEW b \in alive, pc[b] \in {"open", "write", "held"} PROVE path = Nobody
  <2>1. path = b /\ at[b] = b /\ b # a
    BY <1>1, <1>2 DEF LockTypeOK, LockInv, Placed, Reclaim, At
  <2>2. CASE seen[a] = Nobody
    BY <1>1, <1>2, <2>1, <2>2 DEF Usurps
  <2>3. CASE seen[a] # Nobody
    <3>1. path # at[a]
      BY <1>1, <1>2, <2>1, <2>3 DEF LockTypeOK, LockInv, Judged, Reclaim, At
    <3> QED
      BY <1>1, <3>1 DEF Usurps
  <2> QED
    BY <2>2, <2>3
<1>3. \A b \in alive : pc[b] \notin {"open", "write", "held"}
  BY <1>1, <1>2, LockConstants DEF LockConstants, LockTypeOK, LockInv, Placed
<1>4. \A b \in Acquirers : b # a => pc'[b] = pc[b]
  BY DEF LockTypeOK, Reclaim, Goto, Continue
<1>5. pc'[a] \in {"sleep", "over"}
  BY DEF LockTypeOK, Reclaim, Goto, Continue
<1> QED
  BY <1>1, <1>3, <1>4, <1>5 DEF LockTypeOK, LockInv, Placed, Judged, OwnFile, Reclaim

LEMMA ReclaimFailsKeeps ==
    ASSUME LockTypeOK, LockInv, NEW a \in Acquirers, ReclaimFails(a)
    PROVE  LockInv'
BY DEF LockTypeOK, LockInv, Placed, Judged, OwnFile, ReclaimFails, At, Goto

LEMMA RetryKeeps ==
    ASSUME LockTypeOK, LockInv, NEW a \in Acquirers, Retry(a)
    PROVE  LockInv'
BY DEF LockTypeOK, LockInv, Placed, Judged, OwnFile, Retry, At, Goto

LEMMA TimeOutKeeps ==
    ASSUME LockTypeOK, LockInv, NEW a \in Acquirers, TimeOut(a)
    PROVE  LockInv'
BY DEF LockTypeOK, LockInv, Placed, Judged, OwnFile, TimeOut, At, Goto

LEMMA ReleaseKeeps ==
    ASSUME LockTypeOK, LockInv, NEW a \in Acquirers, Release(a)
    PROVE  LockInv'
BY DEF LockTypeOK, LockInv, Placed, Judged, OwnFile, Release, At, Goto, Published

LEMMA UnlinkKeeps ==
    ASSUME LockTypeOK, LockInv, NEW a \in Acquirers, Unlink(a)
    PROVE  LockInv'
<1> SUFFICES ASSUME ~usurped' PROVE LockInv'
  BY DEF LockInv
<1>1. ~usurped
  BY DEF Unlink
<1>2. ASSUME NEW b \in alive, pc[b] \in {"open", "write", "held"}, path' # path \/ dirs' # dirs
      PROVE  path = Nobody
  <2>1. path = b /\ at[b] = b /\ b # a /\ at[a] = a
    BY <1>1, <1>2 DEF LockTypeOK, LockInv, Placed, Unlink, At
  <2>2. ~Usurps(a)
    BY <1>2 DEF Unlink
  <2> QED
    BY <2>1, <2>2 DEF Usurps
<1>3. \A b \in alive : pc[b] \in {"open", "write", "held"} => path' = path /\ dirs' = dirs
  BY <1>1, <1>2, LockConstants DEF LockConstants, LockTypeOK, LockInv, Placed
<1>4. \A b \in Acquirers : b # a => pc'[b] = pc[b]
  BY DEF LockTypeOK, Unlink, Goto
<1>5. pc'[a] \in {"rmdir", "over"}
  BY DEF LockTypeOK, Unlink, Goto
<1>6. \A b \in Acquirers : dirs'[b].file \in {dirs[b].file, Nobody}
  BY DEF LockTypeOK, Unlink, NewDirectory
<1> QED
  BY <1>1, <1>3, <1>4, <1>5, <1>6 DEF LockTypeOK, LockInv, Placed, Judged, OwnFile, Unlink, At

LEMMA RmdirKeeps ==
    ASSUME LockTypeOK, LockInv, NEW a \in Acquirers, Rmdir(a)
    PROVE  LockInv'
<1> SUFFICES ASSUME ~usurped' PROVE LockInv'
  BY DEF LockInv
<1>1. ~usurped
  BY DEF Rmdir
<1>2. ASSUME NEW b \in alive, pc[b] \in {"open", "write", "held"}, path' # path \/ dirs' # dirs
      PROVE  path = Nobody
  <2>1. path = b /\ at[b] = b /\ b # a /\ at[a] = a
    BY <1>1, <1>2 DEF LockTypeOK, LockInv, Placed, Rmdir, At
  <2>2. ~Usurps(a)
    BY <1>2 DEF Rmdir
  <2> QED
    BY <2>1, <2>2 DEF Usurps
<1>3. \A b \in alive : pc[b] \in {"open", "write", "held"} => path' = path /\ dirs' = dirs
  BY <1>1, <1>2, LockConstants DEF LockConstants, LockTypeOK, LockInv, Placed
<1>4. \A b \in Acquirers : b # a => pc'[b] = pc[b]
  BY DEF LockTypeOK, Rmdir, Goto
<1>5. pc'[a] \in {"rmdir", "over"}
  BY DEF LockTypeOK, Rmdir, Goto
<1>6. \A b \in Acquirers : dirs'[b].file \in {dirs[b].file, Nobody}
  BY DEF LockTypeOK, Rmdir
<1> QED
  BY <1>1, <1>3, <1>4, <1>5, <1>6 DEF LockTypeOK, LockInv, Placed, Judged, OwnFile, Rmdir, At

LEMMA ExitKeeps ==
    ASSUME LockTypeOK, LockInv, NEW a \in Acquirers, Exit(a)
    PROVE  LockInv'
BY DEF LockTypeOK, LockInv, Placed, Judged, OwnFile, Exit

LEMMA AgeKeeps ==
    ASSUME LockTypeOK, LockInv, Age
    PROVE  LockInv'
BY DEF LockTypeOK, LockInv, Placed, Judged, OwnFile, Age

THEOREM LockInvariant == LockSpec => []LockInv
<1>1. LockInit => LockInv
  <2> SUFFICES ASSUME LockInit, NEW a \in Acquirers PROVE Placed(a) /\ Judged(a) /\ OwnFile(a)
    BY DEF LockInv
  <2>1. pc[a] \in {"read", "mkdir"} /\ dirs[a].file = Nobody
    BY Zenon DEF LockInit, NewDirectory
  <2> QED
    BY <2>1 DEF Placed, Judged, OwnFile
<1>2. LockTypeOK /\ LockInv /\ [LockNext]_lockVars => LockInv'
  <2> SUFFICES ASSUME LockTypeOK, LockInv, [LockNext]_lockVars PROVE LockInv'
    OBVIOUS
  <2>1. CASE UNCHANGED lockVars
    BY <2>1 DEF lockVars, LockInv, Placed, Judged, OwnFile
  <2> QED
    BY <2>1, MkdirKeeps, MkdirExistsKeeps, OpenOwnerKeeps, OpenFailsKeeps, WriteOwnerKeeps,
       WriteFailsKeeps, ReadOwnerKeeps, ProbeAliveKeeps, ProbeDeadKeeps, StatRecentKeeps,
       StatOldKeeps, ReclaimKeeps, ReclaimFailsKeeps, RetryKeeps, TimeOutKeeps, ReleaseKeeps,
       UnlinkKeeps, RmdirKeeps, ExitKeeps, AgeKeeps DEF LockNext, Acquire, Remove
<1> QED
  BY <1>1, <1>2, LockTypes, PTL DEF LockSpec

\* A process that holds the lock is found at the path by everybody, until a
\* usurpation (state_lock.go, the whole protocol).
THEOREM HolderIsFound == LockSpec => []HeldIsPublished
<1>1. LockTypeOK /\ LockInv => HeldIsPublished
  BY LockConstants DEF LockConstants, LockTypeOK, LockInv, Placed, HeldIsPublished, Holder, At, Published
<1> QED
  BY <1>1, LockTypes, LockInvariant, PTL

\* Two processes hold the lock at once only after a usurpation.
THEOREM ExclusionHolds == LockSpec => []Exclusive
<1>1. HeldIsPublished => Exclusive
  BY DEF HeldIsPublished, Exclusive, MutualExclusion
<1> QED
  BY <1>1, HolderIsFound, PTL
=============================================================================
