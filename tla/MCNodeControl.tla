--------------------------- MODULE MCNodeControl ---------------------------
(* TLC instances of NodeControl. *)
EXTENDS NodeControl

\* What the Controller can save is what the Node can be offered.
MCOffers == Snapshots

\* Bound: three revisions where the Node has not crashed, no request for a
\* registration is under way and the properties except nothing; else two.
ThirdRevision ==
    desiredRevision = 3 => crashes = 0 /\ ~late /\ \A a \in Admins : mark[a] = NoMark

(***************************************************************************)
(* Bounds of the liveness run.  Each leaves out only steps that nothing    *)
(* forces (requests, a crash, the choice of a process identifier), so that *)
(* every fair step from a state that is kept leads to one that is kept.    *)
(***************************************************************************)
FirstPid == CHOOSE p \in Pids : TRUE

NoClientInTheWay == ~assigned
ReadsMarkOfNoRow == Registered => \A a \in Admins : mark[a] = NoMark
OneRevisionIfCrashed == crashes = 0 \/ desiredRevision <= 1
OneProcessUnlessCrashed == crashes = 0 => \A p \in Pids \ {FirstPid} : proc[p] = NoSnapshot

LiveBounds ==
    /\ ~late
    /\ NoClientInTheWay
    /\ ReadsMarkOfNoRow
    /\ OneRevisionIfCrashed
    /\ OneProcessUnlessCrashed
=============================================================================
