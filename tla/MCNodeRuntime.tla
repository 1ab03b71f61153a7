--------------------------- MODULE MCNodeRuntime ---------------------------
(* TLC instances of NodeRuntime. *)
EXTENDS NodeRuntime, TLC

Running(r, b) == [revision |-> r, state |-> "running", body |-> b]
Disabled(r)   == [revision |-> r, state |-> "disabled", body |-> "none"]

\* Enough to switch, to disable, to disable instead, and to come back.
MCOffers == {Running(1, "a"), Running(2, "b"), Disabled(2), Disabled(3),
             Running(4, "a")}

\* Fewer, where the question needs no more.
SmallOffers == {Running(1, "a"), Disabled(2), Running(2, "b"), Running(3, "a")}

LiveOffers == {Running(1, "a"), Disabled(2), Running(2, "b")}

PidSymmetry == Permutations(Pids)
=============================================================================
