--------------------------- MODULE MCAgentSession ---------------------------
(* The TLC instance of AgentSession. *)
EXTENDS AgentSession

Tunnels(rev, where) == [revision |-> rev, node |-> where, enabled |-> TRUE]
Empty(rev, where) == [revision |-> rev, node |-> where, enabled |-> FALSE]

\* A new Client has no Tunnels; it is given some, moved, and moved back.
New == Empty(0, "n1")
MCRuntimes == {New, Tunnels(1, "n1"), Tunnels(2, "n2"), Empty(2, "n1")}
=============================================================================
