------------------------------ MODULE FrpChild ------------------------------
(***************************************************************************)
(* What the owner of an FRP supervisor may rely on, whatever its timers,   *)
(* watchers and requests do: an FRP process starts only while one is       *)
(* wanted, with the configuration wanted then, and only when none is       *)
(* alive.                                                                  *)
(***************************************************************************)
CONSTANTS
    Pids,      \* processes
    Configs,   \* configuration files
    NoConfig   \* none of them: also that of a process that is not alive

VARIABLES
    wanted,    \* a child shall be running
    config,    \* with this configuration
    alive      \* the configuration of each process, NoConfig if it is dead

childVars == <<wanted, config, alive>>

Nobody == \A p \in Pids : alive[p] = NoConfig

ChildInit ==
    /\ wanted = FALSE
    /\ config = NoConfig
    /\ alive = [p \in Pids |-> NoConfig]

Wish(c) == wanted' = TRUE /\ config' = c /\ UNCHANGED alive

Drop == wanted' = FALSE /\ UNCHANGED <<config, alive>>

Rise(p) ==
    /\ wanted
    /\ Nobody
    /\ alive' = [alive EXCEPT ![p] = config]
    /\ UNCHANGED <<wanted, config>>

Fall(p) ==
    /\ alive' = [alive EXCEPT ![p] = NoConfig]
    /\ UNCHANGED <<wanted, config>>

ChildNext ==
    \/ \E c \in Configs : Wish(c)
    \/ Drop
    \/ \E p \in Pids : Rise(p) \/ Fall(p)

ChildSpec == ChildInit /\ [][ChildNext]_childVars

-----------------------------------------------------------------------------
(***************************************************************************)
(* "Start records configPath and ensures exactly one running FRP child"    *)
(* (frp_supervisor.go:186), the "at most" half of it.                      *)
(***************************************************************************)
AtMostOne ==
    \A p, q \in Pids : alive[p] # NoConfig /\ alive[q] # NoConfig => p = q
=============================================================================
