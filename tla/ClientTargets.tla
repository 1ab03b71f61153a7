--------------------------- MODULE ClientTargets ---------------------------
(***************************************************************************)
(* What a tunnel Client promises about the targets it is given, whatever   *)
(* fails and whenever it dies: it accepts only newer ones, it serves       *)
(* nothing that is newer than what it has accepted, and it calls a target  *)
(* applied only while it serves it.                                        *)
(***************************************************************************)
EXTENDS Naturals

CONSTANTS
    Runtimes,
    NoRuntime

VARIABLES
    accepted,   \* the highest target the Client has taken on
    applied,    \* the last one it has put into service
    child       \* the one its frpc serves

targetVars == <<accepted, applied, child>>

Newer(d, s) == s # NoRuntime => d.revision > s.revision

\* frpc runs for a runtime with an enabled Tunnel, and for no other.
ServedAs(r) == IF r.enabled THEN r ELSE NoRuntime

TargetsInit ==
    /\ accepted = NoRuntime
    /\ applied = NoRuntime
    /\ child = NoRuntime

TakeOn(d) ==
    /\ Newer(d, accepted)
    /\ accepted' = d
    /\ UNCHANGED <<applied, child>>

Serve(r) ==
    /\ child = NoRuntime
    /\ accepted # NoRuntime
    /\ r = accepted \/ Newer(accepted, r)
    /\ child' = r
    /\ UNCHANGED <<accepted, applied>>

Leave ==
    /\ child' = NoRuntime
    /\ UNCHANGED <<accepted, applied>>

Fulfil ==
    /\ accepted # NoRuntime
    /\ child = ServedAs(accepted)
    /\ applied' = accepted
    /\ UNCHANGED <<accepted, child>>

TargetsNext ==
    \/ \E r \in Runtimes : TakeOn(r) \/ Serve(r)
    \/ Leave
    \/ Fulfil

TargetsSpec == TargetsInit /\ [][TargetsNext]_targetVars
=============================================================================
