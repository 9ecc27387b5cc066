----------------------------- MODULE MC_Plugins -----------------------------
(***************************************************************************)
(* Small instances of the plugin system: the lifecycle of a plugin between *)
(* registry and window (PluginLifecycle), and the service process of the   *)
(* backups (ServiceHost).  They share no state, so each is checked with    *)
(* the other at rest, where none of its fair steps is enabled.             *)
(***************************************************************************)
EXTENDS PluginLifecycle

CONSTANTS MaxServices, MaxRequests

ASSUME ServiceBounds == {MaxServices, MaxRequests} \subseteq Nat

VARIABLES
    subject,
    owner, aborted, serviceHost, process

Service == INSTANCE ServiceHost WITH host <- serviceHost

serviceVars == <<owner, aborted, serviceHost, process>>

AllInit ==
    /\ subject \in {"lifecycle", "service"}
    /\ Init /\ Service!Init
    /\ subject # "lifecycle" => stored

AllNext ==
    \/ subject = "lifecycle" /\ Next /\ UNCHANGED <<subject, serviceVars>>
    \/ subject = "service" /\ Service!Next /\ UNCHANGED <<subject, vars>>

AllSpec ==
    /\ AllInit /\ [][AllNext]_<<subject, vars, serviceVars>>
    /\ Fairness /\ Service!Fairness

\* ServiceHost: ServiceIsCurrent; NoOrphan is checked with it as an invariant added to the cfg.
ServiceIsCurrent == Service!ServiceIsCurrent
NoOrphan == Service!NoOrphan
=============================================================================
