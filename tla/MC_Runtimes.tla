----------------------------- MODULE MC_Runtimes -----------------------------
(***************************************************************************)
(* Small instances of what runs a plugin's code: the plugins the reader    *)
(* installs (PluginInstalls), and the host of isolated runtimes            *)
(* (RuntimeHost).  They share no state: each is checked with the other at  *)
(* rest.                                                                   *)
(***************************************************************************)
EXTENDS PluginInstalls, TLC

CONSTANTS MaxRuntimes, Processes, Editor

VARIABLES subject, runtime, down, faults

Host == INSTANCE RuntimeHost

hostVars == <<runtime, down, faults>>

AllInit == subject \in {"installs", "runtimes"} /\ Init /\ Host!Init

AllNext ==
    \/ subject = "installs" /\ Next /\ UNCHANGED <<subject, hostVars>>
    \/ subject = "runtimes" /\ Host!Next /\ UNCHANGED <<subject, vars>>

AllSpec == AllInit /\ [][AllNext]_<<subject, vars, hostVars>>

\* RuntimeHost: OwnProcess.
OwnProcess == Host!OwnProcess

\* The code of plugins and the slots of requests are interchangeable.
Symmetry == Permutations(Codes) \cup Permutations(Slots)
=============================================================================
