--------------------------- MODULE MC_MainProcess ---------------------------
(***************************************************************************)
(* Small instances of what the main process runs besides the documents:    *)
(* the watcher of one of them (DocumentWatcher), quitting and the settings *)
(* (Quitting), the server for agents (RemoteControl) and updates           *)
(* (Updates).  They share no state, so each is checked with the others at  *)
(* rest.                                                                   *)
(***************************************************************************)
EXTENDS Quitting, FiniteSets

VARIABLES
    subject,
    present, handle, queue, polling, unpolled, rearm, settle, ceiling, armed, suspended, unreported,
    on, remote, listening, problem, address, held, file, minted, load,
    calls, made, flag, pane, asked, faults, overlapped,
    auto, published, channel, phase, available, pending, told, asks, changes, refused

Watcher == INSTANCE DocumentWatcher WITH SettleTicks <- 2, CeilingTicks <- 4, Rungs <- 3
Server == INSTANCE RemoteControl WITH MaxCalls <- 4, MaxFaults <- 1
Updater == INSTANCE Updates WITH
    Autos <- BOOLEAN, Versions <- 1..2, Pre <- {2}, MaxAsked <- 3, MaxChanges <- 3, MaxFaults <- 1

watcherVars == <<present, handle, queue, polling, unpolled, rearm, settle, ceiling, armed, suspended,
                 unreported>>
serverVars == <<on, remote, listening, problem, address, held, file, minted, load,
                calls, made, flag, pane, asked, faults, overlapped>>
updaterVars == <<auto, published, channel, phase, available, pending, told, asks, changes, refused>>
allVars == <<subject, vars, watcherVars, serverVars, updaterVars>>

AllInit ==
    /\ subject \in {"watcher", "quitting", "server", "updates"}
    /\ Init /\ Watcher!Init /\ Server!Init /\ Updater!Init
    /\ subject # "watcher" => present
    /\ subject # "server" => file = 1
    /\ subject # "updates" => auto

OnlyWatcher == subject = "watcher" /\ UNCHANGED <<subject, vars, serverVars, updaterVars>>
OnlyQuitting == subject = "quitting" /\ UNCHANGED <<subject, watcherVars, serverVars, updaterVars>>
OnlyServer == subject = "server" /\ UNCHANGED <<subject, vars, watcherVars, updaterVars>>
OnlyUpdates == subject = "updates" /\ UNCHANGED <<subject, vars, watcherVars, serverVars>>

AllNext ==
    \/ OnlyWatcher /\ Watcher!Next
    \/ OnlyQuitting /\ Next
    \/ OnlyServer /\ Server!Next
    \/ OnlyUpdates /\ Updater!Next

\* The fairness of each of them; the subject never changes, so one conjunct
\* stands for one of each.
AllFairness ==
    /\ WF_allVars(\/ OnlyWatcher /\ Watcher!DeliverChange
                  \/ OnlyQuitting /\ StepIsLate
                  \/ OnlyServer /\ Server!Runs
                  \/ OnlyUpdates /\ Updater!Runs)
    /\ WF_allVars(\/ OnlyWatcher /\ Watcher!DeliverRename
                  \/ OnlyQuitting /\ (Discard \/ Review))
    /\ WF_allVars(OnlyWatcher /\ Watcher!RearmFires)
    /\ WF_allVars(OnlyWatcher /\ Watcher!Poll)
    /\ WF_allVars(OnlyWatcher /\ Watcher!Report)
    /\ WF_allVars(OnlyWatcher /\ Watcher!Tick)

AllSpec == AllInit /\ [][AllNext]_allVars /\ AllFairness

\* DocumentWatcher: SeenIsReported.
SeenIsReported == Watcher!SeenIsReported

\* RemoteControl.
CalmSettles == Server!CalmSettles
OffIsOff == Server!OffIsOff

\* Updates: BusyEnds.
BusyEnds == Updater!BusyEnds
=============================================================================
