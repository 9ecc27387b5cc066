---------------------------- MODULE RuntimeHost ----------------------------
(***************************************************************************)
(* The host of plugins that run in a process of their own                  *)
(* (src/src/main/plugins/experimental-plugin-runtime-host.ts, with         *)
(* experimental-runtime-cleanup.ts, experimental-runtime-ledger.ts and     *)
(* experimental-plugin-pid-registry.ts): launch, the runtime's own         *)
(* messages, abort, the four-step cleanup that can fail and be tried       *)
(* again, and shutdown.                                                    *)
(*                                                                         *)
(* Chromium picks the process of a window, and may pick one that is taken. *)
(* A key is launched once: the registry never reuses a generation.  Clocks *)
(* and counts are left out: a heartbeat is lost or comes too fast, and a   *)
(* message uses an identity, a request id or a number of them it may not   *)
(* ("invalid"), at any time.  A first probe stands for "ready" and it.     *)
(***************************************************************************)
EXTENDS Naturals

CONSTANTS
    MaxRuntimes,    \* bound: launches, each of its own plugin or generation
    Processes,      \* what Chromium can run a window in
    Editor,         \* the editor's own process, one of them
    None,           \* none of them
    MaxFaults       \* bound: cleanup steps that fail

\* What the theorems about the host assume of them.
RuntimeConstants ==
    Editor \in Processes /\ None \notin Processes /\ {MaxRuntimes, MaxFaults} \subseteq Nat

Runtimes == 1..MaxRuntimes

VARIABLES
    runtime,    \* each runtime: its record, its window and who waits for it
    down,       \* how far shutdown() is, and the records it closes
    faults

vars == <<runtime, down, faults>>

Runtime == [
    at : {"none", "registering", "live", "closing", "cleanup-failed", "closed"},
    window : {"none", "open", "gone"},
    os : Processes \cup {None},         \* the process of the window
    pid : Processes \cup {None},        \* what the pid registry has
    receipts : 0..4,                    \* cleanup steps done
    probe : {"none", "failed", "passed", "aborted"},
    failed : BOOLEAN,                   \* terminalFailure, of a launch under way
    launch : {"none", "pending", "handle", "rejected"},
    abort : {"none", "asked", "acked", "ended"}]

\* Every variable holds a value the code can give it.
TypeOK ==
    /\ runtime \in [Runtimes -> Runtime]
    /\ down \in [at : {"none", "first", "second", "done", "failed"}, keys : SUBSET Runtimes]
    /\ faults \in 0..MaxFaults

Unlaunched ==
    [at |-> "none", window |-> "none", os |-> None, pid |-> None, receipts |-> 0, probe |-> "none", failed |-> FALSE,
     launch |-> "none", abort |-> "none"]

Init ==
    /\ runtime = [k \in Runtimes |-> Unlaunched]
    /\ down = [at |-> "none", keys |-> {}]
    /\ faults = 0

Live(k) == runtime[k].at = "live"
Recorded == {k \in Runtimes : runtime[k].at \in {"live", "closing", "cleanup-failed"}}

Become(k, r) == runtime' = [runtime EXCEPT ![k] = r] /\ UNCHANGED <<down, faults>>

\* Mutant: the failure is not kept for the launch that waits.
CloseQuietly(r, failure) ==
    IF r.at \notin {"live", "closing", "cleanup-failed"} THEN r
    ELSE [r EXCEPT !.at = "closing", !.abort = IF @ = "asked" THEN "ended" ELSE @]

\* #close up to the cleanup's first await; a close under way is joined, one
\* that failed starts again where it stopped.
Close(r, failure) ==
    IF r.at \notin {"live", "closing", "cleanup-failed"} THEN r
    ELSE [r EXCEPT !.at = "closing", !.failed = @ \/ (failure /\ r.launch = "pending"),
                   !.abort = IF @ = "asked" THEN "ended" ELSE @]

(***************************************************************************)
(* Launching.                                                              *)
(***************************************************************************)
\* The window is created; its protocol's registration is awaited.
Launch(k, process) ==
    /\ runtime[k].at = "none" /\ \A j \in Runtimes : j < k => runtime[j].at # "none"
    /\ Become(k, [runtime[k] EXCEPT !.at = "registering", !.window = "open",
                                    !.os = process, !.launch = "pending"])

Registered(k) ==
    /\ runtime[k].at = "registering"
    /\ Become(k, [runtime[k] EXCEPT !.at = "live"])

\* Mutant: only the editor's process is taken.
IsEditors(k) == runtime[k].os = Editor

Collides(k) ==
    LET os == runtime[k].os
    IN  os = Editor \/ \E j \in Runtimes \ {k} : runtime[j].pid = os

\* did-finish-load: a process somebody else runs in isolates nothing.
Loaded(k) ==
    /\ Live(k) /\ runtime[k].pid = None /\ runtime[k].window = "open"
    /\ Become(k, IF Collides(k) THEN Close(runtime[k], TRUE)
                 ELSE [runtime[k] EXCEPT !.pid = runtime[k].os])

\* The poll for a runtime that loaded, said it is ready and sent its probe.
Polled(k) ==
    LET r == runtime[k] IN
    /\ Live(k) /\ r.launch = "pending"
    /\ r.pid # None /\ r.probe # "none"
    /\ Become(k, IF r.probe \in {"passed", "aborted"} THEN [r EXCEPT !.launch = "handle"]
                 ELSE Close(r, TRUE))

\* Five seconds without it.
ReadyTimesOut(k) ==
    /\ Live(k) /\ runtime[k].launch = "pending"
    /\ Become(k, Close(runtime[k], TRUE))

\* The process is gone, its heartbeat is lost or too fast, a load fails.
Lost(k) ==
    /\ Live(k)
    /\ \E window \in {"open", "gone"} :
        Become(k, [Close(runtime[k], TRUE) EXCEPT !.window = window])

(***************************************************************************)
(* The runtime's messages.                                                 *)
(***************************************************************************)
Message(k, kind) ==
    LET r == runtime[k]
        refused == kind = "invalid" \/ (kind = "ack" /\ r.abort # "asked")
    IN  /\ Live(k) /\ r.window = "open"
        /\ Become(k, CASE refused -> Close(r, TRUE)
                       [] ~refused /\ kind = "ack" -> [r EXCEPT !.abort = "acked"]
                       [] OTHER -> [r EXCEPT !.probe = kind])

(***************************************************************************)
(* The handle.                                                             *)
(***************************************************************************)
Abort(k) ==
    /\ runtime[k].launch = "handle" /\ runtime[k].abort = "none"
    /\ Become(k, [runtime[k] EXCEPT !.abort =
                    IF Live(k) /\ runtime[k].window = "open" THEN "asked" ELSE "ended"])

\* A second without the acknowledgement.
AbortTimesOut(k) ==
    /\ runtime[k].abort = "asked"
    /\ Become(k, Close([runtime[k] EXCEPT !.abort = "ended"], TRUE))

\* Mutant: there is no deadline for the probe.
AbortShown(k) ==
    /\ runtime[k].abort = "acked" /\ runtime[k].probe = "aborted"
    /\ Become(k, [runtime[k] EXCEPT !.abort = "ended"])

\* The acknowledgement came; the probe that shows it has half a second more.
AbortEnds(k) ==
    /\ runtime[k].abort = "acked"
    /\ Become(k, IF runtime[k].probe = "aborted" THEN [runtime[k] EXCEPT !.abort = "ended"]
                 ELSE Close([runtime[k] EXCEPT !.abort = "ended"], TRUE))

Destroy(k) ==
    /\ runtime[k].launch = "handle" /\ k \in Recorded
    /\ Become(k, Close(runtime[k], FALSE))

(***************************************************************************)
(* ExperimentalRuntimeCleanup: window, protocol, session, ownership.       *)
(***************************************************************************)
\* The record goes with the ownership; an abort being answered keeps its probe.
AfterStep(r) ==
    LET done == [r EXCEPT !.receipts = @ + 1]
    IN  CASE r.receipts = 0 -> [done EXCEPT !.window = "gone"]
          [] r.receipts \in {1, 2} -> done
          [] r.receipts = 3 ->
                [done EXCEPT !.at = "closed", !.pid = None, !.os = None,
                             !.failed = FALSE,
                             !.probe = IF r.abort = "acked" THEN @ ELSE "none",
                             !.launch = IF @ = "pending" /\ r.failed THEN "rejected" ELSE @]

CleanupStep(k) ==
    /\ runtime[k].at = "closing"
    /\ Become(k, AfterStep(runtime[k]))

CleanupFails(k) ==
    /\ runtime[k].at = "closing" /\ runtime[k].receipts < 3
    /\ faults < MaxFaults /\ faults' = faults + 1
    /\ runtime' = [runtime EXCEPT ![k].at = "cleanup-failed",
                                  ![k].launch = IF @ = "pending" THEN "rejected" ELSE @]
    /\ UNCHANGED down

(***************************************************************************)
(* Shutdown closes every record, and those that are left once more.        *)
(***************************************************************************)
CloseAll(at) ==
    /\ down' = [at |-> at, keys |-> down.keys \cup Recorded]
    /\ runtime' = [k \in Runtimes |-> Close(runtime[k], FALSE)]
    /\ UNCHANGED faults

Shutdown == down.at = "none" /\ CloseAll("first")

\* Mutant: shutdown() does not look at what its closes left.
ShutdownEnds ==
    /\ down.at = "first"
    /\ \A k \in down.keys : runtime[k].at # "closing"
    /\ down' = [down EXCEPT !.at = "done"]
    /\ UNCHANGED <<runtime, faults>>

ShutdownGoesOn ==
    /\ down.at \in {"first", "second"}
    /\ \A k \in down.keys : runtime[k].at # "closing"
    /\ \/ Recorded # {} /\ down.at = "first" /\ CloseAll("second")
       \/ /\ Recorded = {} \/ down.at = "second"
          /\ down' = [down EXCEPT !.at = IF Recorded = {} THEN "done" ELSE "failed"]
          /\ UNCHANGED <<runtime, faults>>

Messages == {"ack", "invalid", "failed", "passed", "aborted"}

Next ==
    \/ \E k \in Runtimes :
        \/ \E process \in Processes : Launch(k, process)
        \/ Registered(k) \/ Loaded(k) \/ Polled(k) \/ ReadyTimesOut(k) \/ Lost(k)
        \/ \E kind \in Messages : Message(k, kind)
        \/ Abort(k) \/ AbortTimesOut(k) \/ AbortEnds(k) \/ Destroy(k)
        \/ CleanupStep(k) \/ CleanupFails(k)
    \/ Shutdown \/ ShutdownGoesOn

\* Electron answers and the timers fire; nothing is assumed of the runtime.
Fairness ==
    /\ WF_vars(ShutdownGoesOn)
    /\ \A k \in Runtimes :
        /\ WF_vars(Registered(k)) /\ WF_vars(ReadyTimesOut(k)) /\ WF_vars(CleanupStep(k))
        /\ WF_vars(AbortTimesOut(k)) /\ WF_vars(AbortEnds(k))

Spec == Init /\ [][Next]_vars /\ Fairness

(***************************************************************************)
(* Properties.                                                             *)
(***************************************************************************)
\* A runtime that was accepted shares its process with no other and not with
\* the editor, and keeps it until its window is gone: through every cleanup
\* that fails half way (experimental-plugin-pid-registry.ts:11-19,
\* experimental-runtime-cleanup.ts:40-60).
OwnProcess ==
    \A k \in Runtimes : runtime[k].launch = "handle" /\ runtime[k].window = "open" =>
        /\ runtime[k].pid = runtime[k].os /\ runtime[k].os # Editor
        /\ \A j \in Runtimes \ {k} : runtime[j].pid # runtime[k].pid

\* A shutdown that says it is done has closed what was recorded when it began,
\* window, protocol and session (experimental-plugin-runtime-host.ts:328-336).
ShutdownCloses ==
    down.at = "done" => \A k \in down.keys : runtime[k].receipts = 4 /\ runtime[k].window = "gone"

\* A launch ends, whatever the runtime does; one that is closed by shutdown
\* alone is left waiting (experimental-plugin-runtime-host.ts:208-243, 511-520).
LaunchEnds == \A k \in Runtimes :
    runtime[k].launch = "pending" ~> runtime[k].launch # "pending" \/ down.at # "none"

\* An abort ends, acknowledged or not (experimental-plugin-runtime-host.ts:445-482).
AbortIsAnswered == \A k \in Runtimes :
    runtime[k].abort \in {"asked", "acked"} ~> runtime[k].abort = "ended"
=============================================================================
