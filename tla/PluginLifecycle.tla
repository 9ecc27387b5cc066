-------------------------- MODULE PluginLifecycle --------------------------
(***************************************************************************)
(* One plugin that runs in the editor, from its switch in Settings to the  *)
(* code running in the window: the registry's transitions and their queue  *)
(* (src/src/main/plugins/plugin-registry.ts), the bridge of leases         *)
(* (renderer-lease-bridge.ts), the client and the host in the window       *)
(* (src/src/renderer/plugins/), and a window that can reload.              *)
(*                                                                         *)
(* Both directions of the IPC are in order.  What the code does between    *)
(* two events of the event loop happens before the next event: Drain       *)
(* actions go first.  A generation and its lease have one number.          *)
(***************************************************************************)
EXTENDS Naturals, Sequences, FiniteSets, SequencesExt

CONSTANTS
    MaxGenerations, \* bound: activations
    MaxCalls,       \* bound: calls of Settings, the palette and the quit
    MaxReloads,     \* bound: navigations of the window
    MaxFaults       \* bound: plugin, disk and time-out failures

ASSUME BoundsAssumption ==
    {MaxGenerations, MaxCalls, MaxReloads, MaxFaults} \subseteq Nat

Gens == 1..MaxGenerations
None == 0

VARIABLES
    main,     \* the registry's record of the plugin
    queue,    \* its operations waiting: [kind, epoch, lease]
    job,      \* the one running, and what it waits for
    attempt,  \* the cleanup being tried
    stored,   \* the switch in local-state.json
    gone,     \* the bridge has no window to talk to
    leases,   \* leases the bridge knows
    pending,  \* its unanswered requests
    forget,   \* opens the bridge gave up, before their promise is handled
    toWindow, toMain,
    page,     \* a page with its plugin client is up
    known,    \* leases the client holds
    closed,   \* leases the client remembers as closed
    host,     \* what the host has of each lease
    opening,  \* opens the client has not answered
    closers,  \* close requests waiting for the host
    tries,    \* close requests sent
    budget    \* calls, reloads and faults so far

registry == <<main, queue, job, attempt, stored>>
bridge == <<gone, leases, pending, forget>>
wires == <<toWindow, toMain>>
window == <<page, known, closed, host, opening, closers>>
vars == <<main, queue, job, attempt, stored, gone, leases, pending, forget,
          toWindow, toMain, page, known, closed, host, opening, closers, tries, budget>>

Phases == {"stable", "enabling", "disabling", "replacing", "disposed", "shutting-down"}
Lives == {"idle", "activating", "active", "deactivating", "disabled", "failed"}
Kinds == {"enable", "disable", "replace", "setting", "dispose", "shutdown"}
Record == [desired : BOOLEAN, phase : Phases, epoch : Nat, intent : BOOLEAN,
           gen : Gens \cup {None}, fenced : BOOLEAN, since : Nat,
           cleanup : Gens \cup {None}, life : Lives, count : 0..MaxGenerations,
           disposed : SUBSET Gens]
Operations == [kind : Kinds, epoch : Nat, lease : Gens \cup {None}]
Jobs == [kind : Kinds \cup {"none"}, epoch : Nat, lease : Gens \cup {None},
         at : {"none", "cleanup", "cleaned", "persist", "reconcile", "reconciled",
               "persisted", "activation"}, failed : BOOLEAN]
Attempts == [gen : Gens \cup {None}, try : Nat, opened : BOOLEAN,
             st : {"none", "waiting", "ok", "failed"}]
Requests == [act : {"open", "close"}, gen : Gens, try : Nat]
Acks == [ack : {"opened", "refused", "closed", "incomplete", "unknown"}, gen : Gens, try : Nat]
NoJob == [kind |-> "none", epoch |-> 0, lease |-> None, at |-> "none", failed |-> FALSE]
NoAttempt == [gen |-> None, try |-> 0, st |-> "none", opened |-> FALSE]
Live == {"starting", "active"}

\* Every variable holds a value the code can give it.
TypeOK ==
    /\ main \in Record /\ queue \in Seq(Operations)
    /\ job \in Jobs /\ attempt \in Attempts
    /\ stored \in BOOLEAN /\ gone \in BOOLEAN /\ page \in BOOLEAN
    /\ {leases, forget, known, closed, opening} \subseteq SUBSET Gens
    /\ pending \cup closers \subseteq Requests
    /\ toWindow \in Seq(Requests) /\ toMain \in Seq(Acks)
    /\ host \in [Gens -> {"none", "queued", "starting", "active", "closing", "held", "closed"}]
    /\ budget \in [calls : 0..MaxCalls, reloads : 0..MaxReloads,
                   faults : 0..MaxFaults]
    /\ tries \in Nat

\* After hydrate(): the switch as stored, the page about to load.
Init ==
    /\ stored \in BOOLEAN
    /\ main = [desired |-> stored, phase |-> "stable", epoch |-> 0, intent |-> stored,
               gen |-> None, fenced |-> FALSE, since |-> 0, cleanup |-> None,
               life |-> IF stored THEN "idle" ELSE "disabled", count |-> 0, disposed |-> {}]
    /\ queue = <<>> /\ job = NoJob /\ attempt = NoAttempt
    /\ gone = TRUE /\ leases = {} /\ pending = {} /\ forget = {}
    /\ toWindow = <<>> /\ toMain = <<>>
    /\ page = FALSE /\ known = {} /\ closed = {} /\ host = [g \in Gens |-> "none"]
    /\ opening = {} /\ closers = {}
    /\ tries = 0
    /\ budget = [calls |-> 0, reloads |-> 0, faults |-> 0]

Fault == budget.faults < MaxFaults /\ budget' = [budget EXCEPT !.faults = @ + 1]

(***************************************************************************)
(* The registry's transitions, as functions of its record.                 *)
(***************************************************************************)
BeginTransition(m, phase, intent, fence) ==
    [m EXCEPT !.epoch = @ + 1, !.phase = phase, !.intent = intent,
              !.fenced = @ \/ (fence /\ m.gen # None)]

\* finishTransition: an operation a later one has overtaken changes nothing.
Finish(m, epoch, life) ==
    IF m.epoch # epoch THEN m
    ELSE [m EXCEPT !.phase = "stable", !.intent = m.desired, !.life = life]

ActivationAllowed(m, epoch) ==
    m.epoch = epoch /\ m.phase = "stable" /\ m.intent /\ m.desired /\ m.cleanup = None

CanPublish(m, g) == m.gen = g /\ ~m.fenced /\ ActivationAllowed(m, m.since)

Owned(m) == IF m.gen # None THEN m.gen ELSE m.cleanup

\* Mutant: the generation is let go before its cleanup ended.
Forgotten(m) == [m EXCEPT !.gen = None, !.fenced = FALSE]

\* cleanupOwnedGeneration: the generation becomes the cleanup owed.
Disown(m) == [m EXCEPT !.gen = None, !.fenced = FALSE, !.cleanup = Owned(m)]

Enqueue(kind, epoch, lease) == queue' = Append(queue, [kind |-> kind, epoch |-> epoch, lease |-> lease])

(***************************************************************************)
(* The bridge.  Giving up an open is noticed by its promise's handlers     *)
(* only after what runs now: forget.                                       *)
(***************************************************************************)
OpensOf(S) == {p \in pending : p.act = "open" /\ p.gen \in S}

\* The generation's abort signal.
Abort == forget' = forget \cup {p.gen : p \in OpensOf({main.gen})}

\* attemptGenerationCleanup and closeLease: join the attempt under way, or
\* fail at once on a lease the bridge no longer knows, or succeed at once with
\* no window, or ask the window.
TryCleanup(g, known_, waiting, opened) ==
    LET request == [act |-> "close", gen |-> g, try |-> tries + 1]
        begun(st) == [gen |-> g, try |-> request.try, st |-> st, opened |-> opened]
    IN  \/ /\ attempt.gen = g
           /\ leases' = known_ /\ pending' = waiting
           /\ UNCHANGED <<attempt, toWindow, tries>>
        \/ /\ attempt.gen # g /\ g \notin known_
           /\ attempt' = begun("failed")
           /\ leases' = known_ /\ pending' = waiting
           /\ UNCHANGED <<toWindow, tries>>
        \/ /\ attempt.gen # g /\ g \in known_ /\ gone
           /\ attempt' = begun("ok")
           /\ leases' = known_ \ {g} /\ pending' = waiting
           /\ UNCHANGED <<toWindow, tries>>
        \/ /\ attempt.gen # g /\ g \in known_ /\ ~gone
           /\ attempt' = begun("waiting")
           /\ leases' = known_ /\ pending' = waiting \cup {request}
           /\ toWindow' = Append(toWindow, request)
           /\ tries' = tries + 1

\* Clean up what m owns, then go on at the step "then" of the job.
CleanUp(m, j, waitAt, then) ==
    IF Owned(m) = None
    THEN /\ main' = m /\ job' = [j EXCEPT !.at = then, !.failed = FALSE]
         /\ UNCHANGED <<attempt, leases, pending, forget, toWindow, tries>>
    ELSE /\ main' = Disown(m) /\ job' = [j EXCEPT !.at = waitAt]
         /\ Abort
         /\ TryCleanup(Owned(m), leases, pending \ OpensOf({m.gen}), FALSE)

\* activateRuntime: a new generation, its lease offered to the window.  With
\* no window the bridge refuses before it notes the lease.
Activate(m) ==
    LET g == m.count + 1
        request == [act |-> "open", gen |-> g, try |-> 0]
    IN  /\ m.count < MaxGenerations
        /\ main' = [m EXCEPT !.gen = g, !.count = g, !.fenced = FALSE,
                             !.since = m.epoch, !.life = "activating"]
        /\ IF gone THEN /\ forget' = forget \cup {g}
                        /\ UNCHANGED <<leases, pending, toWindow>>
           ELSE /\ leases' = leases \cup {g} /\ pending' = pending \cup {request}
                /\ toWindow' = Append(toWindow, request)
                /\ UNCHANGED forget

(***************************************************************************)
(* What runs before the next event.                                        *)
(***************************************************************************)
CanStart == queue # <<>> /\ job = NoJob

\* The next operation of the queue starts.
StartJob ==
    /\ CanStart
    /\ queue' = Tail(queue)
    /\ LET op == Head(queue)
           j == [kind |-> op.kind, epoch |-> op.epoch, lease |-> op.lease,
                 at |-> "persist", failed |-> FALSE]
       IN  \/ /\ op.kind = "setting" \/ (op.kind = "enable" /\ ~main.desired)
              /\ job' = j
              /\ UNCHANGED <<main, attempt, bridge, toWindow, tries>>
           \/ /\ op.kind = "enable" /\ main.desired
              /\ job' = [j EXCEPT !.at = "persisted"]
              /\ UNCHANGED <<main, attempt, bridge, toWindow, tries>>
           \/ /\ op.kind \in {"disable", "replace", "shutdown"}
              /\ CleanUp(main, j, "cleanup", "cleaned")
              /\ UNCHANGED gone
           \/ /\ op.kind = "dispose"
              /\ op.lease \in main.disposed \/ Owned(main) # op.lease
              /\ job' = NoJob
              /\ UNCHANGED <<main, attempt, bridge, toWindow, tries>>
           \/ /\ op.kind = "dispose"
              /\ op.lease \notin main.disposed /\ Owned(main) = op.lease
              /\ LET m == BeginTransition(main, "disposed", main.desired, TRUE)
                 IN  CleanUp([m EXCEPT !.life = "deactivating"],
                             [j EXCEPT !.epoch = m.epoch], "cleanup", "cleaned")
              /\ UNCHANGED gone
    /\ UNCHANGED <<stored, toMain, window, budget>>

\* The end of attemptGenerationCleanup, for everyone who waits for it.
SettleAttempt ==
    /\ attempt.st \in {"ok", "failed"}
    /\ attempt' = NoAttempt
    /\ main' = [main EXCEPT
            !.cleanup = IF attempt.st = "ok" /\ @ = attempt.gen THEN None ELSE @,
            !.life = IF attempt.opened THEN "failed" ELSE @]
    /\ job' = CASE job.at = "cleanup" -> [job EXCEPT !.at = "cleaned", !.failed = attempt.st = "failed"]
                [] job.at = "reconcile" -> [job EXCEPT !.at = "reconciled", !.failed = attempt.st = "failed"]
                [] OTHER -> job
    /\ UNCHANGED <<queue, stored, bridge, wires, window, tries, budget>>

\* The operation goes on after its cleanup.
AfterCleanup ==
    /\ job.at = "cleaned"
    /\ \/ /\ job.kind = "disable" /\ main.desired
          /\ job' = [job EXCEPT !.at = "persist"]
          /\ UNCHANGED <<main, bridge, toWindow>>
       \/ /\ job.kind = "disable" /\ ~main.desired
          /\ job' = [job EXCEPT !.at = "persisted"]
          /\ UNCHANGED <<main, bridge, toWindow>>
       \/ /\ job.kind = "dispose"
          /\ main' = LET m == Finish(main, job.epoch, "failed")
                     IN  IF job.failed THEN m ELSE [m EXCEPT !.disposed = @ \cup {job.lease}]
          /\ job' = NoJob
          /\ UNCHANGED <<bridge, toWindow>>
       \/ /\ job.kind = "shutdown"
          /\ main' = Finish(main, job.epoch, IF job.failed THEN "failed"
                                             ELSE IF main.desired THEN "idle" ELSE "disabled")
          /\ job' = NoJob
          /\ UNCHANGED <<bridge, toWindow>>
       \/ /\ job.kind = "replace" /\ (job.failed \/ main.epoch # job.epoch)
          /\ main' = Finish(main, job.epoch, "failed")
          /\ job' = NoJob
          /\ UNCHANGED <<bridge, toWindow>>
       \/ /\ job.kind = "replace" /\ ~job.failed /\ main.epoch = job.epoch
          /\ LET m == Finish(main, job.epoch, main.life)
             IN  \/ /\ m.desired /\ m.count < MaxGenerations
                    /\ Activate(m) /\ job' = [job EXCEPT !.at = "activation"]
                    /\ UNCHANGED gone
                 \/ /\ ~m.desired \/ m.count = MaxGenerations
                    /\ main' = IF m.desired THEN m ELSE [m EXCEPT !.life = "disabled"]
                    /\ job' = NoJob
                    /\ UNCHANGED <<bridge, toWindow>>
    /\ UNCHANGED <<queue, attempt, stored, toMain, window, tries, budget>>

\* The operation's answer to an error of persist().
PersistThrows(m) ==
    CASE job.kind = "enable" -> [Finish(m, job.epoch, "failed") EXCEPT !.life = "failed"]
      [] job.kind = "disable" -> Finish(m, job.epoch, "failed")
      [] job.kind = "setting" -> m

\* reconcilePersistedOutcome's end, and the error it throws into the operation.
AfterReconcile ==
    /\ job.at = "reconciled"
    /\ LET m == [main EXCEPT !.phase = "stable", !.intent = FALSE,
                             !.life = IF job.failed THEN "failed" ELSE "disabled"]
       IN  IF ~job.failed
           THEN main' = m /\ job' = [job EXCEPT !.at = "persisted"]
           ELSE main' = PersistThrows(m) /\ job' = NoJob
    /\ UNCHANGED <<queue, attempt, stored, bridge, wires, window, tries, budget>>

\* Mutant: disable() ends without looking at the cleanup's failures.
PersistedWhatever ==
    /\ job.at = "persisted"
    /\ main' = IF job.kind = "setting" THEN main
               ELSE Finish(main, job.epoch, IF main.desired THEN "failed" ELSE "disabled")
    /\ job' = NoJob
    /\ UNCHANGED <<queue, attempt, stored, bridge, wires, window, tries, budget>>

\* The end of enable, disable and setSetting.
AfterPersist ==
    /\ job.at = "persisted"
    /\ main' = CASE job.kind = "setting" -> main
                 [] job.kind = "enable" ->
                        Finish(main, job.epoch,
                               IF ~main.desired \/ main.cleanup # None THEN "failed"
                               ELSE IF main.gen = None THEN "idle" ELSE main.life)
                 [] job.kind = "disable" ->
                        Finish(main, job.epoch,
                               IF job.failed \/ main.desired THEN "failed" ELSE "disabled")
    /\ job' = NoJob
    /\ UNCHANGED <<queue, attempt, stored, bridge, wires, window, tries, budget>>

\* An open the bridge gave up: it drops the lease unless a close is under way;
\* a generation still current fails, and its cleanup is tried.
ForgetOpen(g) ==
    /\ g \in forget /\ ~CanStart
    /\ forget' = forget \ {g}
    /\ LET known_ == IF \E p \in pending : p.gen = g THEN leases ELSE leases \ {g}
       IN  IF CanPublish(main, g)
           THEN /\ main' = Disown(main)
                /\ TryCleanup(g, known_, pending, TRUE)
           ELSE /\ leases' = known_
                /\ UNCHANGED <<main, attempt, pending, toWindow, tries>>
    /\ job' = IF job.at = "activation" THEN NoJob ELSE job
    /\ UNCHANGED <<queue, stored, gone, toMain, window, budget>>

Busy ==
    \/ CanStart \/ forget # {} \/ attempt.st \in {"ok", "failed"}
    \/ job.at \in {"cleaned", "persisted", "reconciled"}

Drain ==
    \/ StartJob \/ SettleAttempt \/ AfterCleanup \/ AfterReconcile \/ AfterPersist
    \/ \E g \in Gens : ForgetOpen(g)

(***************************************************************************)
(* Events of the main process.                                             *)
(***************************************************************************)
Call == budget.calls < MaxCalls /\ budget' = [budget EXCEPT !.calls = @ + 1]

\* enable(): no transition of its own when it is enabled and stable already.
Enable ==
    /\ ~Busy /\ Call
    /\ LET m == IF main.desired /\ main.phase = "stable" THEN main
                ELSE BeginTransition(main, "enabling", TRUE, FALSE)
       IN  main' = m /\ Enqueue("enable", m.epoch, None)
    /\ UNCHANGED <<job, attempt, stored, bridge, wires, window, tries>>

\* The part disable, replaceGeneration and shutdown do before they queue.
FencedCall(kind, phase, intent, life) ==
    /\ LET m == BeginTransition(main, phase, intent, TRUE)
       IN  main' = [m EXCEPT !.life = life] /\ Enqueue(kind, m.epoch, None)
    /\ Abort /\ pending' = pending \ OpensOf({main.gen})
    /\ UNCHANGED <<job, attempt, stored, gone, leases, wires, window, tries>>

Disable == ~Busy /\ Call /\ FencedCall("disable", "disabling", FALSE, "deactivating")

Replace ==
    /\ ~Busy /\ Call /\ ActivationAllowed(main, main.epoch)
    /\ FencedCall("replace", "replacing", TRUE, "deactivating")

Shutdown ==
    /\ ~Busy /\ Call
    /\ FencedCall("shutdown", "shutting-down", main.desired,
                  IF Owned(main) = None THEN main.life ELSE "deactivating")

SetSetting ==
    /\ ~Busy /\ Call
    /\ Enqueue("setting", 0, None)
    /\ UNCHANGED <<main, job, attempt, stored, bridge, wires, window, tries>>

\* triggerStartup, triggerEvent, triggerHotkey and executeCommand.
Trigger ==
    /\ ~Busy /\ Call
    /\ ActivationAllowed(main, main.epoch) /\ main.gen = None
    /\ Activate(main)
    /\ UNCHANGED <<queue, job, attempt, stored, gone, toMain, window, tries>>

\* The write of the state file ends: refused, or published, perhaps with
\* another program's switch read back.
DiskAnswers ==
    /\ ~Busy /\ job.at = "persist"
    /\ \/ /\ Fault
          /\ main' = PersistThrows(main) /\ job' = NoJob
          /\ UNCHANGED <<stored, attempt, bridge, toWindow, tries>>
       \/ \E switch \in BOOLEAN :
          LET wanted == IF job.kind = "setting" THEN main.desired ELSE job.kind = "enable"
              m == [main EXCEPT !.desired = switch]
              ownDisable == main.phase = "disabling" /\ ~main.intent
          IN  /\ IF switch = wanted THEN UNCHANGED budget ELSE Fault
              /\ stored' = switch
              /\ \/ /\ ~switch /\ Owned(main) # None /\ ~ownDisable
                    /\ CleanUp([BeginTransition(m, "disabling", FALSE, TRUE)
                                   EXCEPT !.life = "deactivating"],
                               job, "reconcile", "reconciled")
                    /\ UNCHANGED gone
                 \/ /\ switch \/ Owned(main) = None \/ ownDisable
                    /\ job' = [job EXCEPT !.at = "persisted"]
                    /\ main' = IF m.phase = "stable" /\ Owned(m) = None /\ m.life # "failed"
                               THEN [m EXCEPT !.intent = switch,
                                              !.life = IF switch THEN "idle" ELSE "disabled"]
                               ELSE m
                    /\ UNCHANGED <<attempt, bridge, toWindow, tries>>
    /\ UNCHANGED <<queue, toMain, window>>

\* acknowledge(): only the request it names is settled.
AckArrives ==
    /\ ~Busy /\ toMain # <<>>
    /\ toMain' = Tail(toMain)
    /\ LET a == Head(toMain)
           act == IF a.ack \in {"opened", "refused"} THEN "open" ELSE "close"
           answered == {p \in pending : p.act = act /\ p.gen = a.gen /\ p.try = a.try}
           awaited == answered # {} /\ act = "close" /\ attempt.st = "waiting" /\ attempt.try = a.try
           current == answered # {} /\ act = "open" /\ CanPublish(main, a.gen)
       IN  /\ pending' = pending \ answered
           /\ leases' = IF answered # {} /\ a.ack = "closed" THEN leases \ {a.gen} ELSE leases
           /\ forget' = IF answered # {} /\ a.ack = "refused" THEN forget \cup {a.gen} ELSE forget
           /\ attempt' = IF awaited THEN [attempt EXCEPT !.st = IF a.ack = "closed" THEN "ok" ELSE "failed"]
                         ELSE attempt
           /\ main' = IF current /\ a.ack = "opened" THEN [main EXCEPT !.life = "active"] ELSE main
           /\ job' = IF answered # {} /\ a.ack = "opened" /\ job.at = "activation" THEN NoJob ELSE job
    /\ UNCHANGED <<queue, stored, gone, toWindow, window, tries, budget>>

\* The registry waits a second for a cleanup.
CleanupTimesOut ==
    /\ ~Busy /\ attempt.st = "waiting"
    /\ attempt' = [attempt EXCEPT !.st = "failed"]
    /\ UNCHANGED <<main, queue, job, stored, bridge, wires, window, tries, budget>>

\* The bridge waits four seconds for an answer: longer than the registry.
RequestTimesOut ==
    /\ ~Busy
    /\ \E p \in pending :
        /\ ~(p.act = "close" /\ attempt.st = "waiting" /\ attempt.try = p.try)
        /\ pending' = pending \ {p}
        /\ forget' = IF p.act = "open" THEN forget \cup {p.gen} ELSE forget
    /\ UNCHANGED <<registry, gone, leases, wires, window, tries, budget>>

Disposals(S) ==
    LET lease == SetToSeq(S)
    IN  [i \in DOMAIN lease |-> [kind |-> "dispose", epoch |-> 0, lease |-> lease[i]]]

\* A navigation of the main frame takes the renderer's authority away.
Navigate ==
    /\ ~Busy /\ page /\ budget.reloads < MaxReloads
    /\ budget' = [budget EXCEPT !.reloads = @ + 1]
    /\ gone' = TRUE /\ pending' = {}
    /\ forget' = forget \cup {p.gen : p \in OpensOf(Gens)}
    /\ attempt' = IF attempt.st = "waiting" THEN [attempt EXCEPT !.st = "failed"] ELSE attempt
    /\ queue' = queue \o Disposals(leases)
    /\ page' = FALSE /\ known' = {} /\ closed' = {} /\ opening' = {} /\ closers' = {}
    /\ host' = [g \in Gens |-> "none"]
    /\ toWindow' = <<>> /\ toMain' = <<>>
    /\ UNCHANGED <<main, job, stored, leases, tries>>

\* The page's client starts and says so; leases of the page before are disposed of.
PageReady ==
    /\ ~Busy /\ ~page
    /\ page' = TRUE /\ gone' = FALSE
    /\ queue' = queue \o Disposals(leases)
    /\ UNCHANGED <<main, job, attempt, stored, leases, pending, forget, wires,
                   known, closed, host, opening, closers, tries, budget>>

(***************************************************************************)
(* The window.                                                             *)
(***************************************************************************)
Answer(acks) == toMain' = toMain \o acks

\* Mutant: an open that failed is acknowledged like one that did not.
AcknowledgedAnyway(g) == <<[ack |-> "opened", gen |-> g, try |-> 0]>>

OpenFailed(g) == <<[ack |-> "refused", gen |-> g, try |-> 0]>>

\* The client takes an open; the host closes the lease before it first.
TakeOpen ==
    /\ ~Busy /\ page /\ toWindow # <<>> /\ Head(toWindow).act = "open"
    /\ toWindow' = Tail(toWindow)
    /\ LET g == Head(toWindow).gen
           prior == {h \in Gens : host[h] \in Live \cup {"closing", "held"}}
       IN  \/ /\ Fault \* no editor attached
              /\ closed' = closed \cup {g} /\ Answer(OpenFailed(g))
              /\ UNCHANGED <<known, opening, host>>
           \/ /\ known' = known \cup {g} /\ opening' = opening \cup {g}
              /\ host' = [h \in Gens |->
                            IF h = g THEN IF prior = {} THEN "starting" ELSE "queued"
                            ELSE IF h \in prior THEN "closing" ELSE host[h]]
              /\ UNCHANGED <<closed, toMain, budget>>
    /\ UNCHANGED <<registry, bridge, page, closers, tries>>

\* The plugin's activate() ends.
PluginStarted(g) ==
    /\ ~Busy /\ page /\ host[g] = "starting"
    /\ \/ /\ host' = [host EXCEPT ![g] = "active"]
          /\ opening' = opening \ {g}
          /\ Answer(<<[ack |-> "opened", gen |-> g, try |-> 0]>>)
          /\ UNCHANGED budget
       \/ /\ Fault
          /\ host' = [host EXCEPT ![g] = "closing"]
          /\ UNCHANGED <<opening, toMain>>
    /\ UNCHANGED <<registry, bridge, toWindow, page, known, closed, closers, tries>>

\* The client takes a close: known, remembered, or unknown to this page.
TakeClose ==
    /\ ~Busy /\ page /\ toWindow # <<>> /\ Head(toWindow).act = "close"
    /\ toWindow' = Tail(toWindow)
    /\ LET r == Head(toWindow)
           g == r.gen
       IN  \/ /\ g \notin known \cup closed
              /\ Answer(<<[ack |-> "unknown", gen |-> g, try |-> r.try]>>)
              /\ UNCHANGED <<known, closed, host, closers>>
           \/ /\ g \in known \cup closed /\ host[g] \in {"none", "closed", "queued"}
              /\ known' = known \ {g} /\ closed' = closed \cup {g}
              /\ Answer(<<[ack |-> "closed", gen |-> g, try |-> r.try]>>)
              /\ UNCHANGED <<host, closers>>
           \/ /\ g \in known \cup closed /\ host[g] \in Live \cup {"closing", "held"}
              /\ host' = [host EXCEPT ![g] = "closing"]
              /\ closers' = closers \cup {r}
              /\ UNCHANGED <<known, closed, toMain>>
    /\ UNCHANGED <<registry, bridge, page, opening, tries, budget>>

\* Everyone who waited for an open, or for a close, is answered.
Refusals(S) == LET lease == SetToSeq(S) IN [i \in DOMAIN lease |-> OpenFailed(lease[i])[1]]
Answers(S, ack) ==
    LET asker == SetToSeq(S)
    IN  [i \in DOMAIN asker |-> [ack |-> ack, gen |-> asker[i].gen, try |-> asker[i].try]]

\* releaseLease ends, complete or with a disposer that failed.
HostReleased(g) ==
    /\ ~Busy /\ page /\ host[g] = "closing"
    /\ \E complete \in BOOLEAN :
        LET next == {h \in Gens : host[h] = "queued"}
            asked == {r \in closers : r.gen = g}
            failedOpens == (opening \cap {g}) \cup (IF complete THEN {} ELSE next)
        IN  /\ IF complete THEN UNCHANGED budget ELSE Fault
            /\ host' = [h \in Gens |->
                          IF h = g THEN IF complete THEN "closed" ELSE "held"
                          ELSE IF h \notin next THEN host[h]
                          ELSE IF ~complete THEN "none"
                          ELSE IF h \in known THEN "starting" ELSE "closing"]
            /\ closers' = closers \ asked
            /\ opening' = opening \ failedOpens
            /\ known' = known \ (failedOpens \cup IF complete /\ asked # {} THEN {g} ELSE {})
            /\ closed' = closed \cup failedOpens \cup (IF complete /\ asked # {} THEN {g} ELSE {})
            /\ Answer(Refusals(failedOpens) \o Answers(asked, IF complete THEN "closed" ELSE "incomplete"))
    /\ UNCHANGED <<registry, bridge, toWindow, page, tries>>

\* The front note's editor goes: the client tells main about each lease.
Detach(g) ==
    /\ ~Busy /\ Call /\ page /\ g \in known
    /\ Enqueue("dispose", 0, g)
    /\ UNCHANGED <<main, job, attempt, stored, bridge, wires, window, tries>>

\* Mutant: a request to the window waits for ever.
CleanupTimer == CleanupTimesOut

Timers == CleanupTimesOut \/ RequestTimesOut

Next ==
    \/ Drain
    \/ Enable \/ Disable \/ Replace \/ Shutdown \/ SetSetting \/ Trigger
    \/ DiskAnswers \/ AckArrives \/ Timers
    \/ Navigate \/ PageReady
    \/ TakeOpen \/ TakeClose
    \/ \E g \in Gens : PluginStarted(g) \/ HostReleased(g) \/ Detach(g)

\* The event loop runs, the disk answers and the timers fire; nothing is
\* assumed of the window and of the plugin in it.
Fairness == WF_vars(Drain) /\ WF_vars(DiskAnswers) /\ WF_vars(Timers)

Spec == Init /\ [][Next]_vars /\ Fairness

(***************************************************************************)
(* Properties.                                                             *)
(***************************************************************************)
Running == {g \in Gens : host[g] \in Live}
Quiet == ~Busy /\ queue = <<>> /\ job = NoJob /\ attempt = NoAttempt /\ pending = {}
         /\ toWindow = <<>> /\ toMain = <<>> /\ opening = {} /\ closers = {}

\* What runs in the window is the registry's to end, and alone: it is its
\* generation, or the cleanup it owes (plugin-registry.ts:606-620, 646-676,
\* RendererPluginHost.ts:149-153).
RunningIsOwned == Running \subseteq {main.gen, main.cleanup} /\ Cardinality(Running) <= 1

\* "Active" in Settings is a generation that runs, or whose page is gone or
\* disposal queued (plugin-registry.ts:600-605, main.ts:986-999).
DisposalQueued(g) == \E i \in DOMAIN queue : queue[i].kind = "dispose" /\ queue[i].lease = g
ActiveRuns ==
    main.life = "active" /\ main.gen # None /\ page =>
        host[main.gen] = "active" \/ DisposalQueued(main.gen)

\* "Off" in Settings owes nothing, and nothing runs (plugin-registry.ts:272-316).
DisabledIsOff ==
    main.life = "disabled" /\ main.phase = "stable" => Owned(main) = None /\ Running = {}

\* What Settings shows of a plugin is so.
SettingsTell == ActiveRuns /\ DisabledIsOff

\* Every call is answered, whatever the plugin and the window do
\* (plugin-registry.ts:684-704, renderer-lease-bridge.ts:204-221).
EveryCallEnds == (queue # <<>> \/ job # NoJob) ~> (queue = <<>> /\ job = NoJob)

\* docs/plugins.md:183-185: "A plugin that throws during activation is marked
\* failed and can be retried or disabled from the same place": a cleanup that
\* is owed can be asked of the window.
FailedCanBeRetried == Quiet /\ main.cleanup # None => main.cleanup \in leases

\* docs/plugins.md:182: "Disabling deactivates and forgets."
SwitchedOffStops == Quiet /\ ~main.desired => Running = {}

\* docs/plugins.md:187-188: "The dot beside a name is the state: filled when
\* running". A replacement overtaken by a disposal still cleans up the
\* generation that was started after it, and then changes nothing in Settings.
ActiveMeansRunning == Quiet /\ page /\ main.life = "active" => main.gen \in Running
=============================================================================
