---------------------------- MODULE ServiceHost ----------------------------
(***************************************************************************)
(* The filesystem plugin's service: the host that starts and stops its     *)
(* process (src/src/main/plugins/service-host.ts), the ledger of its one   *)
(* read (service-request-ledger.ts), the broker's one grant                *)
(* (capability-broker.ts), the process (src/src/service/fs-service.ts),    *)
(* and the registry, which activates one generation at a time and retries  *)
(* a cleanup that failed.                                                  *)
(*                                                                         *)
(* A call of the host runs to its next await in one step; what it awaits   *)
(* (realpath, the handshake, an exit) is in calls and stops.  The host is  *)
(* one record, so that what its methods share are functions on it.         *)
(***************************************************************************)
EXTENDS Naturals

CONSTANTS
    MaxGenerations, \* bound: activations by the registry
    MaxServices,    \* bound: processes started
    MaxRequests     \* bound: requests of the Plugin Center

Gens == 1..MaxGenerations
Services == 1..MaxServices
Requests == 1..MaxRequests
None == 0

VARIABLES
    owner,    \* the registry: the generation it owns, and what it is doing
    aborted,  \* generations whose signal is aborted
    host,     \* the host, its ledger and its broker
    process   \* what each process does

vars == <<owner, aborted, host, process>>

Idle == [at |-> "none", service |-> None, probing |-> FALSE]
NoGrant == [gen |-> None, service |-> None, id |-> None]
Unasked == [at |-> "none", kind |-> "grant", gen |-> None, service |-> None, grant |-> None]

\* The host, its ledger and its broker.
HostStates ==
    [state : {"stopped", "starting", "ready", "stopping", "failed"},
     count : 0..MaxServices,                  \* generationCounter
     active : Services \cup {None},           \* activeGeneration
     child : Services \cup {None},
     registry : Gens \cup {None},             \* activeRegistryGeneration
     ready : Services \cup {None},            \* readyGeneration and its lease
     meant : SUBSET Services,                 \* stoppingGenerations
     refusing : BOOLEAN,                      \* the permission probe has failed
     calls : [Gens -> [at : {"none", "resolving", "handshake", "stopping"},
                       service : Services \cup {None}, probing : BOOLEAN]],
     stops : SUBSET [service : Services, for : {"cleanup", "fallback", "failure", "late"}, gen : Gens],
     grant : [gen : Gens \cup {None}, service : Services \cup {None}, id : Requests \cup {None}],
     asked : [Requests -> [at : {"none", "first", "second", "pending", "ended"},
                           kind : {"grant", "revoke", "read"}, gen : Gens \cup {None},
                           service : Services \cup {None}, grant : Requests \cup {None}]],
     read : Requests \cup {None}]             \* the ledger's pending read

\* Every variable holds a value the code can give it.
TypeOK ==
    /\ owner \in [gen : Gens \cup {None},
                  phase : {"none", "activating", "active", "cleaning", "owed"}]
    /\ aborted \subseteq Gens
    /\ host \in HostStates
    /\ process \in [Services -> {"none", "booting", "running", "exited"}]

Init ==
    /\ owner = [gen |-> None, phase |-> "none"] /\ aborted = {}
    /\ host = [state |-> "stopped", count |-> 0, active |-> None, child |-> None,
               registry |-> None, ready |-> None, meant |-> {}, refusing |-> FALSE,
               calls |-> [g \in Gens |-> Idle], stops |-> {},
               grant |-> NoGrant, asked |-> [r \in Requests |-> Unasked], read |-> None]
    /\ process = [s \in Services |-> "none"]

(***************************************************************************)
(* What the host's methods share, as functions on it.                      *)
(***************************************************************************)
\* Mutant: the grant is left to the next generation.
Unready(h) == [h EXCEPT !.ready = None]

\* clearReadiness revokes the grant of the generation.
ClearReadiness(h) ==
    [h EXCEPT !.ready = None,
              !.grant = IF h.registry # None /\ @.gen = h.registry /\ @.service = h.active
                        THEN NoGrant ELSE @]

\* Mutant: the ledger keeps the read of a process that is gone.
ReadKept(h) == h

\* Mutant: the ledger forgets the read without answering it.
ReadDropped(h) == [h EXCEPT !.read = None]

\* failGeneration and cancelGeneration of the ledger: the read ends.
EndRead(h) ==
    IF h.read # None /\ h.asked[h.read].gen = h.registry /\ h.asked[h.read].service = h.active
    THEN [h EXCEPT !.asked[h.read].at = "ended", !.read = None]
    ELSE h

StopWaits(h) == h.child # None /\ h.active # None

\* stop() up to its await.
Stop(h, for, g) ==
    IF StopWaits(h)
    THEN [EndRead(ClearReadiness(h)) EXCEPT
              !.state = "stopping", !.meant = @ \cup {h.active},
              !.stops = @ \cup {[service |-> h.child, for |-> for, gen |-> g]}]
    ELSE [ClearReadiness(h) EXCEPT !.state = "stopped", !.child = None, !.active = None]

\* The end of deactivate(), or of an activate() that throws.
LetGo(h, g) == [h EXCEPT !.registry = IF @ = g THEN None ELSE @]

\* start() up to the realpath; a process still held, or a start under way, is
\* in its way.

StartRefused(h) == h.child # None \/ h.state = "starting"
Start(h, g, probing) ==
    [ClearReadiness([h EXCEPT !.active = h.count + 1]) EXCEPT
        !.count = @ + 1, !.state = "starting",
        !.calls[g] = [at |-> "resolving", service |-> h.count + 1, probing |-> probing]]

\* failGeneration of the host.
Fail(h, s) ==
    IF s # h.active THEN h
    ELSE EndRead([ClearReadiness(h) EXCEPT !.state = "failed"])

(***************************************************************************)
(* The registry.  A failed activation is cleaned up at once.               *)
(***************************************************************************)
\* deactivate() by the registry; an owner it does not know is refused.
Cleanup(h, g) ==
    IF h.registry \notin {None, g} THEN h
    ELSE IF StopWaits(h) THEN Stop(h, "cleanup", g)
    ELSE LetGo(Stop(h, "cleanup", g), g)

CleanupPhase(h, g) ==
    IF h.registry \notin {None, g} THEN "owed"
    ELSE IF StopWaits(h) THEN "cleaning" ELSE "none"

Own(g, phase) == owner' = IF phase = "none" THEN [gen |-> None, phase |-> "none"]
                          ELSE [gen |-> g, phase |-> phase]

Abort(g) == aborted' = aborted \cup {g}

\* activate() ends with an error: the registry, unless it gave the
\* generation up itself, cleans up.
ActivationThrows(h, g) ==
    LET let == LetGo([h EXCEPT !.calls[g] = Idle], g)
    IN  IF owner = [gen |-> g, phase |-> "activating"]
        THEN host' = Cleanup(let, g) /\ Own(g, CleanupPhase(let, g)) /\ Abort(g)
        ELSE host' = let /\ UNCHANGED <<owner, aborted>>

Activate(g) ==
    /\ owner.gen = None /\ g \notin aborted /\ host.calls[g] = Idle
    /\ \A h \in Gens : h < g => h \in aborted
    /\ LET own == [host EXCEPT !.registry = g]
           thrown == LetGo(own, g)
       IN  \/ /\ host.registry \notin {None, g}   \* PLUGIN_GENERATION_STALE
              /\ host' = Cleanup(host, g) /\ Own(g, CleanupPhase(host, g))
              /\ Abort(g)
           \/ /\ host.registry \in {None, g} /\ host.state = "ready"
              /\ host' = own /\ Own(g, "active")
              /\ UNCHANGED aborted
           \/ /\ host.registry \in {None, g} /\ host.state # "ready" /\ StartRefused(host)
              /\ host' = Cleanup(thrown, g) /\ Own(g, CleanupPhase(thrown, g))
              /\ Abort(g)
           \/ /\ host.registry \in {None, g} /\ host.state # "ready" /\ ~StartRefused(host)
              /\ host.count < MaxServices
              /\ host' = Start(own, g, ~host.refusing) /\ Own(g, "activating")
              /\ UNCHANGED aborted
    /\ UNCHANGED process

\* disable, replace, shutdown, and a cleanup tried again.
Deactivate(g) ==
    /\ owner.gen = g /\ owner.phase \in {"activating", "active", "owed"}
    /\ Abort(g)
    /\ host' = Cleanup(host, g) /\ Own(g, CleanupPhase(host, g))
    /\ UNCHANGED process

\* The registry waits a second for the cleanup.
CleanupTimesOut ==
    /\ owner.phase = "cleaning"
    /\ owner' = [owner EXCEPT !.phase = "owed"]
    /\ UNCHANGED <<aborted, host, process>>

(***************************************************************************)
(* start() goes on.                                                        *)
(***************************************************************************)
\* The service's folder is resolved: fork, unless the start was invalidated.
Resolved(g) ==
    LET c == host.calls[g] IN
    /\ c.at = "resolving"
    /\ IF host.state # "starting" \/ host.active # c.service
       THEN ActivationThrows(host, g) /\ UNCHANGED process
       ELSE /\ host' = [host EXCEPT !.child = c.service, !.calls[g].at = "handshake"]
            /\ process' = [process EXCEPT ![c.service] = "booting"]
            /\ UNCHANGED <<owner, aborted>>

\* activate() after a start(): an abort it missed is made up for.
ActivateEnds(h, g) ==
    IF g \in aborted
    THEN /\ host' = IF h.registry \notin {None, g} THEN [h EXCEPT !.calls[g] = Idle]
                    ELSE LetGo(Stop([h EXCEPT !.calls[g] = Idle], "late", g), g)
         /\ UNCHANGED <<owner, aborted>>
    ELSE /\ host' = [h EXCEPT !.calls[g] = Idle]
         /\ Own(g, "active") /\ UNCHANGED aborted

\* The handshake fails: start() falls back once to a process without Node's
\* permissions, or stops and throws.
HandshakeFails(h, g, compatible) ==
    LET c == h.calls[g]
        fallback == c.probing /\ compatible
        stopped == IF fallback THEN Stop([h EXCEPT !.refusing = TRUE], "fallback", g)
                   ELSE Stop(Fail(h, c.service), "failure", g)
    IN  IF StopWaits(h)
        THEN host' = [stopped EXCEPT !.calls[g].at = "stopping"] /\ UNCHANGED <<owner, aborted>>
        ELSE IF fallback /\ stopped.count < MaxServices
             THEN host' = Start(stopped, g, FALSE) /\ UNCHANGED <<owner, aborted>>
             ELSE ActivationThrows(stopped, g)

\* The process says it is ready; the host listens while it is starting it.
SaysReady(s) ==
    /\ process[s] = "booting"
    /\ process' = [process EXCEPT ![s] = "running"]
    /\ \E outcome \in {"denied", "compatible", "other"} :
       LET waiting == {g \in Gens : host.calls[g].at = "handshake" /\ host.calls[g].service = s}
           heard == s = host.active /\ host.state = "starting" /\ host.child = s
       IN  \/ /\ ~heard \/ waiting = {}
              /\ UNCHANGED <<owner, host, aborted>>
           \/ /\ heard
              /\ \E g \in waiting :
                 IF host.calls[g].probing /\ outcome # "denied"
                 THEN HandshakeFails(host, g, outcome = "compatible")
                 ELSE ActivateEnds([host EXCEPT !.state = "ready", !.ready = s], g)

\* Mutant: the timer runs for the probing start only.
ProbeTimesOut(g) ==
    /\ host.calls[g].at = "handshake" /\ host.calls[g].probing
    /\ HandshakeFails(host, g, FALSE)
    /\ UNCHANGED process

\* Four seconds without a handshake.
HandshakeTimesOut(g) ==
    /\ host.calls[g].at = "handshake"
    /\ HandshakeFails(host, g, FALSE)
    /\ UNCHANGED process

\* An exit ends what waits for it, in the order the exit handler comes first:
\* deactivate(), then the activate() that was starting or falling back.
Exited(h, s) ==
    LET ending == {w \in h.stops : w.service = s}
        let == {w.gen : w \in {v \in ending : v.for \in {"cleanup", "late"}}}
    IN  [h EXCEPT !.stops = @ \ ending, !.registry = IF @ \in let THEN None ELSE @]

ProcessExits(s) ==
    /\ process[s] \in {"booting", "running"}
    /\ process' = [process EXCEPT ![s] = "exited"]
    /\ LET ours == host.child = s /\ host.active = s
           meant == s \in host.meant
           cleared == EndRead(ClearReadiness([host EXCEPT !.meant = @ \ {s}]))
           told == IF ~ours THEN [host EXCEPT !.meant = @ \ {s}]
                   ELSE [cleared EXCEPT !.child = None, !.active = None,
                                        !.state = IF meant THEN "stopped" ELSE "failed",
                                        !.registry = IF meant THEN @ ELSE None]
           crashed == ours /\ ~meant /\ owner = [gen |-> host.registry, phase |-> "active"]
           cleaned == owner.phase = "cleaning"
                      /\ \E w \in host.stops : w.service = s /\ w.for = "cleanup" /\ w.gen = owner.gen
           after == Exited(told, s)
           starting == {g \in Gens : after.calls[g].service = s
                                     /\ after.calls[g].at \in {"handshake", "stopping"}}
           left == IF cleaned THEN Own(None, "none") ELSE UNCHANGED owner
       IN  \/ /\ starting = {}
              /\ host' = after
              /\ IF crashed THEN Own(None, "none") /\ Abort(owner.gen)
                 ELSE left /\ UNCHANGED aborted
           \/ \E g \in starting :
              LET falls == [service |-> s, for |-> "fallback", gen |-> g] \in host.stops
                  over == Stop(after, "failure", g)
              IN  \/ /\ falls /\ after.count < MaxServices
                     /\ host' = Start(after, g, FALSE)
                     /\ left /\ UNCHANGED aborted
                  \/ /\ ~falls \/ after.count = MaxServices
                     /\ IF cleaned
                        THEN /\ host' = LetGo([over EXCEPT !.calls[g] = Idle], g)
                             /\ left /\ UNCHANGED aborted
                        ELSE ActivationThrows(over, g)

\* Three seconds without the exit: stop() throws, and forgets it meant it.
StopTimesOut(w) ==
    /\ w \in host.stops
    /\ LET h == [host EXCEPT !.stops = @ \ {w}, !.meant = @ \ {w.service}, !.state = "failed"]
       IN  IF w.for \in {"cleanup", "late"}
           THEN /\ host' = LetGo(h, w.gen)
                /\ owner' = IF w.for = "cleanup" /\ owner = [gen |-> w.gen, phase |-> "cleaning"]
                            THEN [owner EXCEPT !.phase = "owed"] ELSE owner
                /\ UNCHANGED aborted
           ELSE ActivationThrows(h, w.gen)
    /\ UNCHANGED process

\* An error event of the process, or a reply the host cannot read.
ProcessMisbehaves(s) ==
    /\ process[s] \in {"booting", "running"} /\ host.active = s /\ host.child = s
    /\ host.state \in {"starting", "ready"}
    /\ LET waiting == {g \in Gens : host.calls[g].at = "handshake" /\ host.calls[g].service = s}
       IN  \/ /\ waiting = {}
              /\ host' = Fail(host, s)
              /\ UNCHANGED <<owner, aborted>>
           \/ \E g \in waiting : HandshakeFails(Fail(host, s), g, FALSE)
    /\ UNCHANGED process

(***************************************************************************)
(* Requests of the Plugin Center.                                          *)
(***************************************************************************)
LeaseLive(h, s) == h.ready = s /\ h.state = "ready" /\ h.child = s /\ h.active = s

\* request() up to the realpath.
Ask(r, kind, id) ==
    /\ host.asked[r].at = "none" /\ \A q \in Requests : q < r => host.asked[q].at # "none"
    /\ owner.phase = "active" /\ owner.gen = host.registry
    /\ host.ready # None /\ LeaseLive(host, host.ready)
    /\ host' = [host EXCEPT !.asked[r] = [at |-> "first", kind |-> kind, gen |-> owner.gen,
                                          service |-> host.ready, grant |-> id]]
    /\ UNCHANGED <<owner, aborted, process>>

\* The folder is resolved: a lease that died meanwhile refuses the request.
FirstResolved(r) ==
    LET q == host.asked[r]
        ended == [host EXCEPT !.asked[r].at = "ended"]
        held == host.grant = [gen |-> q.gen, service |-> q.service, id |-> q.grant]
    IN  /\ q.at = "first"
        /\ host' =
            IF ~LeaseLive(host, q.service) THEN ended
            ELSE CASE q.kind = "grant" /\ host.grant = NoGrant ->
                        [ended EXCEPT !.grant = [gen |-> q.gen, service |-> q.service, id |-> r]]
                   [] q.kind = "revoke" /\ held ->
                        LET cut == host.read # None /\ host.asked[host.read].grant = q.grant
                            without == [ended EXCEPT !.grant = NoGrant]
                        IN  IF cut THEN [without EXCEPT !.asked[host.read].at = "ended", !.read = None]
                            ELSE without
                   [] q.kind = "read" /\ held -> [host EXCEPT !.asked[r].at = "second"]
                   [] OTHER -> ended
        /\ UNCHANGED <<owner, aborted, process>>

\* The note's path is resolved: the ledger takes one read at a time.
SecondResolved(r) ==
    LET q == host.asked[r] IN
    /\ q.at = "second"
    /\ host' = IF LeaseLive(host, q.service) /\ host.read = None
               THEN [host EXCEPT !.asked[r].at = "pending", !.read = r]
               ELSE [host EXCEPT !.asked[r].at = "ended"]
    /\ UNCHANGED <<owner, aborted, process>>

\* The service's answer, a cancellation, or two seconds without either.
ReadEnds ==
    /\ host.read # None
    /\ host' = [host EXCEPT !.asked[host.read].at = "ended", !.read = None]
    /\ UNCHANGED <<owner, aborted, process>>

Waiters == {"cleanup", "fallback", "failure", "late"}
StopTimer(s, for, g) == StopTimesOut([service |-> s, for |-> for, gen |-> g])

Next ==
    \/ \E g \in Gens : Activate(g) \/ Deactivate(g) \/ Resolved(g) \/ HandshakeTimesOut(g)
    \/ CleanupTimesOut
    \/ \E s \in Services :
        SaysReady(s) \/ ProcessExits(s) \/ ProcessMisbehaves(s)
    \/ \E s \in Services, for \in Waiters, g \in Gens : StopTimer(s, for, g)
    \/ \E r \in Requests : FirstResolved(r) \/ SecondResolved(r)
    \/ ReadEnds
    \/ \E r \in Requests, kind \in {"grant", "revoke", "read"}, id \in Requests :
        Ask(r, kind, id)

\* realpath answers and the timers fire; nothing is assumed of the process.
Fairness ==
    /\ \A g \in Gens : WF_vars(Resolved(g)) /\ WF_vars(HandshakeTimesOut(g))
    /\ \A s \in Services, for \in Waiters, g \in Gens : WF_vars(StopTimer(s, for, g))
    /\ \A r \in Requests : WF_vars(FirstResolved(r)) /\ WF_vars(SecondResolved(r))
    /\ WF_vars(ReadEnds)

Spec == Init /\ [][Next]_vars /\ Fairness

(***************************************************************************)
(* Properties.                                                             *)
(***************************************************************************)
\* A pending read belongs to the process that is ready now and to the
\* registry's generation: whatever ends either ends the read
\* (service-host.ts:370-375, service-request-ledger.ts:98-110).
ReadIsCurrent ==
    host.read # None =>
        LeaseLive(host, host.asked[host.read].service) /\ host.asked[host.read].gen = host.registry

\* A grant never outlives its generation, so a later one neither inherits it
\* nor is refused for it (service-host.ts:528-539, capability-broker.ts:77-86).
GrantIsCurrent ==
    host.grant # NoGrant => LeaseLive(host, host.grant.service) /\ host.grant.gen = host.registry

\* What is asked of the service and what is granted are of the process and the
\* generation there are.
ServiceIsCurrent == ReadIsCurrent /\ GrantIsCurrent

\* A process that runs is the host's; a service that is ready, with nobody
\* starting it, belongs to the generation the registry owns, though it may have
\* been started again after that generation was given up
\* (service-host.ts:118-133, 353-388).
NoOrphan ==
    /\ \A s \in Services : process[s] \in {"booting", "running"} => host.child = s
    /\ host.state = "ready" /\ (\A g \in Gens : host.calls[g] = Idle) =>
        host.registry = owner.gen /\ owner.phase \in {"active", "owed"}

\* Starting ends, as a service that is ready or a failure, whatever the
\* process does (service-host.ts:242-244, 377-387).
ActivationEnds == \A g \in Gens : host.calls[g] # Idle ~> host.calls[g] = Idle

\* Every request is answered (service-request-ledger.ts:58).
RequestEnds == \A r \in Requests :
    host.asked[r].at \in {"first", "second", "pending"} ~> host.asked[r].at = "ended"
=============================================================================
