-------------------------- MODULE DocumentWatcher --------------------------
(***************************************************************************)
(* The watcher on the file of one open note                                *)
(* (src/src/main/file-truth/v1/document-watcher.ts) and the fs.watch and   *)
(* fs.watchFile it stands on.                                              *)
(*                                                                         *)
(* fs.watch holds the file, not the name: once the name points elsewhere   *)
(* the handle is stale, tells so once with a rename event, and is silent.  *)
(* Events are delivered later than the change; events of one kind waiting  *)
(* for delivery count as one.  Time is counted in ticks, and only for the  *)
(* settle timer: the re-arm timers fire in any order with it, as the code  *)
(* arms both at once with delays either side of it.                        *)
(***************************************************************************)
EXTENDS Naturals

CONSTANTS
    SettleTicks,    \* SETTLE_MS
    CeilingTicks,   \* CEILING_MS
    Rungs           \* length of REARM_LADDER

\* What the timers' constants are.
TicksConstants ==
    /\ SettleTicks \in Nat /\ CeilingTicks \in Nat /\ Rungs \in Nat
    /\ SettleTicks <= CeilingTicks
    /\ Rungs > 1

VARIABLES
    present,    \* the path names a file
    handle,     \* the fs.watch handle: "none", "held" (the file the path names) or "stale"
    queue,      \* events the handle has not delivered yet
    polling,    \* fs.watchFile runs
    unpolled,   \* the file differs from the one it last saw
    rearm,      \* rung the pending re-arm timer will try, 0 for no timer
    settle,     \* ticks the settle timer waits still, Idle for no timer
    ceiling,    \* ticks to the ceiling, Idle when none is set
    armed,      \* a path is set
    suspended,  \* closed for a replacement of our own
    unreported  \* changes by others no report has covered: "seen" when a
                \* handle or the poll was there to see them, "gap" when not

vars == <<present, handle, queue, polling, unpolled, rearm, settle, ceiling,
          armed, suspended, unreported>>

Idle == CeilingTicks + 1

\* Every variable holds a value the code can give it.
TypeOK ==
    /\ present \in BOOLEAN
    /\ handle \in {"none", "held", "stale"}
    /\ queue \subseteq {"change", "rename"}
    /\ polling \in BOOLEAN /\ unpolled \in BOOLEAN
    /\ rearm \in 0..(Rungs - 1)
    /\ settle \in (0..SettleTicks) \cup {Idle}
    /\ ceiling \in (0..CeilingTicks) \cup {Idle}
    /\ armed \in BOOLEAN /\ suspended \in BOOLEAN
    /\ unreported \subseteq {"seen", "gap"}

Init ==
    /\ present \in BOOLEAN
    /\ handle = "none" /\ queue = {}
    /\ polling = FALSE /\ unpolled = FALSE
    /\ rearm = 0 /\ settle = Idle /\ ceiling = Idle
    /\ armed = FALSE /\ suspended = FALSE
    /\ unreported = {}

(***************************************************************************)
(* The parts the handlers share.                                           *)
(***************************************************************************)
\* closeHandles, with the re-arm timer left to the caller.
CloseHandles == handle' = "none" /\ queue' = {} /\ polling' = FALSE /\ unpolled' = FALSE

StartPolling ==
    /\ handle' = "none" /\ queue' = {} /\ rearm' = 0
    /\ polling' = TRUE /\ unpolled' = FALSE

\* Mutant: the last rung gives up.
GiveUp == CloseHandles /\ rearm' = 0

FallBack == StartPolling

\* start(): watch the path, or climb one rung, or settle for polling.
Start(attempt) ==
    \/ /\ present
       /\ handle' = "held" /\ queue' = {} /\ rearm' = 0
       /\ polling' = FALSE /\ unpolled' = FALSE
    \/ IF attempt + 1 < Rungs
       THEN CloseHandles /\ rearm' = attempt + 1
       ELSE FallBack

Wait == IF ceiling' < SettleTicks THEN ceiling' ELSE SettleTicks

\* schedule(): report once the burst settles, and at the ceiling regardless.
Schedule ==
    /\ ceiling' = IF ceiling = Idle THEN CeilingTicks ELSE ceiling
    /\ settle' = Wait

(***************************************************************************)
(* What the store calls.                                                   *)
(***************************************************************************)
Arm ==
    /\ Start(0)
    /\ armed' = TRUE /\ suspended' = FALSE
    /\ settle' = Idle /\ ceiling' = Idle
    /\ unreported' = {}
    /\ UNCHANGED present

\* The handles go; a report already scheduled stays scheduled.
Suspend ==
    /\ armed
    /\ CloseHandles
    /\ rearm' = 0
    /\ suspended' = TRUE
    /\ unreported' = {}
    /\ UNCHANGED <<present, settle, ceiling, armed>>

Rearm ==
    /\ armed /\ suspended
    /\ Start(0)
    /\ suspended' = FALSE
    /\ UNCHANGED <<present, settle, ceiling, armed, unreported>>

Close ==
    /\ armed
    /\ CloseHandles
    /\ rearm' = 0
    /\ armed' = FALSE /\ suspended' = FALSE
    /\ settle' = Idle /\ ceiling' = Idle
    /\ unreported' = {}
    /\ UNCHANGED present

(***************************************************************************)
(* Callbacks and timers.                                                   *)
(***************************************************************************)
DeliverChange ==
    /\ "change" \in queue
    /\ queue' = queue \ {"change"}
    /\ Schedule
    /\ UNCHANGED <<present, handle, polling, unpolled, rearm, armed, suspended, unreported>>

\* Mutant: the re-armed watcher is trusted to tell.
OnlyRearm == rearm' = 1 /\ UNCHANGED <<settle, ceiling>>

RearmAndReport == rearm' = 1 /\ Schedule

\* The name points elsewhere: close the handle, report, and re-arm.
DeliverRename ==
    /\ "rename" \in queue
    /\ CloseHandles
    /\ RearmAndReport
    /\ UNCHANGED <<present, armed, suspended, unreported>>

\* Mutant: polling starts beside the handle that failed.
PollBeside == polling' = TRUE /\ unpolled' = FALSE /\ UNCHANGED <<handle, queue, rearm>>

PollInstead == StartPolling

\* The handle fails; what it had not delivered is lost with it.
HandleFails ==
    /\ handle # "none"
    /\ PollInstead
    /\ unreported' = IF settle = Idle /\ unreported # {} THEN {"gap"} ELSE unreported
    /\ UNCHANGED <<present, settle, ceiling, armed, suspended>>

RearmFires ==
    /\ rearm > 0
    /\ Start(rearm)
    /\ UNCHANGED <<present, settle, ceiling, armed, suspended, unreported>>

Poll ==
    /\ polling /\ unpolled
    /\ unpolled' = FALSE
    /\ Schedule
    /\ UNCHANGED <<present, handle, queue, polling, rearm, armed, suspended, unreported>>

\* The settle timer: onChanged, which reads the file as it is by then.
Report ==
    /\ settle = 0
    /\ settle' = Idle /\ ceiling' = Idle
    /\ unreported' = {}
    /\ UNCHANGED <<present, handle, queue, polling, unpolled, rearm, armed, suspended>>

Tick ==
    /\ settle # Idle /\ settle > 0
    /\ settle' = settle - 1
    /\ ceiling' = IF ceiling = 0 THEN 0 ELSE ceiling - 1
    /\ UNCHANGED <<present, handle, queue, polling, unpolled, rearm, armed, suspended, unreported>>

(***************************************************************************)
(* Other programs, and the store's own rename.                             *)
(***************************************************************************)
Noted == IF ~armed \/ suspended THEN unreported
         ELSE unreported \cup {IF handle # "none" \/ polling THEN "seen" ELSE "gap"}

WriteInPlace ==
    /\ present
    /\ queue' = IF handle = "held" THEN queue \cup {"change"} ELSE queue
    /\ unpolled' = polling
    /\ unreported' = Noted
    /\ UNCHANGED <<present, handle, polling, rearm, settle, ceiling, armed, suspended>>

\* The name moves to another file or to none.
MoveName(exists) ==
    /\ present' = exists
    /\ handle' = IF handle = "held" THEN "stale" ELSE handle
    /\ queue' = IF handle = "held" THEN queue \cup {"rename"} ELSE queue
    /\ unpolled' = polling
    /\ UNCHANGED <<polling, rearm, settle, ceiling, armed, suspended>>

Replace == MoveName(TRUE) /\ unreported' = Noted

Remove == present /\ MoveName(FALSE) /\ unreported' = Noted

\* A save replaces the file only while the watcher is suspended.
ReplaceOurselves == suspended /\ MoveName(TRUE) /\ UNCHANGED unreported

Others == WriteInPlace \/ Replace \/ Remove
Store  == Arm \/ Suspend \/ Rearm \/ Close \/ ReplaceOurselves
Loop   == DeliverChange \/ DeliverRename \/ HandleFails \/ RearmFires \/ Poll \/ Report \/ Tick

Next == Others \/ Store \/ Loop

Spec == Init /\ [][Next]_vars

\* Node delivers events and runs timers that are due.
Fairness ==
    /\ WF_vars(DeliverChange) /\ WF_vars(DeliverRename)
    /\ WF_vars(RearmFires) /\ WF_vars(Poll)
    /\ WF_vars(Report) /\ WF_vars(Tick)

FairSpec == Spec /\ Fairness

-----------------------------------------------------------------------------
(***************************************************************************)
(* Properties.                                                             *)
(***************************************************************************)
\* An armed watcher is never deaf for good: something is there to hear the
\* next change, or a timer or an undelivered event will put it there.
NeverDeaf ==
    armed /\ ~suspended =>
        \/ handle = "held"
        \/ handle = "stale" /\ "rename" \in queue
        \/ polling
        \/ rearm > 0

\* One source of events at a time: a handle, the poll or the re-arm timer, and
\* none of them on a watcher that is closed or suspended.
OneSource ==
    /\ handle # "none" => ~polling /\ rearm = 0
    /\ polling => rearm = 0
    /\ ~armed \/ suspended => handle = "none" /\ ~polling /\ rearm = 0

\* A report that is due comes, however long a writer keeps writing
\* (CEILING_MS).
WriterCannotStarve == settle # Idle ~> settle = Idle

\* A change the handle or the poll was there to see is reported, unless the
\* watcher is suspended, armed anew or closed, or its handle fails, first.
SeenIsReported == "seen" \in unreported ~> "seen" \notin unreported

(***************************************************************************)
(* What the repository says, and the code does not do in every             *)
(* interleaving.                                                           *)
(***************************************************************************)
\* document-watcher.ts:118: after a rename the watcher re-arms on the path and
\* the check that follows decides what happened: so once it holds the file
\* again, a change made meanwhile does not stay unreported.
ReappearanceIsReported ==
    (handle = "held" /\ "gap" \in unreported) ~> "gap" \notin unreported

\* document-watcher.test.ts:104: nothing is said while suspended.
SilentWhileSuspended == [][suspended => ~Report]_vars
=============================================================================
