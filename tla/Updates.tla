------------------------------ MODULE Updates ------------------------------
(***************************************************************************)
(* The updater (app-updater.ts) and the releases it looks at               *)
(* (github-releases.ts).  Every method runs to its next await in one step; *)
(* nothing keeps two of them from running at once.                         *)
(*                                                                         *)
(* A release is its version; this build is version 0.                      *)
(***************************************************************************)
EXTENDS Naturals, FiniteSets

CONSTANTS
    Autos,              \* whether a build may install itself; FALSE until builds are signed
    Versions, Pre,      \* the releases, and those that are prereleases
    MaxAsked, MaxChanges, MaxFaults  \* bounds

None == 0

VARIABLES
    auto,
    published,  \* the releases out
    channel,
    phase, available,
    pending,    \* what waits: for the releases, the feed, the download or the browser
    told,       \* the last status the window was told
    asks, changes, refused

vars == <<auto, published, channel, phase, available, pending, told, asks, changes, refused>>

\* latestReleaseForChannel, of those out
Latest(c) ==
    LET those == {v \in published : c = "testing" \/ v \notin Pre}
    IN IF those = {} THEN None ELSE CHOOSE v \in those : \A w \in those : w <= v

Init ==
    /\ auto \in Autos /\ published = {} /\ channel = "stable"
    /\ phase = "idle" /\ available = None
    /\ pending = {} /\ told = [phase |-> "idle", available |-> None]
    /\ asks = 0 /\ changes = 0 /\ refused = 0

\* this.phase = p, and publish
Publish(p) ==
    /\ phase' = p
    /\ told' = [phase |-> p, available |-> available']

Waits(at, why) == [at |-> at, why |-> why, channel |-> channel]

\* Mutant: the page is open and the download has not failed.
StaysAsItWas == UNCHANGED <<phase, told, available>>

\* openRelease, after the browser has opened
Opened ==
    /\ UNCHANGED available
    /\ Publish(IF phase \in {"downloading", "error"}
               THEN IF available # None THEN "available" ELSE "idle" ELSE phase)

\* download, up to its first await
Downloads(others, why) ==
    IF available' = None THEN Publish("error") /\ pending' = others
    ELSE IF ~auto THEN pending' = others \cup {Waits("browser", why)} /\ UNCHANGED <<phase, told>>
    ELSE Publish("downloading") /\ pending' = others \cup {Waits("feed", why)}

(***************************************************************************)
(* What the window asks.                                                   *)
(***************************************************************************)
Ask ==
    /\ asks < MaxAsked
    /\ asks' = asks + 1
    /\ UNCHANGED <<auto, published, channel, changes, refused>>

Check(why) ==
    /\ Ask
    /\ UNCHANGED available
    /\ Publish("checking")
    /\ pending' = pending \cup {Waits("releases", why)}

Download ==
    /\ Ask
    /\ UNCHANGED available
    /\ Downloads(pending, "manual")

\* install: with nothing downloaded it downloads first; with it, Noto quits
Install ==
    /\ Ask
    /\ UNCHANGED available
    /\ IF auto THEN phase # "downloaded" /\ Downloads(pending, "install")
       ELSE pending' = pending \cup {Waits("browser", "install")} /\ UNCHANGED <<phase, told>>

OpenRelease ==
    /\ Ask
    /\ pending' = pending \cup {Waits("browser", "manual")}
    /\ UNCHANGED <<phase, available, told>>

(***************************************************************************)
(* What they wait for.                                                     *)
(***************************************************************************)
Done(call) == pending' = pending \ {call}

\* The releases, as they are when GitHub answers, on the channel of the question.
Releases(call) ==
    /\ call.at = "releases"
    /\ LET found == Latest(call.channel) IN
       /\ available' = found
       /\ IF found # None /\ call.why = "launch" /\ auto
          THEN Downloads(pending \ {call}, "launch") \/ (Publish("available") /\ Done(call))  \* autoDownloadUpdates
          ELSE Publish(IF found = None THEN "up-to-date" ELSE "available") /\ Done(call)
    /\ UNCHANGED <<auto, published, channel, asks, changes, refused>>

Fails(call) ==
    /\ call.at \in {"releases", "feed", "fetch"} /\ refused < MaxFaults
    /\ refused' = refused + 1
    /\ UNCHANGED available
    /\ IF call.at = "releases" THEN Publish("error") /\ Done(call)
       ELSE pending' = (pending \ {call}) \cup {Waits("browser", call.why)} /\ UNCHANGED <<phase, told>>
    /\ UNCHANGED <<auto, published, channel, asks, changes>>

\* The feed has the version that was found, or the release page is opened; so
\* it is when preferences have cleared what was found.
Feed(call) ==
    /\ call.at = "feed"
    /\ LET same == available # None /\ Latest(channel) = available IN
       pending' = (pending \ {call}) \cup {Waits(IF same THEN "fetch" ELSE "browser", call.why)}
    /\ UNCHANGED <<auto, published, channel, phase, available, told, asks, changes, refused>>

Fetched(call) ==
    /\ call.at = "fetch"
    /\ UNCHANGED available
    /\ Publish("downloaded") /\ Done(call)
    /\ UNCHANGED <<auto, published, channel, asks, changes, refused>>

Browser(call) ==
    /\ call.at = "browser"
    /\ Opened
    /\ Done(call)
    /\ UNCHANGED <<auto, published, channel, asks, changes, refused>>

(***************************************************************************)
(* The world, and the preferences.                                         *)
(***************************************************************************)
Released(v) ==
    /\ v \notin published /\ changes < MaxChanges
    /\ changes' = changes + 1
    /\ published' = published \cup {v}
    /\ UNCHANGED <<auto, channel, phase, available, pending, told, asks, refused>>

\* Mutant: only what was found is cleared.
ClearsFound == available' = None /\ UNCHANGED <<phase, told>>

\* applyPreferences, after any change of the settings
AppliesPreferences ==
    /\ available' = None
    /\ IF phase \in {"available", "up-to-date", "downloaded"} THEN Publish("idle") ELSE UNCHANGED <<phase, told>>

Preferences(c) ==
    /\ changes < MaxChanges
    /\ changes' = changes + 1
    /\ channel' = c
    /\ AppliesPreferences
    /\ UNCHANGED <<auto, published, pending, asks, refused>>

Reader ==
    \/ Check("launch") \/ Check("manual") \/ Download \/ Install \/ OpenRelease
    \/ \E c \in {"stable", "testing"} : Preferences(c)
    \/ \E v \in Versions : Released(v)

Runs == \E call \in pending : Releases(call) \/ Fails(call) \/ Feed(call) \/ Fetched(call) \/ Browser(call)

Next == Reader \/ Runs

\* GitHub answers or the request fails, downloads end, and the browser opens.
Fairness == WF_vars(Runs)
Spec == Init /\ [][Next]_vars /\ Fairness

(***************************************************************************)
(* Properties.                                                             *)
(***************************************************************************)
\* The window shows the phase there is, and an update that is offered is one
\* that was found, however checks, downloads and preferences overlap.
OfferIsFound == told.phase = phase /\ (phase = "available" => available \in published)

\* Whatever runs at once, the pane does not stay at checking or downloading.
BusyEnds == <>[](phase \notin {"checking", "downloading"})

\* An offer is of the channel's releases (app-updater.ts:41 "A channel change
\* clears a stale "available" that belonged to the other track").
OfferIsOfChannel == phase = "available" /\ channel = "stable" => available \notin Pre
=============================================================================
