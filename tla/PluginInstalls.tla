--------------------------- MODULE PluginInstalls ---------------------------
(***************************************************************************)
(* The plugins the reader installs: previewed and committed, uninstalled   *)
(* and trusted by the installer (plugin-installer.ts), found, joined and   *)
(* quenched at the next start (user-plugins.ts, main.ts), with the switch  *)
(* of each kept in the state file (local-plugin-state-store.ts).           *)
(*                                                                         *)
(* A folder of the plugins root is its code, the code its record trusts    *)
(* fully, and the marker an install leaves.  Every install is a copy of    *)
(* its own; a copy is named so that the properties can tell the code the   *)
(* reader has switched on from the code that only arrived.  Requests are   *)
(* calls of the window that main handles side by side; file operations are *)
(* one step each, any may fail (MaxFaults), and the program may crash, or  *)
(* the power may fail, between any two (MaxCrashes).                       *)
(***************************************************************************)
EXTENDS Naturals, Sequences

CONSTANTS
    Codes,          \* digests of a plugin's main.js
    Slots,          \* requests main has in hand at one time
    None,
    MaxCopies,      \* installs pressed
    MaxPreviews,
    MaxFaults,
    MaxCrashes,     \* starts after the first, by a crash or a restart
    MaxEdits,       \* changes of the code by hand
    MaxEvents       \* all of these together

ASSUME InstallConstants ==
    /\ None \notin Codes
    /\ {MaxCopies, MaxPreviews, MaxFaults, MaxCrashes, MaxEdits, MaxEvents} \subseteq Nat

VARIABLES
    folder,     \* None, or the plugin's folder in the plugins root
    switch,     \* desiredEnabled in the state file
    durable,    \* the switch a power failure leaves
    phase,      \* how far the start is
    loaded,     \* None, or the folder as the catalog read it at launch
    wanted,     \* the registry's desiredEnabled
    staged,     \* the preview main holds
    shown,      \* the preview Plugin Center shows
    replies,    \* previews on their way to the window
    calls,
    counts,     \* copies, previews, faults, crashes and edits so far
    granted,    \* history: codes the reader trusted fully
    consented,  \* history: copies the reader has switched on
    unsaved,    \* history: copies whose switching off did not last
    removed     \* history: the reader has uninstalled it

vars == <<folder, switch, durable, phase, loaded, wanted, staged, shown,
          replies, calls, counts, granted, consented, unsaved, removed>>
disk == <<folder, switch, durable>>
session == <<phase, loaded, wanted>>
previews == <<staged, shown, replies>>
history == <<granted, consented, unsaved, removed>>

Copies == 0..MaxCopies
\* A folder without code is what mkdir leaves where no plugin is.
Folders == [code: Codes \cup {None}, trusted: Codes \cup {None},
            fresh: BOOLEAN, copy: Copies]
Ghost == [code |-> None, trusted |-> None, fresh |-> FALSE, copy |-> 0]
\* A preview with a problem has the code None: it cannot be installed.
Previews == [staging: 1..MaxPreviews, code: Codes \cup {None}]
Idle == [op |-> "idle"]

\* None stands for the absence of a folder and of a preview.
ASSUME AbsenceAssumption == None \notin Folders \cup Previews

\* What a request that waits holds on to.
Calls ==
    {Idle}
    \cup [op: {"fetch"}, preview: Previews]
    \cup [op: {"commit"}, staging: 1..MaxPreviews, seen: Codes, copy: Copies]
    \cup [op: {"written"}, new: Folders, seen: Codes]
    \cup [op: {"aside"}, new: Folders, trash: Folders \cup {None}]
    \cup [op: {"record", "trusting"}, to: Codes \cup {None}]

TypeOK ==
    /\ folder \in Folders \cup {None}
    /\ switch \in BOOLEAN /\ durable \in BOOLEAN /\ wanted \in BOOLEAN
    /\ phase \in {"down", "starting", "quenched", "up", "unhydrated"}
    /\ loaded \in Folders \cup {None}
    /\ staged \in Previews \cup {None} /\ shown \in Previews \cup {None}
    /\ replies \in Seq(Previews)
    /\ calls \in [Slots -> Calls]
    /\ counts \in [copies: Nat, previews: Nat, faults: Nat, crashes: Nat, edits: Nat]
    /\ removed \in BOOLEAN
    /\ granted \subseteq Codes /\ consented \subseteq Copies /\ unsaved \subseteq Copies

\* A plugin installed and switched on in an earlier session.
Init ==
    /\ \E c \in Codes :
         folder = [code |-> c, trusted |-> None, fresh |-> FALSE, copy |-> 0]
    /\ switch = TRUE /\ durable = TRUE
    /\ phase = "down" /\ loaded = None /\ wanted = FALSE
    /\ staged = None /\ shown = None /\ replies = <<>>
    /\ calls = [s \in Slots |-> Idle]
    /\ counts = [copies |-> 0, previews |-> 0, faults |-> 0, crashes |-> 0, edits |-> 0]
    /\ granted = {} /\ consented = {0} /\ unsaved = {} /\ removed = FALSE

Counted(what, limit) ==
    /\ counts[what] < limit
    /\ counts.copies + counts.previews + counts.faults + counts.crashes + counts.edits < MaxEvents
    /\ counts' = [counts EXCEPT ![what] = @ + 1]
\* A file operation goes well, or it is one of the failing ones.
Works == counts' = counts
Fails == Counted("faults", MaxFaults)

Step(s, call) == calls' = [calls EXCEPT ![s] = call]
Ends(s) == Step(s, Idle)

-----------------------------------------------------------------------------
\* Starting

\* Mutant: trust outlives a change of the code.
TrustedOnce(plugin) == plugin.trusted # None

\* How far a plugin is trusted: fully only while its code is the one trusted.
TrustedFully(plugin) == plugin.trusted # None /\ plugin.trusted = plugin.code

\* The catalog is read once.  A folder without code is set aside, and so is
\* a plugin whose id or key another one holds.
Discovered(joins) ==
    IF folder # None /\ folder.code # None /\ joins THEN folder ELSE None

\* The state file is read: the switches in it, or no registry to speak of.
Hydrate ==
    \/ Works /\ wanted' = switch /\ phase' = "starting"
    \/ Fails /\ wanted' = FALSE /\ phase' = "unhydrated"

Launch ==
    /\ phase = "down"
    /\ \E joins \in BOOLEAN : loaded' = Discovered(joins)
    /\ Hydrate
    /\ UNCHANGED <<disk, previews, calls, history>>

\* The window is there, and the installer answers it.
Open == phase \in {"up", "unhydrated"}

\* A save of the switch: on disk for good, on disk until the power fails
\* (the directory's sync failed, and the outcome says degraded), or refused.
Saved(value) == switch' = value /\ wanted' = value /\ durable' = value /\ Works
Degraded(value) == switch' = value /\ wanted' = value /\ durable' = durable /\ Fails
Refused == UNCHANGED <<switch, wanted, durable>> /\ Fails

\* Mutant: the marker goes and the switch is left.
MarkerFirst ==
    /\ phase = "starting"
    /\ phase' = "quenched"
    /\ UNCHANGED <<disk, loaded, wanted, previews, calls, counts, history>>

\* What was installed since the last start is switched off; a save that fails
\* is passed over.
Quench ==
    /\ phase = "starting"
    /\ LET off == loaded # None /\ loaded.fresh /\ wanted
       IN  \/ ~off /\ UNCHANGED <<switch, wanted, durable, counts, unsaved>>
           \/ off /\ Saved(FALSE) /\ UNCHANGED unsaved
           \/ off /\ (Degraded(FALSE) \/ Refused) /\ unsaved' = unsaved \cup {loaded.copy}
    /\ phase' = "quenched"
    /\ UNCHANGED <<folder, loaded, previews, calls, granted, consented, removed>>

\* Its marker goes, however the save went; the window comes after.
Unmark ==
    /\ phase = "quenched"
    /\ IF loaded # None /\ loaded.fresh
       THEN \/ Works /\ folder' = [folder EXCEPT !.fresh = FALSE]
            \/ Fails /\ UNCHANGED folder
       ELSE UNCHANGED <<folder, counts>>
    /\ phase' = "up"
    /\ UNCHANGED <<switch, durable, loaded, wanted, previews, calls, history>>

-----------------------------------------------------------------------------
\* The reader's requests

\* What a folder or a repository turns out to hold: code, or None for one that
\* has a problem (its id, its keys, a digest the marketplace did not vouch for).
Offered == Codes \cup {None}

\* A folder is picked, or an address or a marketplace entry named.
Preview(s) ==
    /\ Open /\ calls[s] = Idle /\ Counted("previews", MaxPreviews)
    /\ \E c \in Offered :
         Step(s, [op |-> "fetch", preview |-> [staging |-> counts.previews + 1, code |-> c]])
    /\ UNCHANGED <<disk, session, previews, history>>

\* No answer in ten seconds, a file too large, or not a plugin at all.
FetchFails(s) ==
    /\ calls[s].op = "fetch" /\ Ends(s)
    /\ UNCHANGED <<disk, session, previews, counts, history>>

\* One preview is held at a time; older ones are dropped.
Stage(s) ==
    /\ calls[s].op = "fetch"
    /\ staged' = calls[s].preview
    /\ replies' = Append(replies, calls[s].preview)
    /\ Ends(s)
    /\ UNCHANGED <<disk, session, shown, counts, history>>

Show ==
    /\ replies # <<>>
    /\ shown' = Head(replies) /\ replies' = Tail(replies)
    /\ UNCHANGED <<disk, session, staged, calls, counts, history>>

Cancel ==
    /\ Open /\ shown # None
    /\ shown' = None
    /\ staged' = IF staged # None /\ staged.staging = shown.staging THEN None ELSE staged
    /\ UNCHANGED <<disk, session, replies, calls, counts, history>>

\* Mutant: the preview held, whichever the window shows.
AnyHeld(staging) == staged

\* The preview the request names, if main still holds it.
Held(staging) == IF staged # None /\ staged.staging = staging THEN staged ELSE None

\* Install is pressed on the preview shown, which may have no problem.
Press(s) ==
    /\ Open /\ calls[s] = Idle /\ shown # None /\ shown.code # None
    /\ Counted("copies", MaxCopies)
    /\ Step(s, [op |-> "commit", staging |-> shown.staging, seen |-> shown.code,
                copy |-> counts.copies + 1])
    /\ UNCHANGED <<disk, session, previews, history>>

\* commit: the copy is written beside the plugins, off and sandboxed.
Write(s) ==
    /\ calls[s].op = "commit"
    /\ LET held == Held(calls[s].staging)
           new == [code |-> held.code, trusted |-> None, fresh |-> TRUE, copy |-> calls[s].copy]
       IN  IF held = None \/ held.code = None
           THEN Ends(s) /\ UNCHANGED <<staged, counts>>
           ELSE /\ staged' = None
                /\ \/ Works /\ Step(s, [op |-> "written", new |-> new, seen |-> calls[s].seen])
                   \/ Fails /\ Ends(s)
    /\ UNCHANGED <<disk, session, shown, replies, history>>

\* moveAside: what is in its place is renamed into the trash.
MoveAside(s) ==
    /\ calls[s].op = "written"
    /\ \/ /\ Works /\ folder' = None
          /\ Step(s, [op |-> "aside", new |-> calls[s].new, trash |-> folder])
       \/ Fails /\ folder # None /\ Ends(s) /\ UNCHANGED folder
    /\ UNCHANGED <<switch, durable, session, previews, history>>

\* The copy is renamed into place; failing that, the old version goes back.
Rename(s) ==
    /\ calls[s].op = "aside"
    /\ LET trash == calls[s].trash
       IN  \/ folder = None /\ Works /\ folder' = calls[s].new
           \/ folder = None /\ Fails /\ folder' = trash
           \/ folder # None /\ Works /\ folder' = folder
    /\ Ends(s)
    /\ UNCHANGED <<switch, durable, session, previews, history>>

\* uninstall: the folder is renamed into the trash and removed there.
Uninstall(s) ==
    /\ Open /\ calls[s] = Idle /\ folder # None
    /\ \/ Works /\ folder' = None /\ removed' = TRUE
       \/ Fails /\ UNCHANGED <<folder, removed>>
    /\ UNCHANGED <<switch, durable, session, previews, calls, granted, consented, unsaved>>

\* set-trust: full trust is asked for in a dialog of main's.
SetTrust(s) ==
    /\ Open /\ calls[s] = Idle /\ loaded # None
    /\ \E to \in {None, loaded.code} :
         Step(s, [op |-> "record", to |-> to])
    /\ UNCHANGED <<disk, session, previews, counts, history>>

\* The answer, and the folder made for the record, where there may be none.
\* A dialog cancelled ends the request.
Answer(s) ==
    /\ calls[s].op = "record"
    /\ \/ calls[s].to # None /\ Ends(s) /\ UNCHANGED <<folder, granted>>
       \/ /\ granted' = IF calls[s].to = None THEN granted ELSE granted \cup {calls[s].to}
          /\ folder' = IF folder = None THEN Ghost ELSE folder
          /\ Step(s, [op |-> "trusting", to |-> calls[s].to])
    /\ UNCHANGED <<switch, durable, session, previews, counts, consented, unsaved, removed>>

\* The record is written beside the old one and renamed over it, in whatever
\* folder is there by now.
Record(s) ==
    /\ calls[s].op = "trusting"
    /\ \/ folder # None /\ Works /\ folder' = [folder EXCEPT !.trusted = calls[s].to]
       \/ folder = None /\ Works /\ folder' = folder
       \/ Fails /\ folder' = folder
    /\ Ends(s)
    /\ UNCHANGED <<switch, durable, session, previews, history>>

\* The plugin's switch in Plugin Center.
Toggle ==
    /\ phase = "up" /\ loaded # None
    /\ LET on == ~wanted
       IN  /\ Saved(on) \/ Degraded(on) \/ Refused
           /\ consented' = IF on THEN consented \cup {loaded.copy} ELSE consented
    /\ UNCHANGED <<folder, phase, loaded, previews, calls, granted, unsaved, removed>>

\* The code is changed by hand.
Edit ==
    /\ folder # None /\ folder.code # None /\ Counted("edits", MaxEdits)
    /\ \E c \in Codes \ {folder.code} : folder' = [folder EXCEPT !.code = c]
    /\ UNCHANGED <<switch, durable, session, previews, calls, history>>

\* A crash or a power failure, at any point; what is in hand is gone, the
\* trash and the staging folder stay where no start looks.
Crash ==
    /\ phase # "down" /\ Counted("crashes", MaxCrashes)
    /\ \E power \in BOOLEAN : switch' = IF power THEN durable ELSE switch
    /\ durable' = switch'
    /\ phase' = "down" /\ loaded' = None /\ wanted' = FALSE
    /\ staged' = None /\ shown' = None /\ replies' = <<>>
    /\ calls' = [s \in Slots |-> Idle]
    /\ UNCHANGED <<folder, history>>

Next ==
    \/ Launch \/ Quench \/ Unmark \/ Show \/ Cancel \/ Toggle \/ Edit \/ Crash
    \/ \E s \in Slots :
         \/ Preview(s) \/ FetchFails(s) \/ Stage(s) \/ Press(s) \/ Write(s) \/ MoveAside(s) \/ Rename(s)
         \/ Uninstall(s) \/ SetTrust(s) \/ Answer(s) \/ Record(s)

Spec == Init /\ [][Next]_vars

-----------------------------------------------------------------------------
\* The registry may start the plugin: it is wanted, and its code is served,
\* which it is while it is the code that was loaded.
MayRun ==
    /\ phase = "up" /\ loaded # None /\ wanted
    /\ folder # None /\ folder.code = loaded.code

\* New code never starts running by itself (user-plugins.ts:36, main.ts:408):
\* a copy that may run is one the reader has switched on, whatever crashed,
\* failed, was edited or came in between, as long as the save that switched
\* it off at its first start went well and lasted.
NewCodeIsOffOnceSaved ==
    MayRun => loaded.copy \in consented \cup unsaved

\* What the comments say, without the exception; the code does not keep it.
NewCodeIsOff == MayRun => loaded.copy \in consented

\* Full trust is granted to one digest (install-record.ts:8): what runs with
\* the app's own access is code the reader said yes to, however updates,
\* edits, uninstalls and records written late fall together.
FullTrustWasGiven == MayRun /\ TrustedFully(loaded) => loaded.code \in granted

\* What is installed is what the preview showed (plugin-installer.ts:29),
\* with other previews fetched, shown and dropped meanwhile.
InstalledIsPreviewed ==
    \A s \in Slots : calls[s].op = "written" => calls[s].new.code = calls[s].seen

\* "A crash leaves the old version or the new one" (plugin-installer.ts:31):
\* at a start, a plugin nobody uninstalled is in its folder.  The code does
\* not keep it: the old one is in the trash before the new one is in place.
OldOrNew == phase = "down" /\ ~removed => folder # None

=============================================================================
