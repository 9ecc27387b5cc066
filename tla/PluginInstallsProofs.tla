------------------------ MODULE PluginInstallsProofs ------------------------
(***************************************************************************)
(* What PluginInstalls promises of the plugins the reader installs, for    *)
(* any set of digests, any number of requests in hand and any bounds:      *)
(* what is installed is what was previewed, full trust was given by the    *)
(* reader, and new code stays off until it is switched on.                 *)
(*                                                                         *)
(* None of the three is inductive.  Each has its own strengthening below,  *)
(* a conjunction of named parts; all of them rest on the types and on what *)
(* holds of a start before the window is there.  A plugin in isolation is  *)
(* run by RuntimeHost, whose promise is proved at the end: the two have no *)
(* state in common.                                                        *)
(***************************************************************************)
EXTENDS MC_Runtimes, TLAPS, SequenceTheorems

(***************************************************************************)
(* What is installed is what was previewed.                                *)
(***************************************************************************)
\* A preview main or the window still knows of.
Known(p) ==
    \/ p = staged \/ p = shown
    \/ \E i \in DOMAIN replies : replies[i] = p
    \/ \E s \in Slots : calls[s].op = "fetch" /\ calls[s].preview = p

\* Every preview has a staging folder of its own,
OwnStaging ==
    \A p, q \in Previews :
        /\ Known(p) => p.staging <= counts.previews
        /\ Known(p) /\ Known(q) /\ p.staging = q.staging => p = q

\* and an install asked for holds the code its preview showed.
PressedIsShown ==
    \A s \in Slots : calls[s].op = "commit" =>
        /\ calls[s].staging <= counts.previews
        /\ \A p \in Previews : Known(p) /\ p.staging = calls[s].staging => p.code = calls[s].seen

IPreview == OwnStaging /\ PressedIsShown /\ InstalledIsPreviewed

(***************************************************************************)
(* Full trust is the reader's.                                             *)
(***************************************************************************)
Given(plugin) == plugin = None \/ plugin.trusted \in granted \cup {None}

\* A record trusts what the reader said yes to, wherever the folder is.
RecordsAreGiven ==
    /\ Given(folder) /\ Given(loaded)
    /\ \A s \in Slots :
        /\ calls[s].op = "aside" => Given(calls[s].trash)
        /\ calls[s].op \in {"written", "aside"} => calls[s].new.trusted = None
        /\ calls[s].op = "trusting" => calls[s].to \in granted \cup {None}

(***************************************************************************)
(* New code stays off.                                                     *)
(***************************************************************************)
Session == phase \in {"up", "unhydrated"}

\* Before the window is there nothing has touched the switch, and nobody has
\* asked for anything.
StartsQuietly ==
    /\ phase \in {"down", "starting"} => durable = switch
    /\ phase = "starting" => wanted = switch
    /\ ~Session => \A s \in Slots : calls[s] = Idle
    /\ phase \in {"starting", "quenched"} /\ loaded # None =>
           folder # None /\ folder.copy = loaded.copy /\ folder.fresh = loaded.fresh

Allowed(copy) == copy \in consented \cup unsaved

\* A folder that would start with the program is one the reader switched on.
MayStart(plugin) == plugin # None /\ ~plugin.fresh /\ (switch \/ durable)

StartsAllowed ==
    /\ MayStart(folder) => Allowed(folder.copy)
    /\ \A s \in Slots : calls[s].op = "aside" /\ MayStart(calls[s].trash) => Allowed(calls[s].trash.copy)

\* What arrives in a session is marked; what is not marked was there before.
Unmarked(plugin) == plugin # None /\ ~plugin.fresh => plugin.copy \in {0, loaded.copy}

ArrivalsAreMarked ==
    /\ Session /\ loaded # None =>
           /\ Unmarked(folder)
           /\ \A s \in Slots : calls[s].op = "aside" => Unmarked(calls[s].trash)
    /\ \A s \in Slots : calls[s].op \in {"written", "aside"} => calls[s].new.fresh

\* What the registry wants, or will want at the next start, is allowed.
WantedIsAllowed ==
    /\ 0 \in consented
    /\ phase \in {"quenched", "up"} /\ loaded # None /\ wanted => Allowed(loaded.copy)
    /\ phase = "quenched" /\ loaded # None /\ (switch \/ durable) => Allowed(loaded.copy)

OffUntilSwitchedOn == StartsAllowed /\ ArrivalsAreMarked /\ WantedIsAllowed

\* A request moves on or ends; the others stay.
LEMMA CallsType ==
  ASSUME calls \in [Slots -> Calls], NEW s \in Slots, NEW call \in Calls, Step(s, call)
  PROVE  calls' \in [Slots -> Calls]
  BY DEF Step

\* Only the request that moves changes.
LEMMA CallStays ==
  ASSUME calls \in [Slots -> Calls], NEW s \in Slots, NEW call, Step(s, call), NEW r \in Slots
  PROVE  calls'[r] = IF r = s THEN call ELSE calls[r]
  BY DEF Step

\* What a request holds, by what it is about.
LEMMA CallFields ==
  ASSUME NEW call \in Calls
  PROVE  /\ call.op = "fetch" => call.preview \in Previews
         /\ call.op = "commit" => call.staging \in 1..MaxPreviews /\ call.seen \in Codes /\ call.copy \in Copies
         /\ call.op = "written" => call.new \in Folders /\ call.seen \in Codes
         /\ call.op = "aside" => call.new \in Folders /\ call.trash \in Folders \cup {None}
         /\ call.op \in {"record", "trusting"} => call.to \in Codes \cup {None}
  BY DEF Calls, Idle

\* A request that is over is one of the requests there are.
LEMMA IdleIsCall == Idle \in Calls
  BY DEF Calls

\* What is counted stays a number.
LEMMA CountsType ==
  ASSUME counts \in [copies: Nat, previews: Nat, faults: Nat, crashes: Nat, edits: Nat],
         NEW what \in {"copies", "previews", "faults", "crashes", "edits"}, NEW limit, Counted(what, limit)
  PROVE  counts' \in [copies: Nat, previews: Nat, faults: Nat, crashes: Nat, edits: Nat]
  BY DEF Counted

-----------------------------------------------------------------------------
\* The types hold of a profile with one plugin installed and switched on,
LEMMA TypeInit == Init => TypeOK
<1> SUFFICES ASSUME Init PROVE TypeOK
  OBVIOUS
<1>1. folder \in Folders /\ 0 \in Copies
  BY InstallConstants DEF Init, Folders, Copies
<1>2. calls \in [Slots -> Calls]
  BY IdleIsCall DEF Init
<1>3. counts \in [copies: Nat, previews: Nat, faults: Nat, crashes: Nat, edits: Nat]
  BY DEF Init
<1>4. replies \in Seq(Previews)
  BY DEF Init
<1> QED
  BY <1>1, <1>2, <1>3, <1>4 DEF Init, TypeOK

\* and every operation keeps them, a start finding the folder it read in place.
LEMMA TypeStep == TypeOK /\ StartsQuietly /\ [Next]_vars => TypeOK'
<1> SUFFICES ASSUME TypeOK, StartsQuietly, [Next]_vars PROVE TypeOK'
  OBVIOUS
<1> USE InstallConstants, AbsenceAssumption DEF TypeOK, disk, session, previews, history
<1>w. Works \/ Fails => counts' \in [copies: Nat, previews: Nat, faults: Nat, crashes: Nat, edits: Nat]
  BY CountsType DEF Works, Fails
<1>1. CASE Launch
  <2>1. loaded' \in Folders \cup {None}
    BY <1>1 DEF Launch, Discovered
  <2> QED
    BY <1>1, <1>w, <2>1 DEF Launch, Hydrate
<1>2. CASE Quench
  <2>1. counts' \in [copies: Nat, previews: Nat, faults: Nat, crashes: Nat, edits: Nat]
    BY <1>2, <1>w DEF Quench, Saved, Degraded, Refused
  <2>2. switch' \in BOOLEAN /\ durable' \in BOOLEAN /\ wanted' \in BOOLEAN
    BY <1>2 DEF Quench, Saved, Degraded, Refused
  <2>3. unsaved' \subseteq Copies
    BY <1>2 DEF Quench, Folders
  <2> QED
    BY <1>2, <2>1, <2>2, <2>3 DEF Quench
<1>3. CASE Unmark
  <2>1. folder' \in Folders \cup {None}
    BY <1>3 DEF Unmark, Folders, StartsQuietly
  <2>2. counts' \in [copies: Nat, previews: Nat, faults: Nat, crashes: Nat, edits: Nat]
    BY <1>3, <1>w DEF Unmark
  <2> QED
    BY <1>3, <2>1, <2>2 DEF Unmark
<1>4. CASE Show
  BY <1>4, HeadTailProperties DEF Show
<1>5. CASE Cancel
  BY <1>5 DEF Cancel
<1>6. CASE Toggle
  <2>1. counts' \in [copies: Nat, previews: Nat, faults: Nat, crashes: Nat, edits: Nat]
    BY <1>6, <1>w DEF Toggle, Saved, Degraded, Refused
  <2>2. switch' \in BOOLEAN /\ durable' \in BOOLEAN /\ wanted' \in BOOLEAN
    BY <1>6 DEF Toggle, Saved, Degraded, Refused
  <2>3. consented' \subseteq Copies
    BY <1>6 DEF Toggle, Folders
  <2> QED
    BY <1>6, <2>1, <2>2, <2>3 DEF Toggle
<1>7. CASE Edit
  <2>1. folder' \in Folders \cup {None}
    BY <1>7 DEF Edit, Folders
  <2>2. counts' \in [copies: Nat, previews: Nat, faults: Nat, crashes: Nat, edits: Nat]
    BY <1>7, CountsType DEF Edit
  <2> QED
    BY <1>7, <2>1, <2>2 DEF Edit
<1>8. CASE Crash
  <2>1. counts' \in [copies: Nat, previews: Nat, faults: Nat, crashes: Nat, edits: Nat]
    BY <1>8, CountsType DEF Crash
  <2>2. switch' \in BOOLEAN /\ durable' \in BOOLEAN
    BY <1>8 DEF Crash
  <2>3. calls' \in [Slots -> Calls] /\ replies' \in Seq(Previews)
    BY <1>8, IdleIsCall DEF Crash
  <2> QED
    BY <1>8, <2>1, <2>2, <2>3 DEF Crash
<1>9. ASSUME NEW s \in Slots, Preview(s) PROVE TypeOK'
  <2>1. counts' \in [copies: Nat, previews: Nat, faults: Nat, crashes: Nat, edits: Nat]
    BY <1>9, CountsType DEF Preview
  <2>2. counts.previews + 1 \in 1..MaxPreviews
    BY <1>9, SMTT(30) DEF Preview, Counted
  <2>3. PICK c \in Offered :
          Step(s, [op |-> "fetch", preview |-> [staging |-> counts.previews + 1, code |-> c]])
    BY <1>9 DEF Preview
  <2>4. [op |-> "fetch", preview |-> [staging |-> counts.previews + 1, code |-> c]] \in Calls
    BY <2>2 DEF Calls, Previews, Offered
  <2>5. calls' \in [Slots -> Calls]
    BY <2>3, <2>4, CallsType
  <2> QED
    BY <1>9, <2>1, <2>5, SMTT(30) DEF Preview
<1>10. ASSUME NEW s \in Slots, FetchFails(s) PROVE TypeOK'
  BY <1>10, IdleIsCall, CallsType DEF FetchFails, Ends
<1>11. ASSUME NEW s \in Slots, Stage(s) PROVE TypeOK'
  BY <1>11, IdleIsCall, CallsType, CallFields DEF Stage, Ends
<1>12. ASSUME NEW s \in Slots, Press(s) PROVE TypeOK'
  <2>1. counts' \in [copies: Nat, previews: Nat, faults: Nat, crashes: Nat, edits: Nat]
    BY <1>12, CountsType DEF Press
  <2>2. counts.copies + 1 \in Copies
    <3>1. counts.copies \in Nat /\ counts.copies < MaxCopies /\ MaxCopies \in Nat
      BY <1>12 DEF Press, Counted
    <3> QED
      BY <3>1 DEF Copies
  <2>3. [op |-> "commit", staging |-> shown.staging, seen |-> shown.code, copy |-> counts.copies + 1] \in Calls
    BY <1>12, <2>2 DEF Press, Calls, Previews
  <2>4. calls' \in [Slots -> Calls]
    BY <1>12, <2>3, CallsType DEF Press
  <2> QED
    BY <1>12, <2>1, <2>4 DEF Press
<1>13. ASSUME NEW s \in Slots, Write(s) PROVE TypeOK'
  <2> DEFINE held == Held(calls[s].staging)
             new == [code |-> held.code, trusted |-> None, fresh |-> TRUE, copy |-> calls[s].copy]
  <2>1. calls[s] \in Calls /\ calls[s].op = "commit"
    BY <1>13 DEF Write
  <2>2. calls[s].seen \in Codes /\ calls[s].copy \in Copies
    BY <2>1, CallFields
  <2>3. ASSUME held # None, held.code # None
        PROVE  [op |-> "written", new |-> new, seen |-> calls[s].seen] \in Calls
    <3>1. held.code \in Codes
      BY <2>3 DEF Held, Previews
    <3>2. new \in Folders
      BY <3>1, <2>2 DEF Folders
    <3> QED
      BY <3>2, <2>2 DEF Calls
  <2>4. calls' \in [Slots -> Calls]
    BY <1>13, <2>3, IdleIsCall, CallsType DEF Write, Ends
  <2>5. counts' \in [copies: Nat, previews: Nat, faults: Nat, crashes: Nat, edits: Nat]
    BY <1>13, <1>w DEF Write
  <2>6. staged' \in Previews \cup {None}
    BY <1>13 DEF Write
  <2> QED
    BY <1>13, <2>4, <2>5, <2>6 DEF Write
<1>14. ASSUME NEW s \in Slots, MoveAside(s) PROVE TypeOK'
  BY <1>14, <1>w, IdleIsCall, CallsType, CallFields, SMTT(30) DEF MoveAside, Ends, Calls
<1>15. ASSUME NEW s \in Slots, Rename(s) PROVE TypeOK'
  BY <1>15, <1>w, IdleIsCall, CallsType, CallFields, SMTT(30) DEF Rename, Ends
<1>16. ASSUME NEW s \in Slots, Uninstall(s) PROVE TypeOK'
  BY <1>16, <1>w, ZenonT(30) DEF Uninstall
<1>17. ASSUME NEW s \in Slots, SetTrust(s) PROVE TypeOK'
  BY <1>17, CallsType DEF SetTrust, Calls, Folders
<1>18. ASSUME NEW s \in Slots, Answer(s) PROVE TypeOK'
  <2>1. calls[s] \in Calls /\ calls[s].op = "record"
    BY <1>18 DEF Answer
  <2>2. calls[s].to \in Codes \cup {None}
    BY <2>1, CallFields
  <2>3. [op |-> "trusting", to |-> calls[s].to] \in Calls
    BY <2>2 DEF Calls
  <2>4. calls' \in [Slots -> Calls]
    BY <1>18, <2>3, IdleIsCall, CallsType DEF Answer, Ends
  <2>5. Ghost \in Folders
    BY DEF Ghost, Folders, Copies
  <2>6. folder' \in Folders \cup {None} /\ granted' \subseteq Codes
    BY <1>18, <2>2, <2>5 DEF Answer
  <2> QED
    BY <1>18, <2>4, <2>6 DEF Answer
<1>19. ASSUME NEW s \in Slots, Record(s) PROVE TypeOK'
  <2>1. calls[s] \in Calls /\ calls[s].op = "trusting"
    BY <1>19 DEF Record
  <2>2. calls[s].to \in Codes \cup {None}
    BY <2>1, CallFields
  <2>3. folder' \in Folders \cup {None}
    BY <1>19, <2>2 DEF Record, Folders
  <2>4. calls' \in [Slots -> Calls]
    BY <1>19, IdleIsCall, CallsType DEF Record, Ends
  <2>5. counts' \in [copies: Nat, previews: Nat, faults: Nat, crashes: Nat, edits: Nat]
    BY <1>19, <1>w DEF Record
  <2> QED
    BY <1>19, <2>3, <2>4, <2>5 DEF Record
<1>20. CASE UNCHANGED vars
  BY <1>20 DEF vars
<1> QED
  BY <1>1, <1>2, <1>3, <1>4, <1>5, <1>6, <1>7, <1>8, <1>9, <1>10, <1>11, <1>12, <1>13,
     <1>14, <1>15, <1>16, <1>17, <1>18, <1>19, <1>20 DEF Next
-----------------------------------------------------------------------------
\* Nothing becomes known, and nothing is asked for, that was not before.
NothingNew ==
    /\ \A p \in Previews : Known(p)' => Known(p)
    /\ counts'.previews = counts.previews
    /\ \A r \in Slots : calls'[r].op \in {"commit", "written"} => calls'[r] = calls[r]

\* Then what was previewed stays what is installed.
LEMMA PreviewsKept ==
  ASSUME IPreview, NothingNew
  PROVE  IPreview'
<1>1. OwnStaging'
  BY DEF IPreview, OwnStaging, NothingNew
<1>2. PressedIsShown'
  BY DEF IPreview, PressedIsShown, NothingNew
<1>3. InstalledIsPreviewed'
  BY DEF IPreview, InstalledIsPreviewed, NothingNew
<1> QED
  BY <1>1, <1>2, <1>3 DEF IPreview

\* So it does while a request only moves on.
LEMMA RequestMovesOn ==
  ASSUME TypeOK, NEW s \in Slots, NEW call, Step(s, call),
         call.op \notin {"fetch", "commit", "written"},
         staged' \in {staged, None}, shown' \in {shown, None}, replies' = replies,
         counts'.previews = counts.previews
  PROVE  NothingNew
<1>1. \A r \in Slots : calls'[r] = IF r = s THEN call ELSE calls[r]
  BY CallStays DEF TypeOK
<1>2. ASSUME NEW p \in Previews, Known(p)' PROVE Known(p)
  BY <1>1, <1>2, AbsenceAssumption DEF Known
<1> QED
  BY <1>1, <1>2 DEF NothingNew

\* Nothing is previewed at first.
LEMMA PreviewInit == Init => IPreview
<1> SUFFICES ASSUME Init PROVE IPreview
  OBVIOUS
<1>1. \A s \in Slots : calls[s].op = "idle"
  BY DEF Init, Idle
<1>2. \A p \in Previews : ~Known(p)
  BY <1>1, AbsenceAssumption DEF Init, Known
<1> QED
  BY <1>1, <1>2 DEF IPreview, OwnStaging, PressedIsShown, InstalledIsPreviewed

\* Every step keeps previews and installs together, however late a preview
\* arrives and whatever the window shows meanwhile.
LEMMA PreviewStep == TypeOK /\ IPreview /\ [Next]_vars => IPreview'
<1> SUFFICES ASSUME TypeOK, IPreview, [Next]_vars PROVE IPreview'
  OBVIOUS
<1> USE DEF disk, session, previews, history
<1>f. Works \/ Fails => counts'.previews = counts.previews
  BY DEF Works, Fails, Counted, TypeOK
<1>i. Idle.op = "idle"
  BY DEF Idle
<1>0. ASSUME UNCHANGED <<staged, shown, replies, calls>>, counts'.previews = counts.previews
      PROVE  IPreview'
  <2>1. \A p \in Previews : Known(p)' => Known(p)
    BY <1>0 DEF Known
  <2>2. NothingNew
    BY <1>0, <2>1 DEF NothingNew
  <2> QED
    BY <2>2, PreviewsKept
<1>1. CASE Launch
  BY <1>0, <1>1, <1>f DEF Launch, Hydrate
<1>2. CASE Quench
  BY <1>0, <1>2, <1>f DEF Quench, Saved, Degraded, Refused
<1>3. CASE Unmark
  BY <1>0, <1>3, <1>f DEF Unmark
<1>4. CASE Show
  <2>1. \A p \in Previews : Known(p)' => Known(p)
    <3> SUFFICES ASSUME NEW p \in Previews, Known(p)' PROVE Known(p)
      OBVIOUS
    <3>1. CASE p = shown'
      BY <1>4, <3>1, HeadTailProperties DEF Show, Known, TypeOK
    <3>2. CASE \E i \in DOMAIN replies' : replies'[i] = p
      BY <1>4, <3>2, HeadTailProperties DEF Show, Known, TypeOK
    <3>3. CASE p = staged' \/ \E s \in Slots : calls'[s].op = "fetch" /\ calls'[s].preview = p
      BY <1>4, <3>3 DEF Show, Known
    <3> QED
      BY <3>1, <3>2, <3>3 DEF Known
  <2>2. NothingNew
    BY <1>4, <2>1 DEF Show, NothingNew
  <2> QED
    BY <2>2, PreviewsKept
<1>5. CASE Cancel
  <2>1. \A p \in Previews : Known(p)' => Known(p)
    BY <1>5, AbsenceAssumption DEF Cancel, Known
  <2>2. NothingNew
    BY <1>5, <2>1 DEF Cancel, NothingNew
  <2> QED
    BY <2>2, PreviewsKept
<1>6. CASE Toggle
  BY <1>0, <1>6, <1>f DEF Toggle, Saved, Degraded, Refused
<1>7. CASE Edit
  BY <1>0, <1>7 DEF Edit, Counted, TypeOK
<1>8. CASE Crash
  <2>1. \A r \in Slots : calls'[r].op = "idle"
    BY <1>8, <1>i DEF Crash
  <2>2. \A p \in Previews : ~Known(p)'
    BY <1>8, <2>1, AbsenceAssumption DEF Crash, Known
  <2>3. NothingNew
    BY <1>8, <2>1, <2>2 DEF Crash, NothingNew, Counted, TypeOK
  <2> QED
    BY <2>3, PreviewsKept
<1>9. ASSUME NEW s \in Slots, Preview(s) PROVE IPreview'
  <2>1. PICK c \in Offered :
          Step(s, [op |-> "fetch", preview |-> [staging |-> counts.previews + 1, code |-> c]])
    BY <1>9 DEF Preview
  <2> DEFINE new == [staging |-> counts.previews + 1, code |-> c]
  <2>2. \A r \in Slots : calls'[r] = IF r = s THEN [op |-> "fetch", preview |-> new] ELSE calls[r]
    BY <2>1, CallStays DEF TypeOK
  <2>3. counts.previews \in Nat /\ counts'.previews = counts.previews + 1
    BY <1>9 DEF Preview, Counted, TypeOK
  <2>4. \A p \in Previews : Known(p)' => p = new \/ Known(p)
    BY <1>9, <2>2 DEF Preview, Known
  <2> HIDE DEF new
  <2>5. new.staging = counts.previews + 1
    BY DEF new
  <2>6. \A p \in Previews : p.staging \in Nat
    BY DEF Previews
  <2>7. OwnStaging'
    BY <2>3, <2>4, <2>5, <2>6 DEF IPreview, OwnStaging
  <2>8. \A r \in Slots : calls'[r].op \in {"commit", "written"} => calls'[r] = calls[r]
    BY <2>2
  <2>9. \A r \in Slots : calls[r].op = "commit" => calls[r].staging \in Nat
    BY CallFields DEF TypeOK
  <2>10. PressedIsShown'
    BY <2>3, <2>4, <2>5, <2>8, <2>9 DEF IPreview, PressedIsShown
  <2>11. InstalledIsPreviewed'
    BY <2>8 DEF IPreview, InstalledIsPreviewed
  <2> QED
    BY <2>7, <2>10, <2>11 DEF IPreview
<1>10. ASSUME NEW s \in Slots, FetchFails(s) PROVE IPreview'
  BY <1>10, <1>i, RequestMovesOn, PreviewsKept DEF FetchFails, Ends
<1>11. ASSUME NEW s \in Slots, Stage(s) PROVE IPreview'
  <2>1. \A r \in Slots : calls'[r] = IF r = s THEN Idle ELSE calls[r]
    BY <1>11, CallStays DEF TypeOK, Stage, Ends
  <2>2. calls[s].op = "fetch" /\ Known(calls[s].preview) /\ calls[s].preview \in Previews
    BY <1>11, CallFields DEF Stage, Known, TypeOK
  <2>3. \A p \in Previews : Known(p)' => Known(p)
    <3> SUFFICES ASSUME NEW p \in Previews, Known(p)' PROVE Known(p)
      OBVIOUS
    <3>1. CASE p = staged' \/ p = shown'
      BY <1>11, <2>2, <3>1 DEF Stage, Known
    <3>2. CASE \E i \in DOMAIN replies' : replies'[i] = p
      BY <1>11, <2>2, <3>2, AppendProperties DEF Stage, Known, TypeOK
    <3>3. CASE \E r \in Slots : calls'[r].op = "fetch" /\ calls'[r].preview = p
      BY <1>i, <2>1, <3>3 DEF Known
    <3> QED
      BY <3>1, <3>2, <3>3 DEF Known
  <2>4. NothingNew
    BY <1>11, <1>i, <2>1, <2>3 DEF Stage, NothingNew
  <2> QED
    BY <2>4, PreviewsKept
<1>12. ASSUME NEW s \in Slots, Press(s) PROVE IPreview'
  <2>1. \A r \in Slots : calls'[r] = IF r = s THEN [op |-> "commit", staging |-> shown.staging,
                                                  seen |-> shown.code, copy |-> counts.copies + 1]
                                   ELSE calls[r]
    BY <1>12, CallStays DEF TypeOK, Press
  <2>2. shown \in Previews /\ Known(shown)
    BY <1>12 DEF Press, TypeOK, Known
  <2>3. \A p \in Previews : Known(p)' => Known(p)
    BY <1>12, <2>1 DEF Press, Known
  <2>4. counts'.previews = counts.previews
    BY <1>12 DEF Press, Counted, TypeOK
  <2>5. OwnStaging'
    BY <2>3, <2>4 DEF IPreview, OwnStaging
  <2>6. PressedIsShown'
    BY <2>1, <2>2, <2>3, <2>4 DEF IPreview, OwnStaging, PressedIsShown
  <2>7. InstalledIsPreviewed'
    BY <2>1 DEF IPreview, InstalledIsPreviewed
  <2> QED
    BY <2>5, <2>6, <2>7 DEF IPreview
<1>13. ASSUME NEW s \in Slots, Write(s) PROVE IPreview'
  <2> DEFINE held == Held(calls[s].staging)
             new == [code |-> held.code, trusted |-> None, fresh |-> TRUE, copy |-> calls[s].copy]
             call == [op |-> "written", new |-> new, seen |-> calls[s].seen]
  <2>1. shown' = shown /\ replies' = replies /\ staged' \in {staged, None} /\ counts'.previews = counts.previews
    BY <1>13, <1>f DEF Write
  <2>2. CASE Step(s, Idle)
    BY <1>i, <2>1, <2>2, RequestMovesOn, PreviewsKept
  <2>3. CASE held # None /\ Step(s, call)
    <3>1. \A r \in Slots : calls'[r] = IF r = s THEN call ELSE calls[r]
      BY <2>3, CallStays DEF TypeOK
    <3>2. held \in Previews /\ Known(held) /\ held.staging = calls[s].staging
      BY <2>3 DEF Held, Known, TypeOK
    <3>3. held.code = calls[s].seen
      BY <1>13, <3>2 DEF Write, IPreview, PressedIsShown
    <3>4. \A p \in Previews : Known(p)' => Known(p)
      BY <2>1, <3>1, AbsenceAssumption DEF Known
    <3>5. OwnStaging'
      BY <2>1, <3>4 DEF IPreview, OwnStaging
    <3>6. PressedIsShown'
      BY <2>1, <3>1, <3>4 DEF IPreview, PressedIsShown
    <3>7. InstalledIsPreviewed'
      BY <3>1, <3>3 DEF IPreview, InstalledIsPreviewed
    <3> QED
      BY <3>5, <3>6, <3>7 DEF IPreview
  <2> QED
    BY <1>13, <2>2, <2>3 DEF Write, Ends
<1>14. ASSUME NEW s \in Slots, MoveAside(s) PROVE IPreview'
  BY <1>14, <1>f, <1>i, RequestMovesOn, PreviewsKept DEF MoveAside, Ends
<1>15. ASSUME NEW s \in Slots, Rename(s) PROVE IPreview'
  BY <1>15, <1>f, <1>i, RequestMovesOn, PreviewsKept DEF Rename, Ends
<1>16. ASSUME NEW s \in Slots, Uninstall(s) PROVE IPreview'
  BY <1>0, <1>16, <1>f DEF Uninstall
<1>17. ASSUME NEW s \in Slots, SetTrust(s) PROVE IPreview'
  BY <1>17, RequestMovesOn, PreviewsKept DEF SetTrust
<1>18. ASSUME NEW s \in Slots, Answer(s) PROVE IPreview'
  BY <1>18, <1>i, RequestMovesOn, PreviewsKept DEF Answer, Ends
<1>19. ASSUME NEW s \in Slots, Record(s) PROVE IPreview'
  BY <1>19, <1>f, <1>i, RequestMovesOn, PreviewsKept DEF Record, Ends
<1>20. CASE UNCHANGED vars
  BY <1>0, <1>20 DEF vars
<1> QED
  BY <1>1, <1>2, <1>3, <1>4, <1>5, <1>6, <1>7, <1>8, <1>9, <1>10, <1>11, <1>12, <1>13,
     <1>14, <1>15, <1>16, <1>17, <1>18, <1>19, <1>20 DEF Next
-----------------------------------------------------------------------------
\* Before the window is there a start is alone with the disk.
LEMMA QuietStep == TypeOK /\ StartsQuietly /\ [Next]_vars => StartsQuietly'
<1> SUFFICES ASSUME TypeOK, StartsQuietly, [Next]_vars PROVE StartsQuietly'
  OBVIOUS
<1> USE DEF disk, session, previews, history, TypeOK, StartsQuietly, Session, Open
<1>i. Idle.op = "idle"
  BY DEF Idle
<1>1. CASE Launch
  BY <1>1, <1>i DEF Launch, Hydrate, Discovered
<1>2. CASE Quench
  BY <1>2, <1>i DEF Quench, Saved, Degraded, Refused
<1>3. CASE Unmark
  BY <1>3, <1>i DEF Unmark
<1>4. CASE Show
  BY <1>4, <1>i DEF Show
<1>5. CASE Cancel
  BY <1>5, <1>i DEF Cancel
<1>6. CASE Toggle
  BY <1>6, <1>i DEF Toggle, Saved, Degraded, Refused
<1>7. CASE Edit
  <2>1. folder' \in Folders /\ folder'.copy = folder.copy /\ folder'.fresh = folder.fresh
    BY <1>7 DEF Edit, Folders
  <2> QED
    BY <1>7, <2>1, AbsenceAssumption DEF Edit
<1>8. CASE Crash
  BY <1>8, <1>i DEF Crash
<1>9. ASSUME NEW s \in Slots, Preview(s) PROVE StartsQuietly'
  BY <1>9, <1>i DEF Preview
<1>10. ASSUME NEW s \in Slots, FetchFails(s) PROVE StartsQuietly'
  BY <1>10, <1>i DEF FetchFails, Ends
<1>11. ASSUME NEW s \in Slots, Stage(s) PROVE StartsQuietly'
  BY <1>11, <1>i DEF Stage, Ends
<1>12. ASSUME NEW s \in Slots, Press(s) PROVE StartsQuietly'
  BY <1>12, <1>i DEF Press
<1>13. ASSUME NEW s \in Slots, Write(s) PROVE StartsQuietly'
  BY <1>13, <1>i DEF Write, Ends
<1>14. ASSUME NEW s \in Slots, MoveAside(s) PROVE StartsQuietly'
  BY <1>14, <1>i DEF MoveAside, Ends
<1>15. ASSUME NEW s \in Slots, Rename(s) PROVE StartsQuietly'
  BY <1>15, <1>i DEF Rename, Ends
<1>16. ASSUME NEW s \in Slots, Uninstall(s) PROVE StartsQuietly'
  BY <1>16, <1>i DEF Uninstall
<1>17. ASSUME NEW s \in Slots, SetTrust(s) PROVE StartsQuietly'
  BY <1>17, <1>i DEF SetTrust
<1>18. ASSUME NEW s \in Slots, Answer(s) PROVE StartsQuietly'
  BY <1>18, <1>i DEF Answer, Ends, Ghost
<1>19. ASSUME NEW s \in Slots, Record(s) PROVE StartsQuietly'
  BY <1>19, <1>i DEF Record, Ends
<1>20. CASE UNCHANGED vars
  BY <1>20 DEF vars
<1> QED
  BY <1>1, <1>2, <1>3, <1>4, <1>5, <1>6, <1>7, <1>8, <1>9, <1>10, <1>11, <1>12, <1>13,
     <1>14, <1>15, <1>16, <1>17, <1>18, <1>19, <1>20
     DEF Next

\* Every record says what the reader said, wherever a rename leaves its folder.
LEMMA RecordsStep ==
  TypeOK /\ StartsQuietly /\ RecordsAreGiven /\ [Next]_vars => RecordsAreGiven'
<1> SUFFICES ASSUME TypeOK, StartsQuietly, RecordsAreGiven, [Next]_vars PROVE RecordsAreGiven'
  OBVIOUS
<1> USE DEF disk, session, previews, history, TypeOK, RecordsAreGiven, Given, Folders,
            Step
<1>i. Idle.op = "idle"
  BY DEF Idle
<1>1. CASE Launch
  BY <1>1, <1>i DEF Launch, Hydrate, Discovered
<1>2. CASE Quench
  BY <1>2, <1>i DEF Quench, Saved, Degraded, Refused
<1>3. CASE Unmark
  BY <1>3, <1>i DEF Unmark, StartsQuietly
<1>4. CASE Show
  BY <1>4, <1>i DEF Show
<1>5. CASE Cancel
  BY <1>5, <1>i DEF Cancel
<1>6. CASE Toggle
  BY <1>6, <1>i DEF Toggle, Saved, Degraded, Refused
<1>7. CASE Edit
  BY <1>7, <1>i DEF Edit
<1>8. CASE Crash
  BY <1>8, <1>i DEF Crash
<1>9. ASSUME NEW s \in Slots, Preview(s) PROVE RecordsAreGiven'
  BY <1>9, <1>i DEF Preview
<1>10. ASSUME NEW s \in Slots, FetchFails(s) PROVE RecordsAreGiven'
  BY <1>10, <1>i DEF FetchFails, Ends
<1>11. ASSUME NEW s \in Slots, Stage(s) PROVE RecordsAreGiven'
  BY <1>11, <1>i DEF Stage, Ends
<1>12. ASSUME NEW s \in Slots, Press(s) PROVE RecordsAreGiven'
  BY <1>12, <1>i DEF Press
<1>13. ASSUME NEW s \in Slots, Write(s) PROVE RecordsAreGiven'
  BY <1>13, <1>i DEF Write, Ends
<1>14. ASSUME NEW s \in Slots, MoveAside(s) PROVE RecordsAreGiven'
  BY <1>14, <1>i DEF MoveAside, Ends
<1>15. ASSUME NEW s \in Slots, Rename(s) PROVE RecordsAreGiven'
  BY <1>15, <1>i DEF Rename, Ends
<1>16. ASSUME NEW s \in Slots, Uninstall(s) PROVE RecordsAreGiven'
  BY <1>16, <1>i DEF Uninstall
<1>17. ASSUME NEW s \in Slots, SetTrust(s) PROVE RecordsAreGiven'
  BY <1>17, <1>i DEF SetTrust
<1>18. ASSUME NEW s \in Slots, Answer(s) PROVE RecordsAreGiven'
  BY <1>18, <1>i DEF Answer, Ends, Ghost
<1>19. ASSUME NEW s \in Slots, Record(s) PROVE RecordsAreGiven'
  BY <1>19, <1>i DEF Record, Ends
<1>20. CASE UNCHANGED vars
  BY <1>20 DEF vars
<1> QED
  BY <1>1, <1>2, <1>3, <1>4, <1>5, <1>6, <1>7, <1>8, <1>9, <1>10, <1>11, <1>12, <1>13,
     <1>14, <1>15, <1>16, <1>17, <1>18, <1>19, <1>20
     DEF Next

\* A folder is switched on only with its copy: what arrives is marked, and the
\* first start switches off what is marked.
LEMMA NewCodeStep ==
  TypeOK /\ StartsQuietly /\ OffUntilSwitchedOn /\ [Next]_vars => OffUntilSwitchedOn'
<1> SUFFICES ASSUME TypeOK, StartsQuietly, OffUntilSwitchedOn, [Next]_vars PROVE OffUntilSwitchedOn'
  OBVIOUS
<1> USE DEF disk, session, previews, history, TypeOK, OffUntilSwitchedOn, StartsQuietly,
            StartsAllowed, ArrivalsAreMarked, WantedIsAllowed, MayStart, Allowed, Unmarked,
            Session, Open, Folders, Step
<1>i. Idle.op = "idle"
  BY DEF Idle
<1>1. CASE Launch
  BY <1>1, <1>i DEF Launch, Hydrate, Discovered
<1>2. CASE Quench
  BY <1>2, <1>i DEF Quench, Saved, Degraded, Refused
<1>3. CASE Unmark
  BY <1>3, <1>i DEF Unmark
<1>4. CASE Show
  BY <1>4, <1>i DEF Show
<1>5. CASE Cancel
  BY <1>5, <1>i DEF Cancel
<1>6. CASE Toggle
  BY <1>6, <1>i DEF Toggle, Saved, Degraded, Refused
<1>7. CASE Edit
  BY <1>7, <1>i DEF Edit
<1>8. CASE Crash
  BY <1>8, <1>i DEF Crash
<1>9. ASSUME NEW s \in Slots, Preview(s) PROVE OffUntilSwitchedOn'
  BY <1>9, <1>i DEF Preview
<1>10. ASSUME NEW s \in Slots, FetchFails(s) PROVE OffUntilSwitchedOn'
  BY <1>10, <1>i DEF FetchFails, Ends
<1>11. ASSUME NEW s \in Slots, Stage(s) PROVE OffUntilSwitchedOn'
  BY <1>11, <1>i DEF Stage, Ends
<1>12. ASSUME NEW s \in Slots, Press(s) PROVE OffUntilSwitchedOn'
  BY <1>12, <1>i DEF Press
<1>13. ASSUME NEW s \in Slots, Write(s) PROVE OffUntilSwitchedOn'
  BY <1>13, <1>i DEF Write, Ends
<1>14. ASSUME NEW s \in Slots, MoveAside(s) PROVE OffUntilSwitchedOn'
  BY <1>14, <1>i DEF MoveAside, Ends
<1>15. ASSUME NEW s \in Slots, Rename(s) PROVE OffUntilSwitchedOn'
  BY <1>15, <1>i DEF Rename, Ends
<1>16. ASSUME NEW s \in Slots, Uninstall(s) PROVE OffUntilSwitchedOn'
  BY <1>16, <1>i DEF Uninstall
<1>17. ASSUME NEW s \in Slots, SetTrust(s) PROVE OffUntilSwitchedOn'
  BY <1>17, <1>i DEF SetTrust
<1>18. ASSUME NEW s \in Slots, Answer(s) PROVE OffUntilSwitchedOn'
  BY <1>18, <1>i DEF Answer, Ends, Ghost
<1>19. ASSUME NEW s \in Slots, Record(s) PROVE OffUntilSwitchedOn'
  BY <1>19, <1>i DEF Record, Ends
<1>20. CASE UNCHANGED vars
  BY <1>20 DEF vars
<1> QED
  BY <1>1, <1>2, <1>3, <1>4, <1>5, <1>6, <1>7, <1>8, <1>9, <1>10, <1>11, <1>12, <1>13,
     <1>14, <1>15, <1>16, <1>17, <1>18, <1>19, <1>20
     DEF Next

-----------------------------------------------------------------------------
\* Nothing has started, nothing is trusted, and the one plugin is switched on.
LEMMA QuietInit == Init => StartsQuietly /\ RecordsAreGiven /\ OffUntilSwitchedOn
<1> SUFFICES ASSUME Init PROVE StartsQuietly /\ RecordsAreGiven /\ OffUntilSwitchedOn
  OBVIOUS
<1>1. \A s \in Slots : calls[s] = Idle /\ Idle.op = "idle"
  BY DEF Init, Idle
<1>2. PICK c \in Codes : folder = [code |-> c, trusted |-> None, fresh |-> FALSE, copy |-> 0]
  BY DEF Init
<1>3. StartsQuietly
  BY <1>1 DEF Init, StartsQuietly, Session
<1>4. RecordsAreGiven
  BY <1>1, <1>2 DEF Init, RecordsAreGiven, Given
<1>5. OffUntilSwitchedOn
  BY <1>1, <1>2 DEF Init, OffUntilSwitchedOn, StartsAllowed, ArrivalsAreMarked, WantedIsAllowed,
      MayStart, Allowed, Unmarked, Session
<1> QED
  BY <1>3, <1>4, <1>5

-----------------------------------------------------------------------------
IInstalls == TypeOK /\ StartsQuietly /\ IPreview /\ RecordsAreGiven /\ OffUntilSwitchedOn

\* All of it together is inductive.
LEMMA InstallsInvariant == Spec => []IInstalls
<1>1. Init => IInstalls
  BY TypeInit, PreviewInit, QuietInit DEF IInstalls
<1>2. IInstalls /\ [Next]_vars => IInstalls'
  BY TypeStep, QuietStep, PreviewStep, RecordsStep, NewCodeStep DEF IInstalls
<1> QED
  BY <1>1, <1>2, PTL DEF Spec

\* Whatever the installer and the starts do to each other, the plugins root,
\* the state file and the requests in hand stay what they are declared to be.
THEOREM TypesHold == Spec => []TypeOK
<1>1. IInstalls => TypeOK
  BY DEF IInstalls
<1> QED
  BY <1>1, InstallsInvariant, PTL

\* What an install writes is the code the preview on screen showed when it was
\* pressed (plugin-installer.ts:29), however many previews were fetched, shown
\* and dropped since.
THEOREM InstalledWasPreviewed == Spec => []InstalledIsPreviewed
<1>1. IInstalls => InstalledIsPreviewed
  BY DEF IInstalls, IPreview
<1> QED
  BY <1>1, InstallsInvariant, PTL

\* What runs with the app's own access is code the reader said yes to in main's
\* own dialog (install-record.ts:8), however updates, edits by hand, uninstalls
\* and records written late fall together.
THEOREM FullTrustIsTheReaders == Spec => []FullTrustWasGiven
<1>1. IInstalls => FullTrustWasGiven
  BY DEF IInstalls, RecordsAreGiven, Given, FullTrustWasGiven, MayRun, TrustedFully
<1> QED
  BY <1>1, InstallsInvariant, PTL

\* A copy that may run is one the reader has switched on, unless the save that
\* switched it off at its first start failed or did not last (main.ts:412),
\* through any crashes, failed renames and updates.
THEOREM NewCodeStaysOff == Spec => []NewCodeIsOffOnceSaved
<1>1. IInstalls => NewCodeIsOffOnceSaved
  BY DEF IInstalls, OffUntilSwitchedOn, WantedIsAllowed, Allowed, NewCodeIsOffOnceSaved, MayRun
<1> QED
  BY <1>1, InstallsInvariant, PTL

-----------------------------------------------------------------------------
(***************************************************************************)
(* The host of isolated runtimes, which shares no state with the installs. *)
(***************************************************************************)
\* What holds of one runtime's record: its process is registered when it is
\* accepted, stays so until the cleanup has gone through all of its steps, and
\* the first of those takes the window.
Sound(r) ==
    /\ r.at = "none" => r.pid = None
    /\ r.at \in {"none", "registering", "live"} => r.receipts = 0
    /\ r.receipts = 4 => r.at = "closed"
    /\ r.receipts # 0 => r.window = "gone"
    /\ r.at = "closed" => r.window = "gone"
    /\ r.launch = "handle" /\ r.at # "closed" => r.pid # None
    /\ r.pid # None => r.pid = r.os /\ r.os # Editor

\* No process is registered twice.
Apart == \A j, k \in Host!Runtimes :
    j # k /\ runtime[k].pid # None => runtime[j].pid # runtime[k].pid

IHost == Host!TypeOK /\ (\A k \in Host!Runtimes : Sound(runtime[k])) /\ Apart

\* Closing a record changes neither its process nor its window.
LEMMA ClosedIsSound ==
  ASSUME NEW r \in Host!Runtime, Sound(r), NEW failure \in BOOLEAN
  PROVE  /\ Host!Close(r, failure) \in Host!Runtime
         /\ Sound(Host!Close(r, failure))
         /\ Host!Close(r, failure).pid = r.pid
<1> DEFINE c == Host!Close(r, failure)
<1>1. CASE r.at \notin {"live", "closing", "cleanup-failed"}
  BY <1>1 DEF Host!Close
<1>2. CASE r.at \in {"live", "closing", "cleanup-failed"}
  <2>1. c = [r EXCEPT !.at = "closing", !.failed = @ \/ (failure /\ r.launch = "pending"),
                      !.abort = IF @ = "asked" THEN "ended" ELSE @]
    BY <1>2 DEF Host!Close
  <2>2. (r.failed \/ (failure /\ r.launch = "pending")) \in BOOLEAN
    OBVIOUS
  <2>3. c \in Host!Runtime
    BY <2>1, <2>2 DEF Host!Runtime
  <2>4. c.at = "closing" /\ c.pid = r.pid /\ c.os = r.os /\ c.window = r.window
        /\ c.receipts = r.receipts /\ c.launch = r.launch
    BY <2>1 DEF Host!Runtime
  <2> QED
    BY <1>2, <2>3, <2>4 DEF Sound
<1> QED
  BY <1>1, <1>2

\* One record changes, and registers no process another has.
LEMMA HostBecomes ==
  ASSUME IHost, NEW k \in Host!Runtimes, NEW r \in Host!Runtime, Sound(r),
         r.pid # None => \A j \in Host!Runtimes \ {k} : runtime[j].pid # r.pid,
         runtime' = [runtime EXCEPT ![k] = r], down' = down, faults' \in 0..MaxFaults
  PROVE  IHost'
<1>1. runtime \in [Host!Runtimes -> Host!Runtime]
  BY DEF IHost, Host!TypeOK
<1>2. runtime' \in [Host!Runtimes -> Host!Runtime]
  BY <1>1
<1>3. Host!TypeOK'
  BY <1>2 DEF IHost, Host!TypeOK
<1>4. runtime'[k] = r /\ \A j \in Host!Runtimes \ {k} : runtime'[j] = runtime[j]
  BY <1>1
<1>5. \A j \in Host!Runtimes : Sound(runtime'[j])
  BY <1>4 DEF IHost
<1>6. Apart'
  BY <1>4 DEF IHost, Apart
<1> QED
  BY <1>3, <1>5, <1>6 DEF IHost, Sound

\* One record is as it was in what the process depends on.
LEMMA HostKeeps ==
  ASSUME IHost, NEW k \in Host!Runtimes, NEW r \in Host!Runtime, Sound(r),
         r.pid \in {None, runtime[k].pid}, Host!Become(k, r)
  PROVE  IHost'
<1>1. r.pid # None => \A j \in Host!Runtimes \ {k} : runtime[j].pid # r.pid
  BY DEF IHost, Apart
<1>2. faults' \in 0..MaxFaults
  BY DEF Host!Become, IHost, Host!TypeOK
<1> QED
  BY <1>1, <1>2, HostBecomes DEF Host!Become

\* No step of the host's gives up a process whose window is there.
LEMMA HostStep == IHost /\ [Host!Next]_hostVars => IHost'
<1> SUFFICES ASSUME IHost, [Host!Next]_hostVars PROVE IHost'
  OBVIOUS
<1>r. \A k \in Host!Runtimes : runtime[k] \in Host!Runtime /\ Sound(runtime[k])
  BY DEF IHost, Host!TypeOK
<1>f. faults \in 0..MaxFaults
  BY DEF IHost, Host!TypeOK
<1>1. ASSUME NEW k \in Host!Runtimes, NEW process \in Processes, Host!Launch(k, process)
      PROVE IHost'
  <2> DEFINE r == [runtime[k] EXCEPT !.at = "registering", !.window = "open",
                                     !.os = process, !.launch = "pending"]
  <2>1. r \in Host!Runtime /\ r.pid = runtime[k].pid
    BY <1>r DEF Host!Runtime
  <2>2. Sound(r)
    BY <1>1, <1>r DEF Host!Launch, Host!Runtime, Sound
  <2> QED
    BY <1>1, <2>1, <2>2, HostKeeps DEF Host!Launch
<1>2. ASSUME NEW k \in Host!Runtimes, Host!Registered(k) PROVE IHost'
  <2> DEFINE r == [runtime[k] EXCEPT !.at = "live"]
  <2>1. r \in Host!Runtime /\ r.pid = runtime[k].pid
    BY <1>r DEF Host!Runtime
  <2>2. Sound(r)
    BY <1>2, <1>r DEF Host!Registered, Host!Runtime, Sound
  <2> QED
    BY <1>2, <2>1, <2>2, HostKeeps DEF Host!Registered
<1>3. ASSUME NEW k \in Host!Runtimes, NEW failure \in BOOLEAN,
             Host!Become(k, Host!Close(runtime[k], failure))
      PROVE IHost'
  <2> DEFINE r == Host!Close(runtime[k], failure)
  <2>1. r \in Host!Runtime /\ Sound(r) /\ r.pid = runtime[k].pid
    BY <1>r, ClosedIsSound
  <2> HIDE DEF r
  <2> QED
    BY <1>3, <2>1, HostKeeps DEF r
<1>4. ASSUME NEW k \in Host!Runtimes, Host!Loaded(k) PROVE IHost'
  <2>1. CASE Host!Collides(k)
    BY <1>3, <1>4, <2>1 DEF Host!Loaded
  <2>2. CASE ~Host!Collides(k)
    <3> DEFINE r == [runtime[k] EXCEPT !.pid = runtime[k].os]
    <3>1. r \in Host!Runtime /\ r.pid = runtime[k].os
      BY <1>r DEF Host!Runtime
    <3>2. Sound(r)
      BY <1>4, <2>2, <1>r DEF Host!Loaded, Host!Live, Host!Collides, Host!Runtime, Sound
    <3>3. \A j \in Host!Runtimes \ {k} : runtime[j].pid # r.pid
      BY <2>2, <3>1 DEF Host!Collides
    <3>4. Host!Become(k, r)
      BY <1>4, <2>2 DEF Host!Loaded
    <3> HIDE DEF r
    <3> QED
      BY <3>1, <3>2, <3>3, <3>4, <1>f, HostBecomes DEF Host!Become
  <2> QED
    BY <2>1, <2>2
<1>5. ASSUME NEW k \in Host!Runtimes, Host!Polled(k) PROVE IHost'
  <2>1. CASE runtime[k].probe \in {"passed", "aborted"}
    <3> DEFINE r == [runtime[k] EXCEPT !.launch = "handle"]
    <3>1. r \in Host!Runtime /\ r.pid = runtime[k].pid
      BY <1>r DEF Host!Runtime
    <3>2. Sound(r)
      BY <1>5, <1>r DEF Host!Polled, Host!Live, Host!Runtime, Sound
    <3> QED
      BY <1>5, <2>1, <3>1, <3>2, HostKeeps DEF Host!Polled
  <2>2. CASE runtime[k].probe \notin {"passed", "aborted"}
    BY <1>3, <1>5, <2>2 DEF Host!Polled
  <2> QED
    BY <2>1, <2>2
<1>6. ASSUME NEW k \in Host!Runtimes, Host!ReadyTimesOut(k) PROVE IHost'
  BY <1>3, <1>6 DEF Host!ReadyTimesOut
<1>7. ASSUME NEW k \in Host!Runtimes, Host!Lost(k) PROVE IHost'
  <2>1. PICK window \in {"open", "gone"} :
          Host!Become(k, [Host!Close(runtime[k], TRUE) EXCEPT !.window = window])
    BY <1>7 DEF Host!Lost
  <2> DEFINE c == Host!Close(runtime[k], TRUE)
             r == [c EXCEPT !.window = window]
  <2>2. c \in Host!Runtime /\ Sound(c) /\ c.pid = runtime[k].pid
    BY <1>r, ClosedIsSound
  <2>3. c.at = "closing" /\ c.receipts = 0
    BY <1>7, <1>r DEF Host!Lost, Host!Live, Host!Close, Host!Runtime, Sound
  <2> HIDE DEF c
  <2>4. r \in Host!Runtime /\ r.pid = runtime[k].pid
    BY <2>2 DEF Host!Runtime
  <2>5. Sound(r)
    BY <2>2, <2>3 DEF Host!Runtime, Sound
  <2> HIDE DEF r
  <2> QED
    BY <2>1, <2>4, <2>5, HostKeeps DEF r, c
<1>9. ASSUME NEW k \in Host!Runtimes, NEW kind \in Host!Messages, Host!Message(k, kind)
      PROVE IHost'
  <2> DEFINE refused == kind = "invalid" \/ (kind = "ack" /\ runtime[k].abort # "asked")
  <2>1. CASE refused
    BY <1>3, <1>9, <2>1 DEF Host!Message
  <2>2. CASE ~refused /\ kind = "ack"
    <3> DEFINE r == [runtime[k] EXCEPT !.abort = "acked"]
    <3>1. r \in Host!Runtime /\ Sound(r) /\ r.pid = runtime[k].pid
      BY <1>r DEF Host!Runtime, Sound
    <3> QED
      BY <1>9, <2>2, <3>1, HostKeeps DEF Host!Message
  <2>3. CASE ~refused /\ kind # "ack"
    <3> DEFINE r == [runtime[k] EXCEPT !.probe = kind]
    <3>1. kind \in {"failed", "passed", "aborted"}
      BY <2>3 DEF Host!Messages
    <3>2. r \in Host!Runtime /\ Sound(r) /\ r.pid = runtime[k].pid
      BY <1>r, <3>1 DEF Host!Runtime, Sound
    <3>3. Host!Become(k, r)
      BY <1>9, <2>3 DEF Host!Message
    <3> HIDE DEF r
    <3> QED
      BY <3>2, <3>3, HostKeeps
  <2> QED
    BY <2>1, <2>2, <2>3
<1>10. ASSUME NEW k \in Host!Runtimes, NEW abort \in {"asked", "acked", "ended"},
              Host!Become(k, [runtime[k] EXCEPT !.abort = abort])
       PROVE IHost'
  <2> DEFINE r == [runtime[k] EXCEPT !.abort = abort]
  <2>1. r \in Host!Runtime /\ Sound(r) /\ r.pid = runtime[k].pid
    BY <1>r DEF Host!Runtime, Sound
  <2> QED
    BY <1>10, <2>1, HostKeeps
<1>11. ASSUME NEW k \in Host!Runtimes,
              Host!Become(k, Host!Close([runtime[k] EXCEPT !.abort = "ended"], TRUE))
       PROVE IHost'
  <2> DEFINE a == [runtime[k] EXCEPT !.abort = "ended"]
             r == Host!Close(a, TRUE)
  <2>1. a \in Host!Runtime /\ Sound(a) /\ a.pid = runtime[k].pid
    BY <1>r DEF Host!Runtime, Sound
  <2> HIDE DEF a
  <2>2. r \in Host!Runtime /\ Sound(r) /\ r.pid = runtime[k].pid
    BY <2>1, ClosedIsSound
  <2>3. Host!Become(k, r)
    BY <1>11 DEF a
  <2> HIDE DEF r
  <2> QED
    BY <2>2, <2>3, HostKeeps
<1>12. ASSUME NEW k \in Host!Runtimes, Host!Abort(k) PROVE IHost'
  <2>1. CASE Host!Live(k) /\ runtime[k].window = "open"
    BY <1>10, <1>12, <2>1 DEF Host!Abort
  <2>2. CASE ~(Host!Live(k) /\ runtime[k].window = "open")
    BY <1>10, <1>12, <2>2 DEF Host!Abort
  <2> QED
    BY <2>1, <2>2
<1>13. ASSUME NEW k \in Host!Runtimes, Host!AbortTimesOut(k) PROVE IHost'
  BY <1>11, <1>13 DEF Host!AbortTimesOut
<1>14. ASSUME NEW k \in Host!Runtimes, Host!AbortEnds(k) PROVE IHost'
  <2>1. CASE runtime[k].probe = "aborted"
    BY <1>10, <1>14, <2>1 DEF Host!AbortEnds
  <2>2. CASE runtime[k].probe # "aborted"
    BY <1>11, <1>14, <2>2 DEF Host!AbortEnds
  <2> QED
    BY <2>1, <2>2
<1>15. ASSUME NEW k \in Host!Runtimes, Host!Destroy(k) PROVE IHost'
  BY <1>3, <1>15 DEF Host!Destroy
<1>16. ASSUME NEW k \in Host!Runtimes, Host!CleanupStep(k) PROVE IHost'
  <2> DEFINE o == runtime[k]
             r == Host!AfterStep(o)
  <2>1. o \in Host!Runtime /\ Sound(o) /\ o.at = "closing"
    BY <1>r, <1>16 DEF Host!CleanupStep
  <2> HIDE DEF o
  <2>2. o.receipts \in {0, 1, 2, 3}
    BY <2>1 DEF Host!Runtime, Sound
  <2>4. ASSUME o.receipts = 0
        PROVE r \in Host!Runtime /\ Sound(r) /\ r.pid \in {None, o.pid}
    <3>1. r = [o EXCEPT !.receipts = 1, !.window = "gone"]
      BY <2>1, <2>4 DEF Host!AfterStep, Host!Runtime
    <3>2. r \in Host!Runtime
      <4>1. 1 \in 0..4
        OBVIOUS
      <4>2. \A n \in 0..4 : [o EXCEPT !.receipts = n, !.window = "gone"] \in Host!Runtime
        BY <2>1 DEF Host!Runtime
      <4> QED
        BY <3>1, <4>1, <4>2
    <3>3. r.at = "closing" /\ r.pid = o.pid /\ r.os = o.os /\ r.window = "gone" /\ r.receipts = 1
          /\ r.launch = o.launch
      BY <3>1, <2>1 DEF Host!Runtime
    <3> QED
      BY <3>2, <3>3, <2>1 DEF Sound
  <2>5. ASSUME o.receipts \in {1, 2}
        PROVE r \in Host!Runtime /\ Sound(r) /\ r.pid \in {None, o.pid}
    <3>1. r = [o EXCEPT !.receipts = o.receipts + 1]
      BY <2>5 DEF Host!AfterStep
    <3>2. o.receipts + 1 \in {2, 3} /\ o.receipts + 1 \in 0..4
      BY <2>5
    <3> QED
      BY <3>1, <3>2, <2>1, <2>5 DEF Host!Runtime, Sound
  <2>6. ASSUME o.receipts = 3
        PROVE r \in Host!Runtime /\ Sound(r) /\ r.pid \in {None, o.pid}
    <3> DEFINE left == IF o.abort = "acked" THEN o.probe ELSE "none"
               heard == IF o.launch = "pending" /\ o.failed THEN "rejected" ELSE o.launch
    <3>1. r = [[o EXCEPT !.receipts = o.receipts + 1] EXCEPT
                  !.at = "closed", !.pid = None, !.os = None, !.failed = FALSE,
                  !.probe = left, !.launch = heard]
      BY <2>1, <2>6 DEF Host!AfterStep, Host!Runtime
    <3>2. /\ left \in {"none", "failed", "passed", "aborted"}
          /\ heard \in {"none", "pending", "handle", "rejected"}
          /\ o.receipts + 1 \in 0..4
      BY <2>1, <2>6 DEF Host!Runtime
    <3> HIDE DEF left, heard
    <3>3. r.at = "closed" /\ r.pid = None /\ r.window = o.window /\ r.receipts = o.receipts + 1
      BY <3>1, <2>1 DEF Host!Runtime
    <3>4. r \in Host!Runtime
      <4> DEFINE counted == [o EXCEPT !.receipts = o.receipts + 1]
                 freed == [counted EXCEPT !.at = "closed", !.pid = None, !.os = None]
      <4>1. counted \in Host!Runtime
        BY <3>2, <2>1 DEF Host!Runtime
      <4>2. freed \in Host!Runtime
        <5> HIDE DEF counted
        <5> QED
          BY <4>1 DEF Host!Runtime
      <4>3. [freed EXCEPT !.failed = FALSE] \in Host!Runtime
        <5> HIDE DEF freed
        <5> QED
          BY <4>2 DEF Host!Runtime
      <4> DEFINE quiet == [freed EXCEPT !.failed = FALSE]
      <4>4. r = [quiet EXCEPT !.probe = left, !.launch = heard]
        BY <3>1
      <4>5. quiet \in Host!Runtime
        BY <4>3
      <4> HIDE DEF quiet, r
      <4> QED
        BY <3>2, <4>5, <4>4 DEF Host!Runtime
    <3>5. o.window = "gone"
      BY <2>1, <2>6 DEF Sound
    <3> QED
      BY <3>3, <3>4, <3>5 DEF Sound
  <2>7. r \in Host!Runtime /\ Sound(r) /\ r.pid \in {None, o.pid}
    BY <2>2, <2>4, <2>5, <2>6
  <2>8. Host!Become(k, r)
    BY <1>16 DEF Host!CleanupStep, o
  <2> HIDE DEF r
  <2> QED
    BY <2>7, <2>8, HostKeeps DEF o
<1>17. ASSUME NEW k \in Host!Runtimes, Host!CleanupFails(k) PROVE IHost'
  <2> DEFINE heard == IF runtime[k].launch = "pending" THEN "rejected" ELSE runtime[k].launch
             r == [runtime[k] EXCEPT !.at = "cleanup-failed", !.launch = heard]
  <2>h. heard \in {"none", "handle", "rejected"} /\ (heard = "handle" => runtime[k].launch = "handle")
    BY <1>r DEF Host!Runtime
  <2> HIDE DEF heard
  <2>1. r \in Host!Runtime /\ r.pid = runtime[k].pid
    BY <1>r, <2>h DEF Host!Runtime
  <2>2. Sound(r)
    BY <1>17, <1>r, <2>h DEF Host!CleanupFails, Host!Runtime, Sound
  <2>3. runtime' = [runtime EXCEPT ![k] = r]
    BY <1>17 DEF Host!CleanupFails, IHost, Host!TypeOK, heard
  <2>4. faults' \in 0..MaxFaults
    BY <1>17, <1>f, InstallConstants DEF Host!CleanupFails
  <2>5. r.pid # None => \A j \in Host!Runtimes \ {k} : runtime[j].pid # r.pid
    BY <2>1 DEF IHost, Apart
  <2>6. down' = down
    BY <1>17 DEF Host!CleanupFails
  <2> HIDE DEF r
  <2> QED
    BY <2>1, <2>2, <2>3, <2>4, <2>5, <2>6, HostBecomes
<1>18. ASSUME NEW at \in {"first", "second"}, Host!CloseAll(at) PROVE IHost'
  <2>1. \A k \in Host!Runtimes :
          /\ runtime'[k] \in Host!Runtime /\ Sound(runtime'[k])
          /\ runtime'[k].pid = runtime[k].pid
    BY <1>18, <1>r, ClosedIsSound DEF Host!CloseAll
  <2>2. runtime' \in [Host!Runtimes -> Host!Runtime]
    BY <1>18, <2>1 DEF Host!CloseAll
  <2>3. down' \in [at : {"none", "first", "second", "done", "failed"}, keys : SUBSET Host!Runtimes]
    BY <1>18 DEF Host!CloseAll, Host!Recorded, IHost, Host!TypeOK
  <2>4. Host!TypeOK'
    BY <1>18, <1>f, <2>2, <2>3 DEF Host!CloseAll, Host!TypeOK
  <2>5. Apart'
    BY <2>1 DEF IHost, Apart
  <2> QED
    BY <2>1, <2>4, <2>5 DEF IHost, Sound
<1>19. ASSUME UNCHANGED <<runtime, faults>>,
              down' \in [at : {"none", "first", "second", "done", "failed"}, keys : SUBSET Host!Runtimes]
       PROVE IHost'
  BY <1>19 DEF IHost, Host!TypeOK, Sound, Apart
<1>20. CASE Host!Shutdown
  BY <1>18, <1>20 DEF Host!Shutdown
<1>21. CASE Host!ShutdownGoesOn
  <2>1. CASE Host!CloseAll("second")
    BY <1>18, <2>1
  <2>2. CASE /\ down' = [down EXCEPT !.at = IF Host!Recorded = {} THEN "done" ELSE "failed"]
             /\ UNCHANGED <<runtime, faults>>
    BY <1>19, <2>2 DEF IHost, Host!TypeOK
  <2> QED
    BY <1>21, <2>1, <2>2 DEF Host!ShutdownGoesOn
<1>22. CASE UNCHANGED hostVars
  BY <1>19, <1>22 DEF hostVars, IHost, Host!TypeOK
<1> QED
  BY <1>1, <1>2, <1>4, <1>5, <1>6, <1>7, <1>9, <1>12, <1>13, <1>14, <1>15, <1>16, <1>17,
     <1>20, <1>21, <1>22 DEF Host!Next

\* The host starts with no runtime.
LEMMA HostInit == Host!Init => IHost
<1> SUFFICES ASSUME Host!Init PROVE IHost
  OBVIOUS
<1>1. \A k \in Host!Runtimes : runtime[k] = Host!Unlaunched
  BY DEF Host!Init
<1>2. Host!Unlaunched \in Host!Runtime /\ Sound(Host!Unlaunched) /\ Host!Unlaunched.pid = None
  BY DEF Host!Unlaunched, Host!Runtime, Sound
<1>3. Host!TypeOK
  BY <1>2, InstallConstants DEF Host!Init, Host!TypeOK
<1> QED
  BY <1>1, <1>2, <1>3 DEF IHost, Apart

\* A runtime the host accepted has a process to itself until its window is gone
\* (experimental-plugin-pid-registry.ts:11-19), through any number of launches,
\* cleanups that fail half way and are tried again, and a shutdown.
THEOREM RuntimesAreAlone == AllSpec => []OwnProcess
<1>1. AllInit => IHost
  BY HostInit DEF AllInit
<1>2. IHost /\ [AllNext]_<<subject, vars, hostVars>> => IHost'
  <2>1. [AllNext]_<<subject, vars, hostVars>> => [Host!Next]_hostVars
    BY DEF AllNext, hostVars
  <2> QED
    BY <2>1, HostStep
<1>3. IHost => OwnProcess
  <2> SUFFICES ASSUME IHost, NEW k \in Host!Runtimes,
                      runtime[k].launch = "handle", runtime[k].window = "open"
               PROVE  /\ runtime[k].pid = runtime[k].os /\ runtime[k].os # Editor
                      /\ \A j \in Host!Runtimes \ {k} : runtime[j].pid # runtime[k].pid
    BY DEF OwnProcess, Host!OwnProcess
  <2>1. runtime[k].at # "closed" /\ Sound(runtime[k])
    BY DEF IHost, Sound
  <2>2. runtime[k].pid # None
    BY <2>1 DEF Sound
  <2> QED
    BY <2>1, <2>2 DEF IHost, Apart, Sound
<1> QED
  BY <1>1, <1>2, <1>3, PTL DEF AllSpec

=============================================================================
