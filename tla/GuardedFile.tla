---------------------------- MODULE GuardedFile ----------------------------
(***************************************************************************)
(* What the file-truth store promises of one note's file: a save is a      *)
(* compare-and-replace.  A candidate takes the file's place only after a   *)
(* look found the version it was edited from, or nothing; a candidate that *)
(* was kept survives every failure until it is known to be on disk for     *)
(* good or the file turned out to be another; and "saved" is said of       *)
(* nothing less.  How temps, journals and payloads bring it about is the   *)
(* business of FileTruthStore.                                             *)
(***************************************************************************)
EXTENDS Naturals

CONSTANTS Bodies, None

VARIABLES
    file,       \* the version the path names, or None
    durable,    \* the version it names after a power loss
    offer,      \* the candidate on its way, or None
    phase,      \* how far it is
    guard,      \* what it may replace, until it has, or None
    kept,       \* the candidate that is stored beside the file, or None
    told        \* the last answer was "saved"

guarded == <<file, durable, offer, phase, guard, kept, told>>

Version == [id : Nat, body : Bodies, own : BOOLEAN]

\* "misled": a late external-change check moved the guard onto other bytes.
Guards == [over : Version, creates : BOOLEAN, misled : BOOLEAN]

\* "looked": the next thing that happens to the candidate is its replacement.
Phases == {"none", "offered", "looked", "placed", "confirmed", "refused"}

\* The version the candidate may replace is there, or nothing is and it may
\* create the file.
Expected(g) ==
    \/ file # None /\ file.id = g.over.id /\ file.body = g.over.body
    \/ file = None /\ g.creates

IsKept == kept # None /\ kept.body = offer

Init ==
    /\ file \in Version /\ durable = file
    /\ offer = None /\ phase = "none" /\ guard = None /\ kept = None /\ told = FALSE

\* A new candidate is taken only while none is kept.
Offer ==
    /\ phase = "none" /\ kept = None
    /\ offer' \in Bodies /\ phase' = "offered"
    /\ guard' \in Guards /\ Expected(guard')
    /\ UNCHANGED <<file, durable, kept, told>>

\* The kept candidate is offered again with the guard it was kept with, or is
\* believed to be in place.
Resume ==
    /\ phase = "none" /\ kept # None
    /\ offer' = kept.body
    /\ \/ phase' = "offered" /\ guard' = [over |-> kept.over, creates |-> kept.creates, misled |-> FALSE]
       \/ phase' = "placed" /\ guard' = None
    /\ UNCHANGED <<file, durable, kept, told>>

\* The same bytes under another identity; other bytes only by misleading.
Rebase ==
    /\ phase \in {"offered", "looked"}
    /\ guard' \in Guards
    /\ guard'.creates = guard.creates
    /\ guard.misled => guard'.misled
    /\ guard'.over.body = guard.over.body \/ guard'.misled
    /\ UNCHANGED <<file, durable, offer, phase, kept, told>>

\* Keeping a candidate records the guard of its offer.
Keep ==
    /\ phase = "offered"
    /\ kept' # None /\ kept'.body = offer /\ kept'.creates = guard.creates
    /\ UNCHANGED <<file, durable, offer, phase, guard, told>>

Look ==
    /\ phase = "offered" /\ IsKept
    /\ Expected(guard)
    /\ phase' = "looked"
    /\ UNCHANGED <<file, durable, offer, guard, kept, told>>

\* The replacement, or the creation of a file where there is none.
Replace ==
    /\ IsKept
    /\ phase = "looked" \/ (phase = "offered" /\ guard.creates /\ file = None)
    /\ file' \in Version /\ file'.body = offer
    /\ phase' = "placed" /\ guard' = None
    /\ UNCHANGED <<durable, offer, kept, told>>

\* The candidate's own bytes were found at the path already.
Find ==
    /\ phase = "offered" /\ file # None /\ file.body = offer
    /\ phase' = "placed" /\ guard' = None
    /\ UNCHANGED <<file, durable, offer, kept, told>>

Sync ==
    /\ phase = "placed"
    /\ durable' = file
    /\ UNCHANGED <<file, offer, phase, guard, kept, told>>

\* The bytes at the path are read back, and a power loss cannot undo them.
Confirm ==
    /\ phase = "placed"
    /\ file # None /\ file.body = offer /\ durable = file
    /\ phase' = "confirmed"
    /\ UNCHANGED <<file, durable, offer, guard, kept, told>>

\* The file is another by now, or came back where it was to be created.
Refuse ==
    /\ phase = "offered"
    /\ ~Expected(guard) \/ (guard.creates /\ file # None)
    /\ phase' = "refused" /\ guard' = None
    /\ UNCHANGED <<file, durable, offer, kept, told>>

\* Only a candidate that is in place, or refused, is no longer kept.
Forget ==
    /\ phase \in {"confirmed", "refused"}
    /\ kept' = None
    /\ UNCHANGED <<file, durable, offer, phase, guard, told>>

Settle ==
    /\ phase = "confirmed" /\ kept = None
    /\ offer' = None /\ phase' = "none" /\ told' = TRUE
    /\ UNCHANGED <<file, durable, guard, kept>>

\* Any other end; what was kept stays, or is kept just before the failure.
Abandon ==
    /\ offer' = None /\ phase' = "none" /\ guard' = None /\ told' = FALSE
    /\ \/ kept' = kept
       \/ phase = "offered" /\ kept' # None /\ kept'.body = offer /\ kept'.creates = guard.creates
    /\ UNCHANGED <<file, durable>>

\* A later answer, of an operation that offers nothing.
Answer ==
    /\ phase = "none" /\ told' = FALSE
    /\ UNCHANGED <<file, durable, offer, phase, guard, kept>>

\* Another program writes or removes the file.
Foreign ==
    /\ file' \in Version \cup {None} /\ durable' = file'
    /\ UNCHANGED <<offer, phase, guard, kept, told>>

Crash ==
    /\ file' \in {file, durable}
    /\ offer' = None /\ phase' = "none" /\ guard' = None /\ told' = FALSE
    /\ UNCHANGED <<durable, kept>>

Next ==
    \/ Offer \/ Resume \/ Rebase \/ Keep \/ Look \/ Replace \/ Find \/ Sync \/ Confirm
    \/ Refuse \/ Forget \/ Settle \/ Abandon \/ Answer \/ Foreign \/ Crash

Spec == Init /\ [][Next]_guarded
=============================================================================
